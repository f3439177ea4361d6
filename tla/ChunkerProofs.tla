--------------------------- MODULE ChunkerProofs ---------------------------
(***************************************************************************)
(* Proofs about Chunker, for every text and every setting.  The inductive  *)
(* invariants add to the properties where _explode stands in the text (see *)
(* ExplodeProofs) and what relates the chunks to the loop's current list.  *)
(***************************************************************************)
EXTENDS Chunker, ExplodeProofs

-----------------------------------------------------------------------------
(* A range of units is longer than a proper suffix of it.                  *)
LEMMA SuffixIsShorter ==
  ASSUME IsLayout(at), NEW j \in 1..units, NEW k \in 1..units, NEW l \in 1..units,
         j < k, k <= l
  PROVE  /\ JoinLen(j, l) \in Int
         /\ JoinLen(k, l) \in Int
         /\ JoinLen(k, l) < JoinLen(j, l)
<1>1. at[j] \in Nat /\ at[k] \in Nat /\ at[l + 1] \in Nat
  BY SMTT(30) DEF IsLayout, units
<1>2. at[j] + 2 <= at[k]
  <2>1. Len(at) \in Nat /\ j \in 1..Len(at) /\ k \in 1..Len(at)
    BY DEF IsLayout, units
  <2> QED
    BY <2>1 DEF IsLayout
<1> QED
  BY <1>1, <1>2 DEF JoinLen

(* A sequence with one more element.                                       *)
LEMMA AppendFacts ==
  ASSUME NEW S, NEW s \in Seq(S), NEW e \in S
  PROVE  /\ Append(s, e) \in Seq(S)
         /\ Len(Append(s, e)) = Len(s) + 1
         /\ Len(s) \in Nat
         /\ \A k \in 1..Len(s) : Append(s, e)[k] = s[k]
         /\ Append(s, e)[Len(s) + 1] = e
  OBVIOUS

-----------------------------------------------------------------------------
(* Type correctness.  Inductive with: nothing is packed before the units   *)
(* are all known.                                                          *)
NothingBefore ==
  pc \notin {"pack", "done"} => chunks = <<>> /\ i = 1 /\ lo = 1

Typed == TypeOK /\ ExplodeTyped /\ NothingBefore

(* The steps of _explode, and those of _pack.                              *)
LEMMA ExplodeStep ==
  ASSUME Typed, ExplodeNext, UNCHANGED packed
  PROVE  /\ chunks = <<>> /\ i = 1 /\ lo = 1
         /\ chunks' = <<>> /\ i' = 1 /\ lo' = 1
         /\ pc \notin {"pack", "done"}
         /\ pc' \in {"refused", "paragraphs", "sentences", "words", "pack"}
<1>1. /\ pc \notin {"pack", "done"}
      /\ pc' \in {"refused", "paragraphs", "sentences", "words", "pack"}
  BY DEF ExplodeNext, Construct, TakeParagraph, SplitParagraph, TakeSentence, SplitSentence,
         TakeWord, Exploded, After
<1>2. chunks = <<>> /\ i = 1 /\ lo = 1
  BY <1>1 DEF Typed, NothingBefore
<1> QED
  BY <1>1, <1>2 DEF packed

LEMMA PackStep ==
  ASSUME Emit \/ Take \/ Finish
  PROVE  /\ text' = text /\ config' = config /\ w' = w /\ spans' = spans /\ at' = at
         /\ pc = "pack" /\ pc' \in {"pack", "done"}
  BY DEF Emit, Take, Finish, input, exploded

LEMMA InitTyped == Init => Typed
<1> SUFFICES ASSUME Init PROVE Typed
  OBVIOUS
<1>1. ExplodeTyped
  BY InitExplodeTyped DEF Init
<1>2. units = 0 /\ Len(spans) = 0
  BY DEF Init, ExplodeInit, units
<1> QED
  BY <1>1, <1>2 DEF Init, ExplodeInit, Typed, TypeOK, ExplodeTyped, NothingBefore, Chunk

LEMMA NextTyped == Typed /\ [Next]_vars => Typed'
<1> SUFFICES ASSUME Typed, [Next]_vars PROVE Typed'
  OBVIOUS
<1>1. CASE ExplodeNext /\ UNCHANGED packed
  <2>1. ExplodeTyped'
    BY <1>1, NextExplodeTyped DEF Typed
  <2>2. /\ chunks' = <<>> /\ i' = 1 /\ lo' = 1
        /\ pc' \in {"refused", "paragraphs", "sentences", "words", "pack"}
    BY <1>1, ExplodeStep
  <2>3. units' = Len(spans') /\ units' \in Nat
    BY <2>1 DEF ExplodeTyped, units
  <2>4. TypeOK'
    BY <2>1, <2>2, <2>3 DEF TypeOK, ExplodeTyped
  <2> QED
    BY <2>1, <2>2, <2>4 DEF Typed, NothingBefore
<1>2. CASE Emit \/ Take \/ Finish
  <2>1. /\ text' = text /\ config' = config /\ w' = w /\ spans' = spans /\ at' = at
        /\ pc = "pack" /\ pc' \in {"pack", "done"}
    BY <1>2, PackStep
  <2>2. ExplodeTyped' /\ NothingBefore'
    BY <2>1 DEF Typed, ExplodeTyped, NothingBefore, words
  <2>3. units' = units /\ Chunk' = Chunk /\ words' = words
    BY <2>1 DEF units, Chunk, words
  <2>4. /\ units \in Nat /\ i \in 1..(units + 1) /\ lo \in 1..i /\ chunks \in Seq(Chunk)
        /\ i \in Nat /\ lo \in Nat
    BY DEF Typed, TypeOK, IsLayout, units
  <2>5. i' \in 1..(units + 1) /\ lo' \in 1..i'
    BY <1>2, <2>4 DEF Emit, Take, Finish
  <2>6. chunks' \in Seq(Chunk)
    <3>1. lo < i => [lo |-> lo, hi |-> i - 1] \in Chunk
      BY <2>4 DEF Chunk
    <3> QED
      BY <1>2, <2>4, <3>1, SMTT(30) DEF Emit, Overflows, Take, Finish
  <2>7. TypeOK'
    BY <2>1, <2>3, <2>5, <2>6 DEF Typed, TypeOK
  <2> QED
    BY <2>2, <2>7 DEF Typed
<1>3. CASE UNCHANGED vars
  BY <1>3 DEF vars, input, exploded, packed, Typed, TypeOK, ExplodeTyped, NothingBefore,
              units, Chunk, words
<1> QED
  BY <1>1, <1>2, <1>3 DEF Next

LEMMA Numbers ==
  ASSUME TypeOK
  PROVE  /\ units \in Nat /\ i \in Nat /\ lo \in Nat
         /\ 1 <= lo /\ lo <= i /\ i <= units + 1
         /\ config.size \in Int /\ config.overlap \in Int
         /\ \A j, k \in 1..units : JoinLen(j, k) \in Int
<1>1. \A k \in 1..Len(at) : at[k] \in Nat
  BY DEF TypeOK, IsLayout
<1>2. Len(at) \in Nat /\ Len(at) >= 1
  BY DEF TypeOK, IsLayout
<1>3. units \in Nat
  BY <1>2 DEF units
<1>4. i \in Nat /\ lo \in Nat /\ 1 <= lo /\ lo <= i /\ i <= units + 1
  BY <1>3 DEF TypeOK
<1>5. config.size \in Int /\ config.overlap \in Int
  BY DEF TypeOK
<1>6. \A j, k \in 1..units : JoinLen(j, k) \in Int
  BY <1>1, <1>2 DEF units, JoinLen
<1> QED
  BY <1>3, <1>4, <1>5, <1>6

(* The type invariant, for every text and every setting.                   *)
THEOREM ChunkerTyped == Spec => []TypeOK
<1>1. Typed => TypeOK
  BY DEF Typed
<1> QED
  BY <1>1, InitTyped, NextTyped, PTL DEF Spec

-----------------------------------------------------------------------------
(* No word is lost or repeated between a text and its units, for every     *)
(* text and every setting (_explode).                                      *)
KeptInv == Typed /\ Kept /\ LongIsWord

LEMMA InitKept == Init => KeptInv
  BY InitTyped DEF Init, ExplodeInit, KeptInv, Kept, LongIsWord

LEMMA NextKeptInv == KeptInv /\ [Next]_vars => KeptInv'
<1> SUFFICES ASSUME KeptInv, [Next]_vars PROVE Kept' /\ LongIsWord'
  BY NextTyped DEF KeptInv
<1> USE DEF KeptInv
<1>1. CASE ExplodeNext /\ UNCHANGED packed
  BY <1>1, NextKept DEF Typed
<1>2. CASE Emit \/ Take \/ Finish
  BY <1>2, PackStep DEF Kept, LongIsWord, Length, words
<1>3. CASE UNCHANGED vars
  BY <1>3 DEF vars, input, exploded, Kept, LongIsWord, Length, words
<1> QED
  BY <1>1, <1>2, <1>3 DEF Next

THEOREM WordsAlwaysKept == Spec => []WordsAreKept
<1>1. KeptInv => WordsAreKept
  BY KeptIsEnough DEF KeptInv, Typed
<1> QED
  BY <1>1, InitKept, NextKeptInv, PTL DEF Spec

(* A unit that is not all of its paragraph, or of its sentence, is part of *)
(* one longer than chunk_size, for every text and every setting: _explode  *)
(* never splits what would fit.                                            *)
CoarseInv == Typed /\ Reached /\ CoarsestUnits

THEOREM UnitsAlwaysCoarsest == Spec => []CoarsestUnits
<1>1. Init => CoarseInv
  BY InitTyped DEF Init, ExplodeInit, CoarseInv, Reached, ReachedAt, CoarsestUnits
<1>2. CoarseInv /\ [Next]_vars => CoarseInv'
  <2> SUFFICES ASSUME CoarseInv, [Next]_vars PROVE Reached' /\ CoarsestUnits'
    BY NextTyped DEF CoarseInv
  <2> USE DEF CoarseInv
  <2>1. CASE ExplodeNext /\ UNCHANGED packed
    BY <2>1, NextCoarsest DEF Typed
  <2>2. CASE (Emit \/ Take \/ Finish) \/ UNCHANGED vars
    <3>1. /\ text' = text /\ config' = config /\ w' = w /\ spans' = spans
          /\ pc' = pc \/ pc' \in {"pack", "done"}
      BY <2>2, PackStep DEF vars, input, exploded
    <3> QED
      BY <3>1 DEF Reached, ReachedAt, CoarsestUnits, EndsParagraph, EndsSentence, IsParagraph,
                  IsSentence, RestOfParagraph, RestOfSentence, Length, words
  <2> QED
    BY <2>1, <2>2 DEF Next
<1>3. CoarseInv => CoarsestUnits
  BY DEF CoarseInv
<1> QED
  BY <1>1, <1>2, <1>3, PTL DEF Spec

-----------------------------------------------------------------------------
(* What the two steps that add a chunk do, in terms of the chunk.          *)
Current == [lo |-> lo, hi |-> i - 1]

Adds ==
  /\ units \in Nat /\ i \in Nat /\ lo \in Nat
  /\ lo \in 1..units /\ i - 1 \in 1..units /\ lo < i
  /\ chunks' \in Seq(Chunk)
  /\ Len(chunks) \in Nat
  /\ Len(chunks') = Len(chunks) + 1
  /\ \A k \in 1..Len(chunks) : chunks'[k] = chunks[k] /\ chunks[k] \in Chunk
  /\ chunks'[Len(chunks')] = Current

LEMMA EmitAdds ==
  ASSUME TypeOK, Emit
  PROVE  /\ Adds
         /\ pc = "pack" /\ pc' = "pack" /\ i' = i /\ at' = at /\ config' = config
         /\ i <= units
         /\ lo' \in (lo + 1)..i
         /\ lo' = i \/ IsSeed(lo')
<1>1. lo \in 1..units /\ i - 1 \in 1..units /\ lo < i
  BY DEF Emit, Overflows, TypeOK, IsLayout, units
<1>2. Current \in Chunk /\ chunks \in Seq(Chunk) /\ chunks' = Append(chunks, Current)
  BY <1>1 DEF Emit, TypeOK, Chunk, Current
<1>3. Adds
  BY <1>1, <1>2, Numbers, AppendFacts DEF Adds
<1>4. lo' \in (lo + 1)..i /\ (lo' = i \/ IsSeed(lo'))
  <2>1. lo' \in lo..i /\ Seeded(lo')
    BY DEF Emit
  <2>2. lo \in Nat /\ i \in Nat
    BY Numbers
  <2> QED
    BY <1>1, <2>1, <2>2 DEF Seeded
<1> QED
  BY <1>3, <1>4 DEF Emit, input, exploded

LEMMA FinishAdds ==
  ASSUME TypeOK, Finish
  PROVE  /\ lo < i => Adds
         /\ ~(lo < i) => chunks' = chunks
         /\ pc = "pack" /\ pc' = "done" /\ i' = i /\ at' = at /\ config' = config
         /\ i = units + 1
<1>1. CASE lo < i
  <2>1. lo \in 1..units /\ i - 1 \in 1..units
    BY <1>1, Numbers
  <2>2. Current \in Chunk /\ chunks \in Seq(Chunk) /\ chunks' = Append(chunks, Current)
    BY <1>1, <2>1 DEF Finish, TypeOK, Chunk, Current
  <2>3. Adds
    BY <1>1, <2>1, <2>2, Numbers, AppendFacts DEF Adds
  <2> QED
    BY <1>1, <2>3 DEF Finish, input, exploded
<1>2. CASE ~(lo < i)
  BY <1>2 DEF Finish, input, exploded
<1> QED
  BY <1>1, <1>2

-----------------------------------------------------------------------------
(* Chunk size.  Inductive with: what current holds fits, or is one word.   *)
IsWord(u) == spans[u].first = spans[u].last

CurrentFits ==
  lo < i => (lo = i - 1 /\ IsWord(lo)) \/ JoinLen(lo, i - 1) <= config.size

FitInv == KeptInv /\ CurrentFits /\ ChunksFit

LEMMA UnitFits ==
  ASSUME KeptInv, NEW u \in 1..units
  PROVE  IsWord(u) \/ JoinLen(u, u) <= config.size
  BY DEF KeptInv, Typed, TypeOK, Kept, LongIsWord, IsWord, JoinLen

LEMMA NextFit == FitInv /\ [Next]_vars => FitInv'
<1> SUFFICES ASSUME FitInv, [Next]_vars PROVE CurrentFits' /\ ChunksFit'
  BY NextKeptInv DEF FitInv
<1> USE DEF FitInv, KeptInv, Typed
<1>0. /\ units \in Nat /\ i \in Nat /\ lo \in Nat
      /\ 1 <= lo /\ lo <= i /\ i <= units + 1
      /\ config.size \in Int
      /\ \A j, k \in 1..units : JoinLen(j, k) \in Int
  BY Numbers
<1>1. CASE ExplodeNext /\ UNCHANGED packed
  BY <1>1, ExplodeStep DEF CurrentFits, ChunksFit
<1>2. CASE Emit
  <2>1. Adds /\ pc = "pack" /\ at' = at /\ config' = config /\ i' = i
        /\ lo' \in (lo + 1)..i
    BY <1>2, EmitAdds
  <2>2. spans' = spans
    BY <1>2, PackStep
  <2>3. ChunksFit'
    <3>1. (lo = i - 1 /\ IsWord(lo)) \/ JoinLen(lo, i - 1) <= config.size
      BY <2>1 DEF Adds, CurrentFits
    <3>2. \A k \in 1..Len(chunks') : k \in 1..Len(chunks) \/ k = Len(chunks')
      BY <2>1 DEF Adds
    <3>3. \A k \in 1..Len(chunks) : chunks'[k] = chunks[k]
      BY <2>1 DEF Adds
    <3>4. chunks'[Len(chunks')].lo = lo /\ chunks'[Len(chunks')].hi = i - 1
      BY <2>1 DEF Adds, Current
    <3> QED
      BY <2>1, <2>2, <3>1, <3>2, <3>3, <3>4 DEF ChunksFit, IsWord, JoinLen
  <2>4. CurrentFits'
    <3>1. SUFFICES ASSUME lo' < i
                   PROVE  (lo' = i - 1 /\ IsWord(lo')) \/ JoinLen(lo', i - 1) <= config.size
      BY <2>1, <2>2 DEF CurrentFits, IsWord, JoinLen
    <3>2. lo' \in 1..units /\ i - 1 \in 1..units /\ (lo' = i - 1 \/ lo' < i - 1)
      BY <1>0, <2>1, <3>1 DEF Adds
    <3>3. CASE lo' = i - 1
      <4>1. PICK u \in 1..units : u = i - 1
        BY <3>2
      <4> QED
        BY <3>3, <4>1, UnitFits
    <3>4. CASE lo' < i - 1
      <4>1. /\ lo \in 1..units /\ lo < lo' /\ lo' <= i - 1
            /\ lo < i /\ lo # i - 1
        BY <1>0, <2>1, <3>2, <3>4 DEF Adds
      <4>2. JoinLen(lo, i - 1) <= config.size
        BY <4>1 DEF CurrentFits
      <4>3. /\ JoinLen(lo', i - 1) < JoinLen(lo, i - 1)
            /\ JoinLen(lo', i - 1) \in Int /\ JoinLen(lo, i - 1) \in Int
        BY <3>2, <4>1, SuffixIsShorter DEF TypeOK
      <4> QED
        BY <1>0, <4>2, <4>3
    <3> QED
      BY <3>2, <3>3, <3>4
  <2> QED
    BY <2>3, <2>4
<1>3. CASE Take
  <2>1. /\ at' = at /\ spans' = spans /\ config' = config
        /\ lo' = lo /\ i' = i + 1 /\ chunks' = chunks /\ i <= units
    BY <1>3 DEF Take, input, exploded
  <2>2. ChunksFit'
    BY <2>1 DEF ChunksFit, JoinLen
  <2>3. lo < i => JoinLen(lo, i) <= config.size
    BY <1>0, <1>3 DEF Take, Overflows
  <2>4. lo = i => (IsWord(lo) \/ JoinLen(lo, i) <= config.size)
    <3>1. PICK u \in 1..units : u = i
      BY <1>0, <2>1
    <3> QED
      BY <3>1, UnitFits
  <2>5. i' - 1 = i /\ (lo < i \/ lo = i)
    BY <1>0, <2>1
  <2>6. CurrentFits'
    BY <1>0, <2>1, <2>3, <2>4, <2>5 DEF CurrentFits, IsWord, JoinLen
  <2> QED
    BY <2>2, <2>6
<1>4. CASE Finish
  <2>1. /\ lo < i => Adds
        /\ ~(lo < i) => chunks' = chunks
        /\ at' = at /\ spans' = spans /\ config' = config /\ i' = i /\ lo' = i
    BY <1>4, FinishAdds, PackStep DEF Finish
  <2>2. CASE lo < i
    <3>1. Adds
      BY <2>1, <2>2
    <3>2. ChunksFit'
      BY <2>1, <3>1, SMTT(30) DEF Adds, Current, CurrentFits, ChunksFit, IsWord, JoinLen
    <3> QED
      BY <1>0, <2>1, <3>2 DEF CurrentFits
  <2>3. CASE ~(lo < i)
    BY <1>0, <2>1, <2>3 DEF CurrentFits, ChunksFit, JoinLen
  <2> QED
    BY <2>2, <2>3
<1>5. CASE UNCHANGED vars
  BY <1>5 DEF vars, input, exploded, packed, CurrentFits, ChunksFit, IsWord, JoinLen
<1> QED
  BY <1>1, <1>2, <1>3, <1>4, <1>5 DEF Next

(* No chunk exceeds chunk_size unless it is one word, for every text and   *)
(* every setting (_pack).                                                  *)
THEOREM ChunksAlwaysFit == Spec => []ChunksFit
<1>1. Init => FitInv
  BY InitKept DEF Init, FitInv, CurrentFits, ChunksFit
<1>2. FitInv => ChunksFit
  BY DEF FitInv
<1> QED
  BY <1>1, <1>2, NextFit, PTL DEF Spec

-----------------------------------------------------------------------------
(* Starts.  Inductive with: every chunk starts before current does.        *)
StartsBeforeCurrent ==
  pc = "pack" => \A k \in 1..Len(chunks) : chunks[k].lo < lo

StartInv == Typed /\ StartsBeforeCurrent /\ StartsIncrease

LEMMA NextStart == StartInv /\ [Next]_vars => (StartsBeforeCurrent /\ StartsIncrease)'
<1> SUFFICES ASSUME StartInv, [Next]_vars
             PROVE  StartsBeforeCurrent' /\ StartsIncrease'
  OBVIOUS
<1> USE DEF StartInv, Typed
<1>0. units \in Nat /\ i \in Nat /\ lo \in Nat
  BY Numbers
<1>1. CASE ExplodeNext /\ UNCHANGED packed
  BY <1>1, ExplodeStep DEF StartsBeforeCurrent, StartsIncrease
<1>2. CASE Emit
  <2>1. Adds /\ pc = "pack" /\ pc' = "pack" /\ lo' \in (lo + 1)..i
    BY <1>2, EmitAdds
  <2>2. \A k \in 1..Len(chunks) : chunks[k].lo < lo /\ chunks[k].lo \in Nat
    BY <2>1, SMTT(30) DEF Adds, StartsBeforeCurrent, Chunk
  <2>3. StartsIncrease'
    <3>1. /\ Len(chunks) \in Nat /\ Len(chunks') = Len(chunks) + 1
          /\ \A k \in 1..Len(chunks) : chunks'[k].lo = chunks[k].lo
          /\ chunks'[Len(chunks')].lo = lo
      BY <2>1 DEF Adds, Current
    <3>2. \A j, k \in 1..Len(chunks') : j < k => j \in 1..Len(chunks)
      BY <3>1
    <3>3. \A k \in 1..Len(chunks') : k \in 1..Len(chunks) \/ k = Len(chunks')
      BY <3>1
    <3> QED
      BY <2>2, <3>1, <3>2, <3>3 DEF StartsIncrease
  <2>4. StartsBeforeCurrent'
    BY <1>0, <2>1, <2>2, SMTT(30) DEF Adds, Current, StartsBeforeCurrent
  <2> QED
    BY <2>3, <2>4
<1>3. CASE Take
  BY <1>3 DEF Take, StartsBeforeCurrent, StartsIncrease
<1>4. CASE Finish
  <2>1. /\ lo < i => Adds
        /\ ~(lo < i) => chunks' = chunks
        /\ pc = "pack" /\ pc' = "done"
    BY <1>4, FinishAdds
  <2>2. CASE lo < i
    <3>1. Adds
      BY <2>1, <2>2
    <3>2. \A k \in 1..Len(chunks) : chunks[k].lo < lo /\ chunks[k].lo \in Nat
      BY <2>1, <3>1, SMTT(30) DEF Adds, StartsBeforeCurrent, Chunk
    <3>3. /\ Len(chunks) \in Nat /\ Len(chunks') = Len(chunks) + 1
          /\ \A k \in 1..Len(chunks) : chunks'[k].lo = chunks[k].lo
          /\ chunks'[Len(chunks')].lo = lo
      BY <3>1 DEF Adds, Current
    <3>4. StartsIncrease'
      <4>1. \A j, k \in 1..Len(chunks') : j < k => j \in 1..Len(chunks)
        BY <3>3
      <4>2. \A k \in 1..Len(chunks') : k \in 1..Len(chunks) \/ k = Len(chunks')
        BY <3>3
      <4> QED
        BY <3>2, <3>3, <4>1, <4>2 DEF StartsIncrease
    <3> QED
      BY <2>1, <3>4 DEF StartsBeforeCurrent
  <2>3. CASE ~(lo < i)
    BY <2>1, <2>3 DEF StartsBeforeCurrent, StartsIncrease
  <2> QED
    BY <2>2, <2>3
<1>5. CASE UNCHANGED vars
  BY <1>5 DEF vars, input, exploded, packed, StartsBeforeCurrent, StartsIncrease
<1> QED
  BY <1>1, <1>2, <1>3, <1>4, <1>5 DEF Next

(* The chunks' starts strictly increase, so a text never has more chunks   *)
(* than units, whatever the overlap (_pack, _seed_overlap).                *)
THEOREM StartsAlwaysIncrease == Spec => []StartsIncrease
<1>1. Init => StartInv
  BY InitTyped DEF Init, StartInv, StartsBeforeCurrent, StartsIncrease
<1>2. StartInv /\ [Next]_vars => StartInv'
  BY NextTyped, NextStart DEF StartInv
<1>3. StartInv => StartsIncrease
  BY DEF StartInv
<1> QED
  BY <1>1, <1>2, <1>3, PTL DEF Spec

-----------------------------------------------------------------------------
(* Sharing.  Inductive with: what current shares with the last chunk is    *)
(* bounded in the same way.                                                *)
Bounded(first, last) == first < last => JoinLen(first, last) <= config.overlap

CurrentShares ==
  pc = "pack" /\ Len(chunks) > 0 => Bounded(lo, chunks[Len(chunks)].hi)

ShareInv == Typed /\ CurrentShares /\ SharedIsBounded

LEMMA NextShare == ShareInv /\ [Next]_vars => (CurrentShares /\ SharedIsBounded)'
<1> SUFFICES ASSUME ShareInv, [Next]_vars
             PROVE  CurrentShares' /\ SharedIsBounded'
  OBVIOUS
<1> USE DEF ShareInv, Typed
<1>0. units \in Nat /\ i \in Nat /\ lo \in Nat /\ Len(chunks) \in Nat
  BY Numbers DEF TypeOK
<1>a. ASSUME Adds, at' = at, config' = config, pc = "pack"
      PROVE  SharedIsBounded'
  <2> SUFFICES ASSUME NEW k \in 1..(Len(chunks') - 1)
               PROVE  Bounded(chunks'[k + 1].lo, chunks'[k].hi)
    BY <1>a DEF SharedIsBounded, Bounded, JoinLen
  <2>1. CASE k < Len(chunks)
    <3>1. k \in 1..(Len(chunks) - 1) /\ chunks'[k + 1] = chunks[k + 1] /\ chunks'[k] = chunks[k]
      BY <1>0, <1>a, <2>1 DEF Adds
    <3> QED
      BY <3>1 DEF SharedIsBounded, Bounded
  <2>2. CASE ~(k < Len(chunks))
    <3>1. k = Len(chunks) /\ k > 0 /\ chunks'[k] = chunks[k] /\ chunks'[k + 1].lo = lo
      BY <1>0, <1>a, <2>2 DEF Adds, Current
    <3> QED
      BY <1>a, <3>1 DEF CurrentShares
  <2> QED
    BY <2>1, <2>2
<1>1. CASE ExplodeNext /\ UNCHANGED packed
  BY <1>1, ExplodeStep DEF CurrentShares, SharedIsBounded
<1>2. CASE Emit
  <2>1. /\ Adds /\ pc = "pack" /\ pc' = "pack" /\ lo' \in (lo + 1)..i
        /\ at' = at /\ config' = config /\ i' = i
        /\ lo' = i \/ IsSeed(lo')
    BY <1>2, EmitAdds
  <2>2. chunks'[Len(chunks')].hi = i - 1
    BY <2>1 DEF Adds, Current
  <2>3. Bounded(lo', i - 1)
    BY <1>0, <2>1 DEF Bounded, IsSeed
  <2>4. CurrentShares'
    BY <2>1, <2>2, <2>3 DEF CurrentShares, Bounded, JoinLen
  <2> QED
    BY <1>a, <2>1, <2>4
<1>3. CASE Take
  BY <1>3 DEF Take, input, exploded, CurrentShares, SharedIsBounded, Bounded, JoinLen
<1>4. CASE Finish
  <2>1. /\ lo < i => Adds
        /\ ~(lo < i) => chunks' = chunks
        /\ pc = "pack" /\ pc' = "done" /\ at' = at /\ config' = config
    BY <1>4, FinishAdds
  <2>2. SharedIsBounded'
    BY <1>a, <2>1 DEF SharedIsBounded, JoinLen
  <2> QED
    BY <2>1, <2>2 DEF CurrentShares
<1>5. CASE UNCHANGED vars
  BY <1>5 DEF vars, input, exploded, packed, CurrentShares, SharedIsBounded, Bounded, JoinLen
<1> QED
  BY <1>1, <1>2, <1>3, <1>4, <1>5 DEF Next

(* Consecutive chunks share at most chunk_overlap characters or a single   *)
(* unit, for every text and every setting (_seed_overlap).                 *)
THEOREM SharingIsBounded == Spec => []SharedIsBounded
<1>1. Init => ShareInv
  BY InitTyped DEF Init, ShareInv, CurrentShares, SharedIsBounded
<1>2. ShareInv /\ [Next]_vars => ShareInv'
  BY NextTyped, NextShare DEF ShareInv
<1>3. ShareInv => SharedIsBounded
  BY DEF ShareInv
<1> QED
  BY <1>1, <1>2, <1>3, PTL DEF Spec

-----------------------------------------------------------------------------
(* Coverage.  Inductive with: current continues the last chunk, and it is  *)
(* not empty once the loop has taken the last unit.                        *)
Follows(c, first, last) == first <= c.hi + 1 /\ c.hi <= last

Linked ==
  \A k \in 1..Len(chunks) :
    IF k = 1 THEN chunks[k].lo = 1
    ELSE Follows(chunks[k - 1], chunks[k].lo, chunks[k].hi)

CurrentFollows ==
  pc = "pack" =>
    /\ lo = i => i <= units \/ i = 1
    /\ IF Len(chunks) = 0 THEN lo = 1 ELSE Follows(chunks[Len(chunks)], lo, i - 1)

EndReached ==
  pc = "done" => IF units = 0 THEN chunks = <<>>
                 ELSE chunks # <<>> /\ chunks[Len(chunks)].hi = units

CoverInv == Typed /\ Linked /\ CurrentFollows /\ EndReached

LEMMA NextCover == CoverInv /\ [Next]_vars => (Linked /\ CurrentFollows /\ EndReached)'
<1> SUFFICES ASSUME CoverInv, [Next]_vars
             PROVE  Linked' /\ CurrentFollows' /\ EndReached'
  OBVIOUS
<1> USE DEF CoverInv, Typed
<1>0. /\ units \in Nat /\ i \in Nat /\ lo \in Nat /\ Len(chunks) \in Nat
      /\ 1 <= lo /\ lo <= i /\ i <= units + 1
      /\ chunks \in Seq(Chunk)
      /\ \A k \in 1..Len(chunks) : chunks[k].lo \in 1..units /\ chunks[k].hi \in 1..units
  <2>1. chunks \in Seq(Chunk)
    BY DEF TypeOK
  <2>2. Len(chunks) \in Nat /\ \A k \in 1..Len(chunks) : chunks[k] \in Chunk
    BY <2>1
  <2>3. \A c \in Chunk : c.lo \in 1..units /\ c.hi \in 1..units
    BY DEF Chunk
  <2> QED
    BY <2>1, <2>2, <2>3, Numbers
<1>a. ASSUME Adds, pc = "pack" PROVE Linked'
  <2> SUFFICES ASSUME NEW k \in 1..Len(chunks')
               PROVE  IF k = 1 THEN chunks'[k].lo = 1
                      ELSE Follows(chunks'[k - 1], chunks'[k].lo, chunks'[k].hi)
    BY DEF Linked, Follows
  <2>1. CASE k <= Len(chunks)
    <3>1. /\ k \in 1..Len(chunks) /\ chunks'[k] = chunks[k]
          /\ k # 1 => k - 1 \in 1..Len(chunks) /\ chunks'[k - 1] = chunks[k - 1]
      BY <1>0, <1>a, <2>1 DEF Adds
    <3> QED
      BY <3>1 DEF Linked
  <2>2. CASE ~(k <= Len(chunks))
    <3>1. k = Len(chunks) + 1 /\ chunks'[k].lo = lo /\ chunks'[k].hi = i - 1
      BY <1>0, <1>a, <2>2 DEF Adds, Current
    <3>2. k # 1 => Len(chunks) # 0 /\ k - 1 = Len(chunks) /\ chunks'[k - 1] = chunks[k - 1]
      BY <1>0, <1>a, <3>1 DEF Adds
    <3> QED
      BY <1>0, <1>a, <3>1, <3>2 DEF CurrentFollows
  <2> QED
    BY <2>1, <2>2
<1>1. CASE ExplodeNext /\ UNCHANGED packed
  BY <1>1, ExplodeStep DEF Linked, CurrentFollows, EndReached
<1>2. CASE Emit
  <2>1. /\ Adds /\ pc = "pack" /\ pc' = "pack" /\ lo' \in (lo + 1)..i
        /\ i' = i /\ i <= units /\ at' = at
    BY <1>2, EmitAdds
  <2>2. Len(chunks') # 0 /\ chunks'[Len(chunks')].hi = i - 1
    BY <1>0, <2>1 DEF Adds, Current
  <2>3. Follows(chunks'[Len(chunks')], lo', i - 1)
    BY <1>0, <2>1, <2>2 DEF Follows
  <2>4. CurrentFollows'
    BY <2>1, <2>2, <2>3 DEF CurrentFollows, Follows, units
  <2>5. Linked'
    BY <1>a, <2>1
  <2> QED
    BY <2>1, <2>4, <2>5 DEF EndReached
<1>3. CASE Take
  <2>1. /\ lo' = lo /\ i' = i + 1 /\ chunks' = chunks /\ pc = "pack" /\ pc' = "pack"
    BY <1>3 DEF Take
  <2>2. CurrentFollows'
    BY <1>0, <2>1 DEF CurrentFollows, Follows
  <2> QED
    BY <2>1, <2>2 DEF Linked, Follows, EndReached
<1>4. CASE Finish
  <2>1. /\ lo < i => Adds
        /\ ~(lo < i) => chunks' = chunks
        /\ pc = "pack" /\ pc' = "done" /\ at' = at /\ i = units + 1
    BY <1>4, FinishAdds
  <2>2. units' = units
    BY <2>1 DEF units
  <2>3. CASE lo < i
    <3>1. Adds
      BY <2>1, <2>3
    <3>2. units # 0 /\ chunks' # <<>> /\ chunks'[Len(chunks')].hi = units
      BY <1>0, <2>1, <3>1 DEF Adds, Current
    <3> QED
      BY <1>a, <2>1, <2>2, <3>1, <3>2 DEF CurrentFollows, EndReached
  <2>4. CASE ~(lo < i)
    <3>1. lo = i /\ i = 1 /\ units = 0
      BY <1>0, <2>1, <2>4 DEF CurrentFollows
    <3>2. Len(chunks) = 0
      BY <1>0, <2>1, <3>1 DEF CurrentFollows, Follows
    <3>3. chunks = <<>>
      BY <1>0, <3>2
    <3> QED
      BY <2>1, <2>2, <2>4, <3>1, <3>3 DEF Linked, CurrentFollows, EndReached
  <2> QED
    BY <2>3, <2>4
<1>5. CASE UNCHANGED vars
  BY <1>5 DEF vars, input, exploded, packed, units, Linked, Follows, CurrentFollows, EndReached
<1> QED
  BY <1>1, <1>2, <1>3, <1>4, <1>5 DEF Next

(* No part of a text is lost, for every text and every setting: the chunks *)
(* link up from the first unit to the last (_pack).                        *)
THEOREM TextAlwaysCovered == Spec => []TextIsCovered
<1>1. Init => CoverInv
  BY InitTyped DEF Init, ExplodeInit, CoverInv, Linked, CurrentFollows, EndReached
<1>2. CoverInv /\ [Next]_vars => CoverInv'
  BY NextTyped, NextCover DEF CoverInv
<1>3. CoverInv => TextIsCovered
  BY DEF CoverInv, Linked, Follows, EndReached, TextIsCovered
<1> QED
  BY <1>1, <1>2, <1>3, PTL DEF Spec

-----------------------------------------------------------------------------
(* Progress, for every text and every setting: w and i and lo are bounded  *)
(* by the number of words and of units, and a loop is only left for a      *)
(* later or deeper one, or for the next word.  So _explode takes at most   *)
(* three steps for each word, and _pack two turns for each unit.           *)
LEMMA ExplodeProgresses ==
  ASSUME ExplodeTyped, ExplodeNext
  PROVE  w' >= w /\ (w' > w \/ Stage[pc'] > Stage[pc])
<1>0. w \in Nat /\ words \in Nat
  BY DEF ExplodeTyped, IsText, words
<1>1. CASE Construct \/ SplitParagraph \/ SplitSentence \/ Exploded
  <2>1. w' = w
    BY <1>1 DEF Construct, SplitParagraph, SplitSentence, Exploded, exploded
  <2>2. Stage[pc'] > Stage[pc]
    BY <1>1 DEF Construct, SplitParagraph, SplitSentence, Exploded, Stage
  <2> QED
    BY <1>0, <2>1, <2>2
<1>2. CASE TakeParagraph \/ TakeSentence \/ TakeWord
  <2>1. \E k \in w..words : w' = k + 1
    <3>1. TakeWord => w \in w..words /\ w' = w + 1
      BY <1>0 DEF TakeWord, Unit, ExplodeTyped
    <3> QED
      BY <1>2, <3>1 DEF TakeParagraph, TakeSentence, Unit
  <2> QED
    BY <1>0, <2>1
<1> QED
  BY <1>1, <1>2 DEF ExplodeNext

THEOREM TurnsProgress == Spec => EveryTurnProgresses
<1>1. ASSUME Typed, Next
      PROVE  /\ w' >= w /\ i' >= i /\ lo' >= lo
             /\ w' > w \/ i' > i \/ lo' > lo \/ Stage[pc'] > Stage[pc]
  <2>0. i \in Nat /\ lo \in Nat /\ lo <= i /\ w \in Nat
    BY <1>1, Numbers DEF Typed, TypeOK
  <2>1. CASE ExplodeNext /\ UNCHANGED packed
    BY <1>1, <2>0, <2>1, ExplodeProgresses DEF packed, Typed
  <2>2. CASE Emit
    BY <1>1, <2>0, <2>2, EmitAdds, PackStep DEF Typed
  <2>3. CASE Take
    BY <2>0, <2>3, PackStep DEF Take
  <2>4. CASE Finish
    <3>1. w' = w /\ i' = i /\ lo' = i /\ Stage[pc'] > Stage[pc]
      BY <2>4, PackStep DEF Finish, Stage
    <3> QED
      BY <2>0, <3>1
  <2> QED
    BY <1>1, <2>1, <2>2, <2>3, <2>4 DEF Next
<1> QED
  BY <1>1, InitTyped, NextTyped, PTL DEF Spec, EveryTurnProgresses

=============================================================================
