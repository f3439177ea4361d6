--------------------------- MODULE ExplodeProofs ---------------------------
(***************************************************************************)
(* What the steps of _explode preserve, for every text and every setting:  *)
(* the lemmas that ChunkerProofs builds its theorems about the units on.   *)
(***************************************************************************)
EXTENDS Explode, TLAPS

-----------------------------------------------------------------------------
(* Types.                                                                  *)
ExplodeTyped ==
  /\ IsText(text)
  /\ config \in [size: Int, overlap: Int]
  /\ w \in 1..(words + 1)
  /\ spans \in Seq([first: 1..words, last: 1..words])
  /\ IsLayout(at)
  /\ Len(at) = Len(spans) + 1
  /\ pc \in {"sentences", "words"} => w <= words

LEMMA Element == ASSUME NEW f \in Seq(Nat), NEW j \in 1..Len(f) PROVE f[j] \in Nat
  OBVIOUS

LEMMA ElementOf == ASSUME NEW S, NEW f \in Seq(S), NEW j \in 1..Len(f) PROVE f[j] \in S
  OBVIOUS

(* The words j..k are a character at least.                                *)
LEMMA LengthIsPositive ==
  ASSUME IsText(text), NEW j \in 1..words, NEW k \in 1..words, j <= k
  PROVE  words \in Nat /\ Length(j, k) \in Nat /\ Length(j, k) >= 1
<1>1. text.from \in Seq(Nat) /\ text.to \in Seq(Nat)
  BY DEF IsText
<1>2. Len(text.from) = words /\ words \in Nat
  BY <1>1 DEF IsText, words
<1>3. text.from[j] \in Nat /\ text.to[j] \in Nat /\ text.from[k] \in Nat /\ text.to[k] \in Nat
  BY <1>1, <1>2, Element DEF words
<1>4. text.from[j] < text.to[j] /\ text.from[k] < text.to[k]
  BY DEF IsText, words
<1>5. j < k => text.to[j] < text.from[k]
  BY DEF IsText, words
<1>6. j \in Nat /\ k \in Nat /\ (j = k \/ j < k)
  BY <1>2
<1> QED
  BY <1>2, <1>3, <1>4, <1>5, <1>6 DEF Length

(* The next unit after the others.                                         *)
LEMMA LayoutGrows ==
  ASSUME NEW f, IsLayout(f), NEW n \in Nat, n >= 1
  PROVE  /\ IsLayout(Append(f, f[Len(f)] + n + 1))
         /\ Len(Append(f, f[Len(f)] + n + 1)) = Len(f) + 1
<1> DEFINE g == Append(f, f[Len(f)] + n + 1)
<1>1. /\ f \in Seq(Nat) /\ Len(f) \in Nat /\ Len(f) >= 1
      /\ \A j \in 1..Len(f) : f[j] \in Nat
      /\ \A j, k \in 1..Len(f) : j < k => f[j] + 2 <= f[k]
  BY DEF IsLayout
<1>2. f[Len(f)] \in Nat /\ f[Len(f)] + n + 1 \in Nat
  BY <1>1
<1>3. /\ g \in Seq(Nat) /\ Len(g) = Len(f) + 1
      /\ \A j \in 1..Len(f) : g[j] = f[j]
      /\ g[Len(f) + 1] = f[Len(f)] + n + 1
  BY <1>1, <1>2
<1>4. ASSUME NEW j \in 1..Len(g), NEW k \in 1..Len(g), j < k
      PROVE  g[j] + 2 <= g[k]
  <2>1. CASE k <= Len(f)
    BY <1>1, <1>3, <1>4, <2>1
  <2>2. CASE k = Len(f) + 1
    <3>1. j \in 1..Len(f) /\ g[j] = f[j] /\ (j < Len(f) \/ j = Len(f))
      BY <1>1, <1>3, <1>4, <2>2
    <3>2. f[j] <= f[Len(f)]
      <4>1. j < Len(f) => f[j] + 2 <= f[Len(f)]
        BY <1>1, <3>1
      <4>2. f[j] \in Nat
        BY <1>1, <3>1
      <4> QED
        BY <1>2, <3>1, <4>1, <4>2
    <3> QED
      BY <1>1, <1>2, <1>3, <2>2, <3>1, <3>2
  <2> QED
    BY <1>1, <1>3, <2>1, <2>2
<1> QED
  BY <1>1, <1>3, <1>4 DEF IsLayout

(* What the step that takes the words w..k does.                           *)
LEMMA UnitFacts ==
  ASSUME ExplodeTyped, NEW k \in w..words, Unit(k)
  PROVE  /\ text' = text /\ config' = config /\ w' = k + 1
         /\ w \in Nat /\ k \in Nat /\ words \in Nat /\ 1 <= w /\ w <= k /\ k <= words
         /\ Len(spans) \in Nat
         /\ spans' \in Seq([first: 1..words, last: 1..words])
         /\ Len(spans') = Len(spans) + 1
         /\ \A u \in 1..Len(spans) : spans'[u] = spans[u]
         /\ spans'[Len(spans) + 1] = [first |-> w, last |-> k]
         /\ IsLayout(at') /\ Len(at') = Len(at) + 1
         /\ \A u \in 1..Len(at) : at'[u] = at[u]
         /\ at'[Len(at) + 1] = at[Len(at)] + Length(w, k) + 1
         /\ at[Len(at)] \in Nat /\ Length(w, k) \in Nat
<1>1. /\ text' = text /\ config' = config /\ w' = k + 1
      /\ spans' = Append(spans, [first |-> w, last |-> k])
      /\ at' = Append(at, at[Len(at)] + Length(w, k) + 1)
  BY DEF Unit, input
<1>2. w \in Nat /\ k \in Nat /\ words \in Nat /\ 1 <= w /\ w <= k /\ k <= words
  BY DEF ExplodeTyped, IsText, words
<1>3. Length(w, k) \in Nat /\ Length(w, k) >= 1
  BY <1>2, LengthIsPositive DEF ExplodeTyped
<1>4. [first |-> w, last |-> k] \in [first: 1..words, last: 1..words]
  BY <1>2
<1>5. /\ spans \in Seq([first: 1..words, last: 1..words])
      /\ Len(spans) \in Nat
  BY DEF ExplodeTyped
<1>6. /\ spans' \in Seq([first: 1..words, last: 1..words])
      /\ Len(spans') = Len(spans) + 1
      /\ \A u \in 1..Len(spans) : spans'[u] = spans[u]
      /\ spans'[Len(spans) + 1] = [first |-> w, last |-> k]
  BY <1>1, <1>4, <1>5
<1>7. at \in Seq(Nat) /\ Len(at) \in Nat /\ Len(at) >= 1 /\ IsLayout(at)
  BY DEF ExplodeTyped, IsLayout
<1>8. IsLayout(at') /\ Len(at') = Len(at) + 1
  BY <1>1, <1>3, <1>7, LayoutGrows
<1>9. at[Len(at)] \in Nat
  BY <1>7
<1>10. /\ \A u \in 1..Len(at) : at'[u] = at[u]
       /\ at'[Len(at) + 1] = at[Len(at)] + Length(w, k) + 1
  BY <1>1, <1>3, <1>7, <1>9
<1> QED
  BY <1>1, <1>2, <1>3, <1>5, <1>6, <1>8, <1>9, <1>10

(* Each step of _explode takes one unit, or none.                          *)
TakesNone ==
  /\ UNCHANGED <<text, config, w, spans, at>>
  /\ pc # "done" /\ pc' # "done"
  /\ pc' = "pack" => w = words + 1
  /\ pc' \in {"sentences", "words"} => w <= words

Takes(k) ==
  /\ Unit(k)
  /\ k = w \/ Length(w, k) <= config.size
  /\ pc' \in {"paragraphs", "sentences", "words"}
  /\ pc' # "paragraphs" => k # words

LEMMA StepTakes ==
  ASSUME ExplodeTyped, ExplodeNext
  PROVE  TakesNone \/ \E k \in w..words : Takes(k)
<1>0. w \in Nat /\ words \in Nat /\ w <= words + 1 /\ w >= 1
  BY DEF ExplodeTyped, IsText, words
<1>1. CASE Construct
  BY <1>1 DEF Construct, input, exploded, TakesNone
<1>2. CASE TakeParagraph
  BY <1>2 DEF TakeParagraph, Takes
<1>3. CASE SplitParagraph
  BY <1>0, <1>3 DEF SplitParagraph, input, exploded, TakesNone
<1>4. CASE TakeSentence
  BY <1>4 DEF TakeSentence, After, EndsParagraph, Takes
<1>5. CASE SplitSentence
  BY <1>0, <1>5 DEF SplitSentence, input, exploded, TakesNone
<1>6. CASE TakeWord
  <2>1. /\ pc = "words" /\ Unit(w) /\ pc' \in {"paragraphs", "sentences", "words"}
        /\ pc' # "paragraphs" => w # words
    BY <1>6 DEF TakeWord, After, EndsParagraph
  <2>2. w \in w..words
    BY <1>0, <2>1 DEF ExplodeTyped
  <2> QED
    BY <2>1, <2>2 DEF Takes
<1>7. CASE Exploded
  BY <1>0, <1>7 DEF Exploded, input, exploded, TakesNone
<1> QED
  BY <1>1, <1>2, <1>3, <1>4, <1>5, <1>6, <1>7 DEF ExplodeNext

LEMMA InitExplodeTyped == ExplodeInit => ExplodeTyped
<1> SUFFICES ASSUME ExplodeInit PROVE ExplodeTyped
  OBVIOUS
<1>1. IsText(text) /\ config \in [size: Int, overlap: Int]
  BY ExplodeAssumption DEF ExplodeInit
<1>2. words \in Nat
  BY <1>1 DEF IsText, words
<1>3. IsLayout(at) /\ Len(at) = 1
  BY DEF ExplodeInit, IsLayout
<1> QED
  BY <1>1, <1>2, <1>3 DEF ExplodeInit, ExplodeTyped

LEMMA NextExplodeTyped == ExplodeTyped /\ ExplodeNext => ExplodeTyped'
<1> SUFFICES ASSUME ExplodeTyped, ExplodeNext PROVE ExplodeTyped'
  OBVIOUS
<1>1. CASE TakesNone
  BY <1>1 DEF TakesNone, ExplodeTyped, IsText, IsLayout, words
<1>2. ASSUME NEW k \in w..words, Takes(k) PROVE ExplodeTyped'
  <2>1. /\ text' = text /\ config' = config /\ w' = k + 1
        /\ w \in Nat /\ k \in Nat /\ words \in Nat /\ 1 <= w /\ w <= k /\ k <= words
        /\ Len(spans) \in Nat
        /\ spans' \in Seq([first: 1..words, last: 1..words])
        /\ Len(spans') = Len(spans) + 1
        /\ IsLayout(at') /\ Len(at') = Len(at) + 1
    BY <1>2, UnitFacts DEF Takes
  <2>2. words' = words
    BY <2>1 DEF words
  <2>3. IsText(text') /\ config' \in [size: Int, overlap: Int] /\ Len(at') = Len(spans') + 1
    BY <2>1 DEF ExplodeTyped
  <2>4. pc' \in {"sentences", "words"} => w' <= words
    BY <1>2, <2>1 DEF Takes
  <2>5. w' \in 1..(words + 1)
    BY <2>1
  <2> QED
    BY <2>1, <2>2, <2>3, <2>4, <2>5 DEF ExplodeTyped
<1> QED
  BY <1>1, <1>2, StepTakes

-----------------------------------------------------------------------------
(* The units.  Inductive with: the units so far end before the next word.  *)
Kept ==
  /\ \A u \in 1..Len(spans) :
       /\ spans[u].first = IF u = 1 THEN 1 ELSE spans[u - 1].last + 1
       /\ at[u + 1] - at[u] - 1 = Length(spans[u].first, spans[u].last)
  /\ IF spans = <<>> THEN w = 1 ELSE spans[Len(spans)].last = w - 1
  /\ pc \in {"pack", "done"} => w = words + 1

(* A unit that is too long is one word.                                    *)
LongIsWord ==
  \A u \in 1..Len(spans) :
    spans[u].first = spans[u].last \/ Length(spans[u].first, spans[u].last) <= config.size

LEMMA NextKept == ExplodeTyped /\ Kept /\ LongIsWord /\ ExplodeNext => Kept' /\ LongIsWord'
<1> SUFFICES ASSUME ExplodeTyped, Kept, LongIsWord, ExplodeNext PROVE Kept' /\ LongIsWord'
  OBVIOUS
<1>1. CASE TakesNone
  BY <1>1 DEF TakesNone, Kept, LongIsWord, Length, words
<1>2. ASSUME NEW k \in w..words, Takes(k) PROVE Kept' /\ LongIsWord'
  <2>1. /\ text' = text /\ config' = config /\ w' = k + 1 /\ k \in Nat
        /\ w \in Nat /\ Len(spans) \in Nat
        /\ Len(spans') = Len(spans) + 1
        /\ \A u \in 1..Len(spans) : spans'[u] = spans[u]
        /\ spans'[Len(spans) + 1] = [first |-> w, last |-> k]
        /\ \A u \in 1..Len(at) : at'[u] = at[u]
        /\ at'[Len(at) + 1] = at[Len(at)] + Length(w, k) + 1
        /\ at[Len(at)] \in Nat /\ Length(w, k) \in Nat
        /\ Len(at) = Len(spans) + 1
    BY <1>2, UnitFacts DEF Takes, ExplodeTyped
  <2>2. \A j, m : Length(j, m)' = Length(j, m)
    BY <2>1 DEF Length
  <2>3. ASSUME NEW u \in 1..Len(spans')
        PROVE  /\ spans'[u].first = IF u = 1 THEN 1 ELSE spans'[u - 1].last + 1
               /\ at'[u + 1] - at'[u] - 1 = Length(spans'[u].first, spans'[u].last)
               /\ \/ spans'[u].first = spans'[u].last
                  \/ Length(spans'[u].first, spans'[u].last) <= config.size
    <3>1. CASE u \in 1..Len(spans)
      <4>1. /\ spans'[u] = spans[u] /\ at'[u] = at[u] /\ at'[u + 1] = at[u + 1]
            /\ u # 1 => spans'[u - 1] = spans[u - 1]
        <5>1. u \in 1..Len(at) /\ u + 1 \in 1..Len(at) /\ (u # 1 => u - 1 \in 1..Len(spans))
          BY <2>1, <3>1
        <5> QED
          BY <2>1, <3>1, <5>1
      <4> QED
        BY <3>1, <4>1 DEF Kept, LongIsWord
    <3>2. CASE u = Len(spans) + 1
      <4>1. spans'[u] = [first |-> w, last |-> k]
        BY <2>1, <3>2
      <4>2. at'[u + 1] = at[u] + Length(w, k) + 1 /\ at'[u] = at[u] /\ at[u] \in Nat
        BY <2>1, <3>2
      <4>3. w = IF u = 1 THEN 1 ELSE spans'[u - 1].last + 1
        <5>1. CASE spans = <<>>
          BY <2>1, <3>2, <5>1 DEF Kept
        <5>2. CASE spans # <<>>
          <6>1. Len(spans) # 0
            BY <5>2 DEF ExplodeTyped
          <6>2. u # 1 /\ u - 1 = Len(spans) /\ spans'[u - 1] = spans[Len(spans)]
            BY <2>1, <3>2, <6>1
          <6>3. spans[Len(spans)].last = w - 1
            BY <5>2 DEF Kept
          <6> QED
            BY <2>1, <6>2, <6>3
        <5> QED
          BY <5>1, <5>2
      <4>4. w = k \/ Length(w, k) <= config.size
        BY <1>2 DEF Takes
      <4> QED
        BY <2>1, <4>1, <4>2, <4>3, <4>4
    <3> QED
      BY <2>1, <3>1, <3>2
  <2>4. spans' # <<>> /\ spans'[Len(spans')].last = w' - 1
    BY <2>1
  <2>5. pc' \notin {"pack", "done"}
    BY <1>2 DEF Takes
  <2> QED
    BY <2>1, <2>3, <2>4, <2>5 DEF Kept, LongIsWord, Length
<1> QED
  BY <1>1, <1>2, StepTakes

LEMMA KeptIsEnough == ExplodeTyped /\ Kept => WordsAreKept
<1> SUFFICES ASSUME ExplodeTyped, Kept PROVE WordsAreKept
  OBVIOUS
<1>1. w \in Nat /\ words \in Nat
  BY DEF ExplodeTyped, IsText, words
<1> QED
  BY <1>1 DEF Kept, WordsAreKept

-----------------------------------------------------------------------------
(* The order of the units, and their joined length: a space takes no more  *)
(* than what it stands for in the text.                                    *)
Squeezed ==
  /\ \A u \in 1..Len(spans) : spans[u].first <= spans[u].last
  /\ \A j, k \in 1..Len(spans) :
       j < k => /\ spans[j].last < spans[k].first
                /\ at[k] - at[j] <= text.from[spans[k].first] - text.from[spans[j].first]

LEMMA WordsHavePlaces ==
  ASSUME IsText(text)
  PROVE  /\ words \in Nat
         /\ \A j \in 1..words : text.from[j] \in Nat /\ text.to[j] \in Nat
         /\ \A j, k \in 1..words : j < k => text.to[j] < text.from[k]
<1>1. text.from \in Seq(Nat) /\ text.to \in Seq(Nat) /\ Len(text.from) = words
  BY DEF IsText, words
<1>2. words \in Nat
  BY <1>1 DEF words
<1>3. \A j \in 1..words : text.from[j] \in Nat /\ text.to[j] \in Nat
  BY <1>1, Element DEF words
<1>4. \A j, k \in 1..words : j < k => text.to[j] < text.from[k]
  BY DEF IsText, words
<1> QED
  BY <1>2, <1>3, <1>4

LEMMA UnitsHavePlaces ==
  ASSUME ExplodeTyped
  PROVE  /\ Len(spans) \in Nat /\ Len(at) = Len(spans) + 1 /\ words \in Nat /\ w \in Nat
         /\ spans # <<>> => Len(spans) >= 1
         /\ at[Len(spans) + 1] \in Nat
         /\ \A u \in 1..Len(spans) :
              /\ spans[u].first \in 1..words /\ spans[u].last \in 1..words
              /\ text.from[spans[u].first] \in Nat
              /\ at[u] \in Nat
<1>1. spans \in Seq([first: 1..words, last: 1..words]) /\ IsText(text)
  BY DEF ExplodeTyped
<1>2. Len(spans) \in Nat /\ (spans # <<>> => Len(spans) >= 1)
  BY <1>1
<1>3. words \in Nat /\ w \in Nat
  BY <1>1, WordsHavePlaces DEF ExplodeTyped
<1>4. at \in Seq(Nat) /\ Len(at) = Len(spans) + 1
  BY DEF ExplodeTyped, IsLayout
<1>5. \A u \in 1..Len(at) : at[u] \in Nat
  BY <1>4
<1>6. ASSUME NEW u \in 1..Len(spans)
      PROVE  /\ spans[u].first \in 1..words /\ spans[u].last \in 1..words
             /\ text.from[spans[u].first] \in Nat
  <2>1. spans[u] \in [first: 1..words, last: 1..words]
    BY <1>1, ElementOf
  <2> QED
    BY <1>1, <2>1, WordsHavePlaces
<1> QED
  BY <1>2, <1>3, <1>4, <1>5, <1>6

(* The unit before the next one, and what lies between them.               *)
LEMMA LastUnit ==
  ASSUME ExplodeTyped, Kept, Squeezed, w <= words, spans # <<>>
  PROVE  LET n == Len(spans)
         IN  /\ n \in Nat /\ n >= 1
             /\ spans[n].last < w
             /\ at[n + 1] - at[n] <= text.from[w] - text.from[spans[n].first]
<1> DEFINE n == Len(spans)
           f == spans[n].first
<1>1. n \in Nat /\ n >= 1 /\ n \in 1..n /\ w \in Nat /\ words \in Nat /\ IsText(text)
  BY UnitsHavePlaces DEF ExplodeTyped
<1>2. spans[n].last = w - 1
  BY DEF Kept
<1>3. at[n + 1] - at[n] - 1 = text.to[w - 1] - text.from[f]
  BY <1>1, <1>2 DEF Kept, Length
<1>4. /\ f \in 1..words /\ spans[n].last \in 1..words /\ text.from[f] \in Nat
      /\ at[n] \in Nat /\ at[n + 1] \in Nat
  BY <1>1, UnitsHavePlaces
<1>5. w - 1 \in 1..words /\ w \in 1..words /\ w - 1 < w
  BY <1>1, <1>2, <1>4
<1>6. text.to[w - 1] < text.from[w] /\ text.to[w - 1] \in Nat /\ text.from[w] \in Nat
  BY <1>1, <1>5, WordsHavePlaces
<1>7. at[n + 1] - at[n] <= text.from[w] - text.from[f]
  BY <1>3, <1>4, <1>6
<1> QED
  BY <1>1, <1>2, <1>5, <1>7

LEMMA NextSqueezed == ExplodeTyped /\ Kept /\ Squeezed /\ ExplodeNext => Squeezed'
<1> SUFFICES ASSUME ExplodeTyped, Kept, Squeezed, ExplodeNext PROVE Squeezed'
  OBVIOUS
<1>1. CASE TakesNone
  BY <1>1 DEF TakesNone, Squeezed
<1>2. ASSUME NEW k \in w..words, Takes(k) PROVE Squeezed'
  <2> DEFINE n == Len(spans)
             From(u) == text.from[spans[u].first]
  <2>1. /\ text' = text /\ w \in Nat /\ k \in Nat /\ words \in Nat /\ w \in 1..words /\ w <= k
        /\ n \in Nat /\ Len(spans') = n + 1 /\ Len(at) = n + 1
        /\ \A u \in 1..n : spans'[u] = spans[u]
        /\ spans'[n + 1] = [first |-> w, last |-> k]
        /\ \A u \in 1..(n + 1) : at'[u] = at[u]
    <3>1. Unit(k) /\ Len(at) = n + 1
      BY <1>2, UnitsHavePlaces DEF Takes
    <3>2. w \in Nat /\ k \in Nat /\ words \in Nat /\ 1 <= w /\ w <= k /\ k <= words
      BY <3>1, UnitFacts
    <3>3. w \in 1..words
      BY <3>2
    <3> QED
      BY <3>1, <3>2, <3>3, UnitFacts
  <2>2. \A u \in 1..Len(spans') : spans'[u].first <= spans'[u].last
    <3>1. ASSUME NEW u \in 1..n PROVE spans'[u].first <= spans'[u].last
      BY <2>1 DEF Squeezed
    <3>2. spans'[n + 1].first <= spans'[n + 1].last
      BY <2>1
    <3> QED
      BY <2>1, <3>1, <3>2
  <2>3. ASSUME NEW j \in 1..n
        PROVE  spans[j].last < w /\ at[n + 1] - at[j] <= text.from[w] - From(j)
    <3>1. spans # <<>> /\ n >= 1
      BY <2>1
    <3>2. spans[n].last < w /\ at[n + 1] - at[n] <= text.from[w] - From(n)
      BY <2>1, <3>1, LastUnit
    <3>3. /\ spans[j].last \in Nat /\ spans[n].last \in Nat /\ spans[n].first \in Nat
          /\ From(j) \in Nat /\ From(n) \in Nat
          /\ at[j] \in Nat /\ at[n] \in Nat /\ at[n + 1] \in Nat
      <4>1. n \in 1..n
        BY <2>1, <3>1
      <4> QED
        BY <4>1, UnitsHavePlaces
    <3>4. text.from[w] \in Nat
      BY <2>1, WordsHavePlaces DEF ExplodeTyped
    <3>5. CASE j = n
      BY <3>2, <3>5
    <3>6. CASE j < n
      <4>1. /\ spans[j].last < spans[n].first /\ at[n] - at[j] <= From(n) - From(j)
            /\ spans[n].first <= spans[n].last
        BY <2>1, <3>1, <3>6 DEF Squeezed
      <4>2. spans[j].last < w
        BY <2>1, <3>2, <3>3, <4>1
      <4>3. at[n + 1] - at[j] <= text.from[w] - From(j)
        <5> DEFINE a == at[j]
                   b == at[n]
                   c == at[n + 1]
                   x == From(j)
                   y == From(n)
                   z == text.from[w]
        <5>1. a \in Int /\ b \in Int /\ c \in Int /\ x \in Int /\ y \in Int /\ z \in Int
          BY <3>3, <3>4
        <5>2. b - a <= y - x /\ c - b <= z - y
          BY <3>2, <4>1
        <5>3. c - a <= z - x
          <6> HIDE DEF a, b, c, x, y, z
          <6> QED
            BY <5>1, <5>2
        <5> QED
          BY <5>3
      <4> QED
        BY <4>2, <4>3
    <3> QED
      BY <2>1, <3>5, <3>6
  <2>4. ASSUME NEW j \in 1..Len(spans'), NEW m \in 1..Len(spans'), j < m
        PROVE  /\ spans'[j].last < spans'[m].first
               /\ at'[m] - at'[j] <= text.from[spans'[m].first] - text.from[spans'[j].first]
    <3>1. j \in 1..n /\ (m \in 1..n \/ m = n + 1) /\ j \in 1..(n + 1) /\ m \in 1..(n + 1)
      BY <2>1, <2>4
    <3>2. CASE m \in 1..n
      BY <2>1, <2>4, <3>1, <3>2 DEF Squeezed
    <3>3. CASE m = n + 1
      BY <2>1, <2>3, <3>1, <3>3
    <3> QED
      BY <3>1, <3>2, <3>3
  <2> QED
    BY <2>1, <2>2, <2>4 DEF Squeezed
<1> QED
  BY <1>1, <1>2, StepTakes

-----------------------------------------------------------------------------
(* The boundaries.  Inductive with: where in a paragraph and in a sentence *)
(* the loops stand, and that what they have split is too long.             *)
ReachedAt(p, v) ==
  /\ p = "new" => v = 1
  /\ p = "paragraphs" => v = 1 \/ EndsParagraph(v - 1)
  /\ p = "sentences" => v = 1 \/ EndsSentence(v - 1)
  /\ p \in {"sentences", "words"} =>
       \A j \in 1..v : \A k \in v..words : IsParagraph(j, k) => Length(j, k) > config.size
  /\ p = "words" =>
       \A j \in 1..v : \A k \in v..words : IsSentence(j, k) => Length(j, k) > config.size

Reached == ReachedAt(pc, w)

(* The unit [first, last] is as long a part of the text as it may be.      *)
Coarse(first, last) ==
  \A j \in 1..first : \A k \in last..words :
    IsParagraph(j, k) \/ IsSentence(j, k) =>
      \/ j = first /\ k = last
      \/ Length(j, k) > config.size

(* Only the rest of a paragraph that starts with it is a paragraph around  *)
(* a word, and so for sentences.                                           *)
LEMMA OneParagraph ==
  ASSUME NEW v \in Nat, NEW m \in Nat, NEW j \in Nat, NEW k \in Nat,
         1 <= j, j <= v, v <= m, v <= k,
         RestOfParagraph(v, m), v = 1 \/ EndsParagraph(v - 1), RestOfParagraph(j, k)
  PROVE  j = v /\ k = m
<1>1. ~(j < v)
  BY DEF RestOfParagraph
<1>2. ~(m < k) /\ ~(k < m)
  BY <1>1 DEF RestOfParagraph
<1> QED
  BY <1>1, <1>2

LEMMA OneSentence ==
  ASSUME NEW v \in Nat, NEW m \in Nat, NEW j \in Nat, NEW k \in Nat,
         1 <= j, j <= v, v <= m, v <= k,
         RestOfSentence(v, m), v = 1 \/ EndsSentence(v - 1), RestOfSentence(j, k)
  PROVE  j = v /\ k = m
<1>1. ~(j < v)
  BY DEF RestOfSentence
<1>2. ~(m < k) /\ ~(k < m)
  BY <1>1 DEF RestOfSentence
<1> QED
  BY <1>1, <1>2

(* A sentence does not go on after its paragraph.                          *)
LEMMA ParagraphEndsSentence ==
  /\ \A k : EndsParagraph(k) => EndsSentence(k)
  /\ \A j, k : IsParagraph(j, k) => RestOfParagraph(j, k)
  /\ \A j, k : IsSentence(j, k) => RestOfSentence(j, k)
  BY DEF EndsParagraph, EndsSentence, IsParagraph, IsSentence

(* What is around the word after m was around the word v <= m too, when no *)
(* paragraph, or no sentence, ends in between.                             *)
LEMMA SameParagraph ==
  ASSUME NEW v \in Nat, NEW m \in Nat, 1 <= v, v <= m, words \in Nat, m < words,
         \A h \in v..m : ~EndsParagraph(h),
         \A j \in 1..v : \A k \in v..words : IsParagraph(j, k) => Length(j, k) > config.size
  PROVE  \A j \in 1..(m + 1) : \A k \in (m + 1)..words :
           IsParagraph(j, k) => Length(j, k) > config.size
<1> SUFFICES ASSUME NEW j \in 1..(m + 1), NEW k \in (m + 1)..words, IsParagraph(j, k)
             PROVE  Length(j, k) > config.size
  OBVIOUS
<1>1. j <= v
  <2>1. j - 1 \notin v..m
    BY DEF IsParagraph
  <2> QED
    BY <2>1
<1> QED
  BY <1>1

LEMMA SameSentence ==
  ASSUME NEW v \in Nat, NEW m \in Nat, 1 <= v, v <= m, words \in Nat, m < words,
         \A h \in v..m : ~EndsSentence(h),
         \A j \in 1..v : \A k \in v..words : IsSentence(j, k) => Length(j, k) > config.size
  PROVE  \A j \in 1..(m + 1) : \A k \in (m + 1)..words :
           IsSentence(j, k) => Length(j, k) > config.size
<1> SUFFICES ASSUME NEW j \in 1..(m + 1), NEW k \in (m + 1)..words, IsSentence(j, k)
             PROVE  Length(j, k) > config.size
  OBVIOUS
<1>1. j <= v
  <2>1. j - 1 \notin v..m
    BY DEF IsSentence
  <2> QED
    BY <2>1
<1> QED
  BY <1>1

LEMMA StepReaches ==
  ASSUME ExplodeTyped, Reached, ExplodeNext
  PROVE  /\ ReachedAt(pc', w')
         /\ \/ TakesNone
            \/ \E k \in w..words : Unit(k) /\ Coarse(w, k)
<1>0. /\ w \in Nat /\ words \in Nat /\ 1 <= w /\ w <= words + 1
      /\ pc \in {"sentences", "words"} => w <= words
  BY DEF ExplodeTyped, IsText, words
<1>1. CASE Construct
  BY <1>1 DEF Construct, input, exploded, TakesNone, Reached, ReachedAt
<1>2. CASE TakeParagraph
  <2>1. PICK k \in w..words : RestOfParagraph(w, k) /\ Unit(k)
    BY <1>2 DEF TakeParagraph
  <2>2. pc = "paragraphs" /\ pc' = "paragraphs" /\ w' = k + 1 /\ k \in Nat
    BY <1>0, <1>2, <2>1 DEF TakeParagraph, Unit
  <2>3. ReachedAt(pc', w')
    BY <2>1, <2>2 DEF ReachedAt, RestOfParagraph
  <2>4. w = 1 \/ EndsParagraph(w - 1)
    BY <2>2 DEF Reached, ReachedAt
  <2>5. ASSUME NEW j \in 1..w, NEW m \in k..words, RestOfParagraph(j, m)
        PROVE  j = w /\ m = k
    BY <1>0, <2>1, <2>2, <2>4, <2>5, OneParagraph
  <2>6. ASSUME NEW j \in 1..w, NEW m \in k..words, RestOfSentence(j, m)
        PROVE  j = w /\ m = k
    <3>1. ~(j < w)
      BY <1>0, <2>2, <2>4, <2>6, ParagraphEndsSentence DEF RestOfSentence
    <3>2. ~(k < m)
      BY <1>0, <2>1, <2>2, <2>6, ParagraphEndsSentence DEF RestOfSentence, RestOfParagraph
    <3> QED
      BY <1>0, <2>2, <3>1, <3>2
  <2>7. Coarse(w, k)
    BY <2>5, <2>6, ParagraphEndsSentence DEF Coarse
  <2> QED
    BY <2>1, <2>3, <2>7
<1>3. CASE SplitParagraph
  <2>1. PICK k \in w..words : RestOfParagraph(w, k) /\ Length(w, k) > config.size
    BY <1>3 DEF SplitParagraph
  <2>2. pc = "paragraphs" /\ pc' = "sentences" /\ w' = w /\ w <= words /\ TakesNone /\ k \in Nat
    BY <1>0, <1>3, <2>1 DEF SplitParagraph, input, exploded, TakesNone
  <2>3. w = 1 \/ EndsParagraph(w - 1)
    BY <2>2 DEF Reached, ReachedAt
  <2>4. ASSUME NEW j \in 1..w, NEW m \in w..words, IsParagraph(j, m)
        PROVE  Length(j, m) > config.size
    <3>1. j = w /\ m = k
      BY <1>0, <2>1, <2>2, <2>3, <2>4, OneParagraph, ParagraphEndsSentence
    <3> QED
      BY <2>1, <3>1
  <2> QED
    BY <2>2, <2>3, <2>4, ParagraphEndsSentence DEF ReachedAt
<1>4. CASE TakeSentence
  <2>1. PICK k \in w..words : RestOfSentence(w, k) /\ Unit(k) /\ pc' = After(k, "sentences")
    BY <1>4 DEF TakeSentence
  <2>2. pc = "sentences" /\ w' = k + 1 /\ k \in Nat /\ w <= k /\ k <= words
    BY <1>0, <1>4, <2>1 DEF TakeSentence, Unit
  <2>3. /\ w = 1 \/ EndsSentence(w - 1)
        /\ \A j \in 1..w : \A m \in w..words : IsParagraph(j, m) => Length(j, m) > config.size
    BY <2>2 DEF Reached, ReachedAt
  <2>4. Coarse(w, k)
    <3>1. ASSUME NEW j \in 1..w, NEW m \in k..words, IsSentence(j, m)
          PROVE  j = w /\ m = k
      BY <1>0, <2>1, <2>2, <2>3, <3>1, OneSentence, ParagraphEndsSentence
    <3>2. ASSUME NEW j \in 1..w, NEW m \in k..words, IsParagraph(j, m)
          PROVE  Length(j, m) > config.size
      BY <1>0, <2>2, <2>3, <3>2
    <3> QED
      BY <3>1, <3>2 DEF Coarse
  <2>5. ReachedAt(pc', w')
    <3>1. CASE EndsParagraph(k)
      BY <2>1, <2>2, <3>1 DEF After, ReachedAt
    <3>2. CASE ~EndsParagraph(k)
      <4>1. pc' = "sentences" /\ k < words
        BY <1>0, <2>1, <2>2, <3>2 DEF After, EndsParagraph
      <4>2. \A h \in w..k : ~EndsParagraph(h)
        BY <1>0, <2>1, <2>2, <3>2, ParagraphEndsSentence DEF RestOfSentence
      <4>3. \A j \in 1..(k + 1) : \A m \in (k + 1)..words :
              IsParagraph(j, m) => Length(j, m) > config.size
        BY <1>0, <2>2, <2>3, <4>1, <4>2, SameParagraph
      <4>4. EndsSentence(k)
        BY <2>1 DEF RestOfSentence
      <4> QED
        BY <2>2, <4>1, <4>3, <4>4 DEF ReachedAt
    <3> QED
      BY <3>1, <3>2
  <2> QED
    BY <2>1, <2>4, <2>5
<1>5. CASE SplitSentence
  <2>1. PICK k \in w..words : RestOfSentence(w, k) /\ Length(w, k) > config.size
    BY <1>5 DEF SplitSentence
  <2>2. pc = "sentences" /\ pc' = "words" /\ w' = w /\ w <= words /\ TakesNone /\ k \in Nat
    BY <1>0, <1>5, <2>1 DEF SplitSentence, input, exploded, TakesNone
  <2>3. /\ w = 1 \/ EndsSentence(w - 1)
        /\ \A j \in 1..w : \A m \in w..words : IsParagraph(j, m) => Length(j, m) > config.size
    BY <2>2 DEF Reached, ReachedAt
  <2>4. ASSUME NEW j \in 1..w, NEW m \in w..words, IsSentence(j, m)
        PROVE  Length(j, m) > config.size
    <3>1. j = w /\ m = k
      BY <1>0, <2>1, <2>2, <2>3, <2>4, OneSentence, ParagraphEndsSentence
    <3> QED
      BY <2>1, <3>1
  <2> QED
    BY <2>2, <2>3, <2>4 DEF ReachedAt
<1>6. CASE TakeWord
  <2>1. /\ pc = "words" /\ Unit(w) /\ w' = w + 1 /\ w <= words
        /\ pc' = After(w, IF EndsSentence(w) THEN "sentences" ELSE "words")
    BY <1>0, <1>6 DEF TakeWord, Unit
  <2>2. PICK k \in w..words : k = w
    BY <1>0, <2>1
  <2>3. /\ k \in Nat /\ w' = k + 1 /\ w <= k /\ k <= words /\ Unit(k)
        /\ EndsParagraph(k) => pc' = "paragraphs"
        /\ ~EndsParagraph(k) => pc' = IF EndsSentence(k) THEN "sentences" ELSE "words"
    BY <1>0, <2>1, <2>2 DEF After
  <2>4. /\ \A j \in 1..w : \A m \in w..words : IsParagraph(j, m) => Length(j, m) > config.size
        /\ \A j \in 1..w : \A m \in w..words : IsSentence(j, m) => Length(j, m) > config.size
    BY <2>1 DEF Reached, ReachedAt
  <2>5. Coarse(w, k)
    BY <2>2, <2>4 DEF Coarse
  <2>6. ReachedAt(pc', w')
    <3>1. CASE EndsParagraph(k)
      BY <2>3, <3>1 DEF ReachedAt
    <3>2. CASE ~EndsParagraph(k)
      <4>1. k < words
        BY <1>0, <2>3, <3>2 DEF EndsParagraph
      <4>2. \A j \in 1..(k + 1) : \A m \in (k + 1)..words :
              IsParagraph(j, m) => Length(j, m) > config.size
        <5>1. \A h \in w..k : ~EndsParagraph(h)
          BY <1>0, <2>2, <3>2
        <5> QED
          BY <1>0, <2>3, <2>4, <4>1, <5>1, SameParagraph
      <4>3. ASSUME ~EndsSentence(k)
            PROVE  \A j \in 1..(k + 1) : \A m \in (k + 1)..words :
                     IsSentence(j, m) => Length(j, m) > config.size
        <5>1. \A h \in w..k : ~EndsSentence(h)
          BY <1>0, <2>2, <4>3
        <5> QED
          BY <1>0, <2>3, <2>4, <4>1, <5>1, SameSentence
      <4> QED
        BY <2>3, <3>2, <4>2, <4>3 DEF ReachedAt
    <3> QED
      BY <3>1, <3>2
  <2> QED
    BY <2>3, <2>5, <2>6
<1>7. CASE Exploded
  BY <1>0, <1>7 DEF Exploded, input, exploded, TakesNone, ReachedAt
<1> QED
  BY <1>1, <1>2, <1>3, <1>4, <1>5, <1>6, <1>7 DEF ExplodeNext

LEMMA NextCoarsest ==
  ExplodeTyped /\ Reached /\ CoarsestUnits /\ ExplodeNext => Reached' /\ CoarsestUnits'
<1> SUFFICES ASSUME ExplodeTyped, Reached, CoarsestUnits, ExplodeNext
             PROVE  Reached' /\ CoarsestUnits'
  OBVIOUS
<1>1. ReachedAt(pc', w') /\ (TakesNone \/ \E k \in w..words : Unit(k) /\ Coarse(w, k))
  BY StepReaches
<1>2. text' = text /\ config' = config
  BY <1>1 DEF TakesNone, Unit, input
<1>3. Reached'
  BY <1>1, <1>2
     DEF Reached, ReachedAt, EndsParagraph, EndsSentence, IsParagraph, IsSentence,
         RestOfParagraph, RestOfSentence, Length, words
<1>4. \A u \in 1..Len(spans') : Coarse(spans'[u].first, spans'[u].last)
  <2>1. \A u \in 1..Len(spans) : Coarse(spans[u].first, spans[u].last)
    BY DEF Coarse, CoarsestUnits
  <2>2. CASE TakesNone
    BY <2>1, <2>2 DEF TakesNone
  <2>3. ASSUME NEW k \in w..words, Unit(k), Coarse(w, k)
        PROVE  \A u \in 1..Len(spans') : Coarse(spans'[u].first, spans'[u].last)
    <3>1. /\ Len(spans) \in Nat /\ Len(spans') = Len(spans) + 1
          /\ \A u \in 1..Len(spans) : spans'[u] = spans[u]
          /\ spans'[Len(spans) + 1] = [first |-> w, last |-> k]
      BY <2>3, UnitFacts
    <3>2. \A u \in 1..Len(spans') : u \in 1..Len(spans) \/ u = Len(spans) + 1
      BY <3>1
    <3> QED
      BY <2>1, <2>3, <3>1, <3>2
  <2> QED
    BY <1>1, <2>2, <2>3
<1>5. CoarsestUnits'
  BY <1>2, <1>4
     DEF Coarse, CoarsestUnits, EndsParagraph, EndsSentence, IsParagraph, IsSentence,
         RestOfParagraph, RestOfSentence, Length, words
<1> QED
  BY <1>3, <1>5

=============================================================================
