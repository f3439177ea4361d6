------------------------------ MODULE Explode ------------------------------
(***************************************************************************)
(* RecursiveCharacterChunker: the constructor's checks, and _explode,      *)
(* which breaks a text into units: paragraphs that fit in a chunk, the     *)
(* sentences of those that do not, and the words of the sentences that do  *)
(* not.                                                                    *)
(*                                                                         *)
(* A text is its words: where each begins and ends, and what kind of       *)
(* whitespace comes after it (the last one's kind does not matter).        *)
(***************************************************************************)
EXTENDS Integers, Sequences

CONSTANTS
  Texts,    \* the texts to chunk
  Settings  \* the chunk_size and chunk_overlap pairs to chunk them with

Kinds == {"word", "sentence", "paragraph"}

(* Words have a character at least and are not adjacent.                   *)
IsText(t) ==
  /\ t \in [from: Seq(Nat), to: Seq(Nat), kind: Seq(Kinds)]
  /\ Len(t.from) = Len(t.to) /\ Len(t.kind) = Len(t.to)
  /\ \A k \in 1..Len(t.to) : t.from[k] < t.to[k]
  /\ \A j, k \in 1..Len(t.to) : j < k => t.to[j] < t.from[k]

ASSUME ExplodeAssumption ==
  /\ \A t \in Texts : IsText(t)
  /\ Settings \subseteq [size: Int, overlap: Int]

VARIABLES
  text,    \* the text
  config,  \* chunk_size and chunk_overlap
  pc,      \* "new", then "refused" or the loop _explode is in, then chunking
  w,       \* the next word
  spans,   \* the units so far: the words [first, last] of each
  at       \* where each unit starts if they are joined by one space, and
           \* where one more would start

input == <<text, config>>
exploded == <<w, spans, at>>

words == Len(text.to)

(* The characters from word j to word k.                                   *)
Length(j, k) == text.to[k] - text.from[j]

(* Where units of one character at least start.                            *)
IsLayout(f) ==
  /\ f \in Seq(Nat)
  /\ Len(f) >= 1
  /\ \A j, k \in 1..Len(f) : j < k => f[j] + 2 <= f[k]

EndsParagraph(k) == k = words \/ text.kind[k] = "paragraph"
EndsSentence(k) == k = words \/ text.kind[k] \in {"sentence", "paragraph"}

(* The rest of a paragraph, or of a sentence, from word j on: j..k.        *)
RestOfParagraph(j, k) == EndsParagraph(k) /\ \A h \in j..(k - 1) : ~EndsParagraph(h)
RestOfSentence(j, k) == EndsSentence(k) /\ \A h \in j..(k - 1) : ~EndsSentence(h)

ExplodeInit ==
  /\ text \in Texts
  /\ config \in Settings
  /\ pc = "new"
  /\ w = 1
  /\ spans = <<>>
  /\ at = <<0>>

-----------------------------------------------------------------------------
(* Mutant of Refused: the overlap may be up to the chunk size.             *)
RefusedLargerOnly ==
  \/ config.size <= 0
  \/ config.overlap < 0
  \/ config.overlap > config.size

Refused ==
  \/ config.size <= 0
  \/ config.overlap < 0
  \/ config.overlap > config.size \div 2

Construct ==
  /\ pc = "new"
  /\ pc' = IF Refused THEN "refused" ELSE "paragraphs"
  /\ UNCHANGED <<input, exploded>>

(* units.append: the words w..k are the next unit.                         *)
Unit(k) ==
  /\ spans' = Append(spans, [first |-> w, last |-> k])
  /\ at' = Append(at, at[Len(at)] + Length(w, k) + 1)
  /\ w' = k + 1
  /\ UNCHANGED input

(* The loop that goes on after the unit that ends with word k.             *)
After(k, same) == IF EndsParagraph(k) THEN "paragraphs" ELSE same

TakeParagraph ==
  /\ pc = "paragraphs"
  /\ \E k \in w..words : RestOfParagraph(w, k) /\ Length(w, k) <= config.size /\ Unit(k)
  /\ UNCHANGED pc

(* Mutant of SplitParagraph: a paragraph that is too long is passed over.  *)
SplitParagraphDrops ==
  /\ pc = "paragraphs"
  /\ \E k \in w..words :
       RestOfParagraph(w, k) /\ Length(w, k) > config.size /\ w' = k + 1
  /\ UNCHANGED <<input, pc, spans, at>>

SplitParagraph ==
  /\ pc = "paragraphs"
  /\ \E k \in w..words : RestOfParagraph(w, k) /\ Length(w, k) > config.size
  /\ pc' = "sentences"
  /\ UNCHANGED <<input, exploded>>

(* Mutant of TakeSentence: the loop does not end with the paragraph.       *)
TakeSentenceStays ==
  /\ pc = "sentences"
  /\ \E k \in w..words : /\ RestOfSentence(w, k)
                         /\ Length(w, k) <= config.size
                         /\ Unit(k)
                         /\ pc' = IF k = words THEN "paragraphs" ELSE "sentences"

TakeSentence ==
  /\ pc = "sentences"
  /\ \E k \in w..words : /\ RestOfSentence(w, k)
                         /\ Length(w, k) <= config.size
                         /\ Unit(k)
                         /\ pc' = After(k, "sentences")

SplitSentence ==
  /\ pc = "sentences"
  /\ \E k \in w..words : RestOfSentence(w, k) /\ Length(w, k) > config.size
  /\ pc' = "words"
  /\ UNCHANGED <<input, exploded>>

(* A word is kept whole, however long.                                     *)
TakeWord ==
  /\ pc = "words"
  /\ Unit(w)
  /\ pc' = After(w, IF EndsSentence(w) THEN "sentences" ELSE "words")

Exploded ==
  /\ pc = "paragraphs"
  /\ w > words
  /\ pc' = "pack"
  /\ UNCHANGED <<input, exploded>>

ExplodeNext ==
  \/ Construct
  \/ TakeParagraph \/ SplitParagraph \/ TakeSentence \/ SplitSentence \/ TakeWord
  \/ Exploded

-----------------------------------------------------------------------------
(***************************************************************************)
(* Properties.                                                             *)
(***************************************************************************)
(* No word is lost, repeated or out of order, and the units are as long as *)
(* they are in the text: the packing loop is given all of the text.        *)
WordsAreKept ==
  /\ \A k \in 1..Len(spans) :
       /\ spans[k].first = IF k = 1 THEN 1 ELSE spans[k - 1].last + 1
       /\ at[k + 1] - at[k] - 1 = Length(spans[k].first, spans[k].last)
  /\ pc \in {"pack", "done"} =>
       IF spans = <<>> THEN words = 0 ELSE spans[Len(spans)].last = words

(* The coarsest boundary that works: a unit is only a part of its          *)
(* paragraph, or of its sentence, if that is longer than a chunk may be.   *)
IsParagraph(j, k) == RestOfParagraph(j, k) /\ (j = 1 \/ EndsParagraph(j - 1))
IsSentence(j, k) == RestOfSentence(j, k) /\ (j = 1 \/ EndsSentence(j - 1))

CoarsestUnits ==
  \A u \in 1..Len(spans) : \A j \in 1..spans[u].first : \A k \in spans[u].last..words :
    IsParagraph(j, k) \/ IsSentence(j, k) =>
      \/ j = spans[u].first /\ k = spans[u].last
      \/ Length(j, k) > config.size

=============================================================================
