------------------------------- MODULE Answer -------------------------------
(***************************************************************************)
(* One question: PgVectorRetriever's search, the prompt's rendering of     *)
(* what it found, the model's text, and TextCitationExtractor, which turns *)
(* the "(source: name, chunk k)" markers of the text into citations.       *)
(*                                                                         *)
(* The text is abstracted to what the extractor tells apart: its markers   *)
(* (a label and a chunk number), whether it has the abstention phrase, and *)
(* whether it is blank.  The model may write anything.                     *)
(***************************************************************************)
EXTENDS Naturals, Sequences

CONSTANTS
  Docs,        \* the documents that may be stored
  NameOf,      \* NameOf[d]: documents.name, which is not unique
  Indices,     \* the chunk numbers
  Labels,      \* what a marker may name
  Shown,       \* Shown[n]: name n as html.escape renders it in the prompt
  Matchable,   \* the labels the marker's regular expression can match
  Scores,      \* the similarities
  Threshold,   \* similarity_threshold; 0 when it is not set
  TopK,        \* top_k
  MaxMarkers   \* bound: the markers of one text

Names == {NameOf[d] : d \in Docs}

ASSUME AnswerAssumption ==
  /\ Names \subseteq Labels
  /\ Shown \in [Names -> Labels]
  /\ Matchable \subseteq Labels
  /\ Scores \subseteq Nat
  /\ Threshold \in Nat
  /\ TopK \in Nat
  /\ MaxMarkers \in Nat

VARIABLES
  corpus,     \* the chunks stored
  pc,         \* "search", "generate", "extract", then "done"
  retrieved,  \* the chunks found, with their scores, best first
  answer,     \* the model's text
  m,          \* the extractor's loop: the next marker
  citations,  \* the citations so far
  seen,       \* the keys cited so far
  abstained, citations_missing  \* the two signals of domain.Answer

vars == <<corpus, pc, retrieved, answer, m, citations, seen, abstained,
          citations_missing>>
signals == <<abstained, citations_missing>>

Chunk == [doc: Docs, index: Indices]
RetrievedChunk == [doc: Docs, index: Indices, score: Scores]
Marker == Labels \X Indices
Text == [markers: Seq(Marker), phrase: BOOLEAN, blank: BOOLEAN]

SeqUpTo(n, S) == UNION {[1..k -> S] : k \in 0..n}

NoText == [markers |-> <<>>, phrase |-> FALSE, blank |-> TRUE]

(* Nothing retrieved, nothing said: where a question starts.               *)
Fresh ==
  /\ retrieved = <<>>
  /\ answer = NoText
  /\ m = 1
  /\ citations = <<>>
  /\ seen = {}
  /\ abstained = FALSE
  /\ citations_missing = FALSE

Init ==
  /\ corpus \in SUBSET Chunk
  /\ pc = "search"
  /\ Fresh

-----------------------------------------------------------------------------
(* The chunks at or above the threshold, nearest first, at most top_k.     *)
(* Which of them the approximate HNSW index finds, and ties, are open.     *)
Ranked(s) ==
  /\ \A j, k \in 1..Len(s) : j < k => s[j].score >= s[k].score
  /\ \A j, k \in 1..Len(s) :
       j # k => <<s[j].doc, s[j].index>> # <<s[k].doc, s[k].index>>

Candidates ==
  {c \in RetrievedChunk : /\ [doc |-> c.doc, index |-> c.index] \in corpus
                          /\ c.score >= Threshold}

Search ==
  /\ pc = "search"
  /\ retrieved' \in {s \in SeqUpTo(TopK, Candidates) : Ranked(s)}
  /\ pc' = "generate"
  /\ UNCHANGED <<corpus, answer, m, citations, seen, signals>>

(* The name under which the prompt shows a chunk, and a model that follows *)
(* its instructions cites it.                                              *)
LabelOf(c) == Shown[NameOf[c.doc]]

Writable ==
  {t \in [markers: SeqUpTo(MaxMarkers, Marker), phrase: BOOLEAN, blank: BOOLEAN] :
     t.blank => t.markers = <<>> /\ ~t.phrase}

Generate ==
  /\ pc = "generate"
  /\ answer' \in Writable
  /\ pc' = "extract"
  /\ UNCHANGED <<corpus, retrieved, m, citations, seen, signals>>

-----------------------------------------------------------------------------
(* chunks_by_key: what a chunk is looked up by ...                         *)
Key(c) == <<NameOf[c.doc], c.index>>

(* Mutant of Matches: chunks are looked up by their number alone.          *)
MatchesNumber(key) == {k \in 1..Len(retrieved) : retrieved[k].index = key[2]}

(* ... and of several retrieved chunks with the same key, the last one.    *)
Matches(key) == {k \in 1..Len(retrieved) : Key(retrieved[k]) = key}

Found(key) ==
  retrieved[CHOOSE k \in Matches(key) : \A j \in Matches(key) : j <= k]

Extracting == pc = "extract" /\ m <= Len(answer.markers)
marker == answer.markers[m]

(* Mutant of Drop: the loop ends at a marker that is not of a source.      *)
DropStops ==
  /\ Extracting
  /\ marker[1] \notin Matchable \/ Matches(marker) = {}
  /\ m' = Len(answer.markers) + 1
  /\ UNCHANGED <<corpus, pc, retrieved, answer, citations, seen, signals>>

(* The expression does not match it, or nothing retrieved has this key.    *)
Drop ==
  /\ Extracting
  /\ marker[1] \notin Matchable \/ Matches(marker) = {}
  /\ m' = m + 1
  /\ UNCHANGED <<corpus, pc, retrieved, answer, citations, seen, signals>>

(* Mutant of Repeat: one citation for each name.                           *)
RepeatName ==
  /\ Extracting
  /\ marker[1] \in Matchable
  /\ Matches(marker) # {}
  /\ \E key \in seen : key[1] = marker[1]
  /\ m' = m + 1
  /\ UNCHANGED <<corpus, pc, retrieved, answer, citations, seen, signals>>

(* The source is cited already.                                            *)
Repeat ==
  /\ Extracting
  /\ marker[1] \in Matchable
  /\ Matches(marker) # {}
  /\ marker \in seen
  /\ m' = m + 1
  /\ UNCHANGED <<corpus, pc, retrieved, answer, citations, seen, signals>>

(* Mutant of Cite: the key is not remembered.                              *)
CiteForgets ==
  /\ Extracting
  /\ marker[1] \in Matchable
  /\ Matches(marker) # {}
  /\ marker \notin seen
  /\ citations' = Append(citations, [doc |-> Found(marker).doc, index |-> marker[2]])
  /\ m' = m + 1
  /\ UNCHANGED <<corpus, pc, retrieved, answer, seen, signals>>

Cite ==
  /\ Extracting
  /\ marker[1] \in Matchable
  /\ Matches(marker) # {}
  /\ marker \notin seen
  /\ seen' = seen \cup {marker}
  /\ citations' = Append(citations, [doc |-> Found(marker).doc,
                                     index |-> Found(marker).index])
  /\ m' = m + 1
  /\ UNCHANGED <<corpus, pc, retrieved, answer, signals>>

(* Mutant of Signal: a marker that was dropped still counts as a citation. *)
SignalMarkers ==
  /\ pc = "extract"
  /\ m > Len(answer.markers)
  /\ abstained' = answer.phrase
  /\ citations_missing' = (~answer.blank /\ answer.markers = <<>> /\ ~answer.phrase)
  /\ pc' = "done"
  /\ UNCHANGED <<corpus, retrieved, answer, m, citations, seen>>

(* _is_abstained and _is_citations_missing.                                *)
Signal ==
  /\ pc = "extract"
  /\ m > Len(answer.markers)
  /\ abstained' = answer.phrase
  /\ citations_missing' = (~answer.blank /\ citations = <<>> /\ ~answer.phrase)
  /\ pc' = "done"
  /\ UNCHANGED <<corpus, retrieved, answer, m, citations, seen>>

Next == Search \/ Generate \/ Drop \/ Repeat \/ Cite \/ Signal

Spec == Init /\ [][Next]_vars

-----------------------------------------------------------------------------
(***************************************************************************)
(* Properties.                                                             *)
(***************************************************************************)
(* The variables have their types, and the loop stays within the markers.  *)
TypeOK ==
  /\ corpus \in SUBSET Chunk
  /\ pc \in {"idle", "search", "generate", "extract", "done"}
  /\ retrieved \in Seq(RetrievedChunk)
  /\ answer \in Text
  /\ m \in 1..(Len(answer.markers) + 1)
  /\ citations \in Seq(Chunk)
  /\ seen \in SUBSET Marker
  /\ abstained \in BOOLEAN
  /\ citations_missing \in BOOLEAN

(* Each citation is a chunk that was retrieved, and the text names it: a   *)
(* marker the model made up, or one that names a stored chunk that was not *)
(* among the retrieved ones, never becomes a citation.                     *)
CitationsAreRetrieved ==
  \A k \in 1..Len(citations) :
    /\ \E j \in 1..Len(retrieved) :
         retrieved[j].doc = citations[k].doc /\ retrieved[j].index = citations[k].index
    /\ \E j \in 1..Len(answer.markers) :
         answer.markers[j] = <<NameOf[citations[k].doc], citations[k].index>>

(* One citation for each source, in the order the text first names them.   *)
FirstNamed(c) ==
  CHOOSE j \in 1..Len(answer.markers) :
    /\ answer.markers[j] = <<NameOf[c.doc], c.index>>
    /\ \A k \in 1..(j - 1) : answer.markers[k] # answer.markers[j]

CitationsInOrder ==
  \A j, k \in 1..Len(citations) :
    j < k => FirstNamed(citations[j]) < FirstNamed(citations[k])

(* No source is left out: each marker that can be matched and names a      *)
(* retrieved chunk leads to a citation of that name and number, also after *)
(* markers that were dropped or repeated.                                  *)
NamesRetrieved(j) ==
  /\ answer.markers[j][1] \in Matchable
  /\ \E k \in 1..Len(retrieved) : Key(retrieved[k]) = answer.markers[j]

NamedIsCited ==
  pc = "done" =>
    \A j \in 1..Len(answer.markers) :
      NamesRetrieved(j) => \E k \in 1..Len(citations) : Key(citations[k]) = answer.markers[j]

(* Of a text that says something and does not abstain, citations are       *)
(* reported missing exactly if it names nothing that was retrieved,        *)
(* whatever markers it has.  Whether a blank answer misses its citations   *)
(* the code and its documentation answer differently: it is left open.     *)
MissingMeansUnnamed ==
  pc = "done" /\ ~answer.blank /\ ~answer.phrase =>
    (citations_missing <=> \A j \in 1..Len(answer.markers) : ~NamesRetrieved(j))

(* From the prompt and back: if the text names a retrieved chunk the way   *)
(* the prompt showed it, that very chunk is cited, provided that escaping  *)
(* left its name alone, the expression can match it, and no other          *)
(* retrieved chunk was shown under the same name and number.               *)
PlainlyShown(j) ==
  LET c == retrieved[j]
      n == NameOf[c.doc]
  IN  /\ LabelOf(c) = n
      /\ n \in Matchable
      /\ \A k \in 1..Len(retrieved) :
           k # j => <<NameOf[retrieved[k].doc], retrieved[k].index>> # <<n, c.index>>

ShownIsCited ==
  pc = "done" =>
    \A j \in 1..Len(retrieved) :
      (PlainlyShown(j)
        /\ \E k \in 1..Len(answer.markers) :
             answer.markers[k] = <<LabelOf(retrieved[j]), retrieved[j].index>>)
      => \E k \in 1..Len(citations) :
           /\ citations[k].doc = retrieved[j].doc
           /\ citations[k].index = retrieved[j].index

=============================================================================
