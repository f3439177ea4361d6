-------------------------- MODULE EvaluationProofs --------------------------
(***************************************************************************)
(* Proofs about Evaluation, for any dataset, documents, settings and texts.*)
(***************************************************************************)
EXTENDS Evaluation, AnswerProofs, FiniteSetTheorems

-----------------------------------------------------------------------------
(* A question in progress: what Answer keeps, and that a blank text says   *)
(* nothing.                                                                *)
BlankText == answer.blank => answer.markers = <<>> /\ ~answer.phrase

QuestionInv == Typed /\ ExtractInv /\ BlankText /\ Signals

LEMMA FreshQuestion ==
  ASSUME Fresh, pc = "idle", corpus \in SUBSET Chunk
  PROVE  QuestionInv
<1>1. Typed
  BY FreshTyped
<1> QED
  BY <1>1, UnstartedExtract DEF QuestionInv, BlankText, Signals, Fresh, NoText

LEMMA ForgetQuestion ==
  ASSUME Typed, Forget, pc' = "idle", UNCHANGED corpus
  PROVE  QuestionInv'
<1>1. /\ NoText \in Text /\ Len(NoText.markers) = 0
      /\ <<>> \in Seq(RetrievedChunk) /\ <<>> \in Seq(Chunk) /\ Len(<<>>) = 0
  <2>1. <<>> \in Seq(Marker) /\ <<>> \in Seq(RetrievedChunk) /\ <<>> \in Seq(Chunk)
        /\ Len(<<>>) = 0
    BY EmptySeq
  <2> QED
    BY <2>1 DEF NoText, Text
<1>2. m' \in 1..(Len(answer'.markers) + 1)
  BY <1>1 DEF Forget
<1>3. Typed'
  BY <1>1, <1>2 DEF Forget, Typed, TypeOK, Unstarted
<1>4. CitedIsSeen' /\ NamedIsSeen' /\ NamedBefore' /\ AllMarkers'
  BY <1>1 DEF Forget, CitedIsSeen, NamedIsSeen, NamedBefore, InOrder, AllMarkers
<1> QED
  BY <1>3, <1>4 DEF QuestionInv, ExtractInv, BlankText, Signals, Forget, NoText

LEMMA NextQuestion == QuestionInv /\ Next => QuestionInv'
<1> SUFFICES ASSUME QuestionInv, Next PROVE QuestionInv'
  OBVIOUS
<1>1. Typed' /\ ExtractInv'
  BY NextTypes, NextExtract DEF QuestionInv
<1>2. BlankText'
  BY DEF Next, Search, Generate, Drop, Repeat, Cite, Signal, Writable, BlankText, QuestionInv
<1>3. Signals'
  BY DEF Next, Search, Generate, Drop, Repeat, Cite, Signal, Extracting, Signals, QuestionInv
<1> QED
  BY <1>1, <1>2, <1>3 DEF QuestionInv

(* Whatever happens to the corpus meanwhile, and when a question is asked. *)
LEMMA MeanwhileQuestion ==
  ASSUME QuestionInv, corpus' \in SUBSET Chunk,
         UNCHANGED <<retrieved, answer, m, citations, seen, abstained, citations_missing>>,
         pc' = pc \/ (pc = "idle" /\ pc' = "search")
  PROVE  QuestionInv'
<1>1. Typed'
  BY DEF QuestionInv, Typed, TypeOK, Unstarted, signals
<1>2. CitedIsSeen' /\ NamedIsSeen' /\ AllMarkers'
  BY DEF QuestionInv, ExtractInv, CitedIsSeen, NamedIsSeen, AllMarkers, Matches, Key
<1>3. NamedBefore'
  BY DEF QuestionInv, ExtractInv, NamedBefore
<1> QED
  BY <1>1, <1>2, <1>3 DEF QuestionInv, ExtractInv, BlankText, Signals, signals

-----------------------------------------------------------------------------
(* The documents and the chunks.                                           *)
StoreTyped ==
  /\ chunkedWith \in [Docs -> Settings \cup {NotStored}]
  /\ corpus = ChunksOf(chunkedWith)
  /\ used \in SUBSET Settings
  /\ \A k \in 1..Len(retrieved) : chunkedWith[retrieved[k].doc] # NotStored

(* The run, and the report of it.                                          *)
RunTyped ==
  /\ runs \in 0..MaxRuns
  /\ setting \in Settings
  /\ stage \in {"off", "ingest", "ask"}
  /\ results \in Seq(RowResult)
  /\ Len(results) <= Len(Dataset)
  /\ pc # "idle" => Asking
  /\ report # NoReport => stage = "off" /\ report = Report /\ Len(results) = Len(Dataset)

(* Each result is one of its row, and scored like this.                    *)
Scored(r) ==
  /\ r.grounded => r.hit
  /\ r.category = "unanswerable" /\ ~r.abstention => r.cited \/ r.blank
  /\ r.blank => ~r.correct /\ ~r.grounded

RowsScored ==
  \A k \in 1..Len(results) : Scored(results[k]) /\ results[k].category = Dataset[k].category

EvalInv == QuestionInv /\ StoreTyped /\ RunTyped /\ RowsScored

LEMMA InitEval == EvalInit => EvalInv
<1> SUFFICES ASSUME EvalInit PROVE EvalInv
  OBVIOUS
<1>1. corpus \in SUBSET Chunk
  BY DEF EvalInit, ChunksOf
<1>2. QuestionInv
  BY <1>1, FreshQuestion DEF EvalInit
<1>3. StoreTyped
  BY DEF EvalInit, StoreTyped, Fresh
<1>4. /\ results \in Seq(RowResult) /\ Len(results) = 0
      /\ Len(Dataset) \in Nat
  BY EvaluationAssumption, EmptySeq DEF EvalInit
<1> QED
  BY <1>2, <1>3, <1>4, EvaluationAssumption DEF EvalInit, EvalInv, RunTyped, RowsScored

(* An ingestion, whoever runs it, only adds documents.                     *)
LEMMA IngestedKeeps ==
  ASSUME QuestionInv, StoreTyped, UNCHANGED used,
         NEW dir \in SUBSET Docs, NEW s \in Settings, Ingested(dir, s)
  PROVE  QuestionInv' /\ StoreTyped'
<1>1. chunkedWith' \in [Docs -> Settings \cup {NotStored}]
  BY DEF Ingested, StoreTyped
<1>2. \A d \in Docs : chunkedWith[d] # NotStored => chunkedWith'[d] # NotStored
  BY DEF Ingested, StoreTyped
<1>3. \A k \in 1..Len(retrieved) : retrieved[k].doc \in Docs
  <2>1. \A k \in 1..Len(retrieved) : retrieved[k] \in RetrievedChunk
    BY DEF QuestionInv, Typed, TypeOK
  <2> QED
    BY <2>1 DEF RetrievedChunk
<1>4. corpus' = ChunksOf(chunkedWith') /\ corpus' \in SUBSET Chunk
  BY DEF Ingested, ChunksOf
<1>5. QuestionInv'
  <2>1. UNCHANGED <<retrieved, answer, m, citations, seen, abstained, citations_missing>>
        /\ pc' = pc
    BY DEF Ingested, signals
  <2> QED
    BY <1>4, <2>1, MeanwhileQuestion
<1>6. \A k \in 1..Len(retrieved') : chunkedWith'[retrieved'[k].doc] # NotStored
  BY <1>2, <1>3 DEF Ingested, StoreTyped
<1> QED
  BY <1>1, <1>4, <1>5, <1>6 DEF StoreTyped

(* A step of Answer only retrieves chunks that are stored.                 *)
LEMMA AnswerStepKeeps ==
  ASSUME QuestionInv, StoreTyped, AnswerStep
  PROVE  QuestionInv' /\ StoreTyped'
<1>1. QuestionInv'
  BY NextQuestion DEF AnswerStep
<1>2. \A k \in 1..Len(retrieved') : retrieved'[k].doc \in Docs
  <2>1. \A k \in 1..Len(retrieved') : retrieved'[k] \in RetrievedChunk
    BY <1>1 DEF QuestionInv, Typed, TypeOK
  <2> QED
    BY <2>1 DEF RetrievedChunk
<1>3. \A k \in 1..Len(retrieved') : chunkedWith[retrieved'[k].doc] # NotStored
  <2>1. CASE Search
    <3>1. retrieved' \in Seq(Candidates)
      BY <2>1, AnswerAssumption, SeqUpToIsSeq DEF Search
    <3>2. \A k \in 1..Len(retrieved') : retrieved'[k] \in Candidates
      BY <3>1
    <3>3. \A c \in Candidates : chunkedWith[c.doc] # NotStored
      BY DEF Candidates, StoreTyped, ChunksOf
    <3> QED
      BY <3>2, <3>3
  <2>2. CASE ~Search
    BY <2>2 DEF AnswerStep, Next, Generate, Drop, Repeat, Cite, Signal, StoreTyped
  <2> QED
    BY <2>1, <2>2
<1>4. used' \in SUBSET Settings
  BY <1>2, <1>3 DEF AnswerStep, StoreTyped
<1>5. UNCHANGED <<chunkedWith, corpus>>
  BY DEF AnswerStep, Next, Search, Generate, Drop, Repeat, Cite, Signal
<1> QED
  BY <1>1, <1>3, <1>4, <1>5 DEF StoreTyped

(* Score: the row's result is right, and it is the result of that row.     *)
LEMMA ScoreKeeps ==
  ASSUME EvalInv, Score
  PROVE  RunTyped' /\ RowsScored'
<1> DEFINE n == Len(results)
           r == results'[n + 1]
<1>1. Asking /\ stage = "ask" /\ n \in Nat /\ n < Len(Dataset) /\ Len(Dataset) \in Nat
  BY EvaluationAssumption DEF EvalInv, RunTyped, Score, Asking
<1>2. row = Dataset[n + 1] /\ row.category \in STRING /\ row.expected \in SUBSET Words
  <2>1. Dataset[n + 1] \in [category: STRING, sources: SUBSET Names, expected: SUBSET Words]
    <3>1. n + 1 \in 1..Len(Dataset)
      BY <1>1
    <3> QED
      BY <3>1, ElementOfSeq, EvaluationAssumption
  <2> QED
    BY <2>1 DEF row
<1>3. PICK said \in Sayable :
        LET answerable == row.category = "answerable"
        IN  results' = Append(results,
              [category   |-> row.category,
               correct    |-> answerable /\ AnswerCorrectness(said, row.expected),
               hit        |-> answerable /\ RetrievalHit(row.sources),
               grounded   |-> answerable /\ Groundedness(row.sources),
               abstention |-> ~answerable /\ AbstentionCorrect,
               cited      |-> citations # <<>>,
               blank      |-> answer.blank])
  BY DEF Score
<1> DEFINE new == [category   |-> row.category,
                   correct    |-> row.category = "answerable"
                                    /\ AnswerCorrectness(said, row.expected),
                   hit        |-> row.category = "answerable" /\ RetrievalHit(row.sources),
                   grounded   |-> row.category = "answerable" /\ Groundedness(row.sources),
                   abstention |-> ~(row.category = "answerable") /\ AbstentionCorrect,
                   cited      |-> citations # <<>>,
                   blank      |-> answer.blank]
<1>4. results' = Append(results, new)
  BY <1>3
<1>5. answer.blank \in BOOLEAN /\ answer.phrase \in BOOLEAN
  BY DEF EvalInv, QuestionInv, Typed, TypeOK, Text
<1>6. new \in RowResult
  BY <1>2, <1>5 DEF RowResult
<1>7. /\ results' \in Seq(RowResult) /\ Len(results') = n + 1
      /\ \A k \in 1..n : results'[k] = results[k]
      /\ results'[n + 1] = new
  BY <1>4, <1>6, AppendProperties DEF EvalInv, RunTyped
<1>8. /\ abstained = answer.phrase
      /\ citations_missing = (~answer.blank /\ citations = <<>> /\ ~answer.phrase)
      /\ answer.blank => answer.markers = <<>> /\ ~answer.phrase
  BY DEF EvalInv, QuestionInv, Signals, BlankText, Score
<1>9. Groundedness(row.sources) => RetrievalHit(row.sources)
  BY DEF EvalInv, QuestionInv, ExtractInv, CitedIsSeen, Groundedness, RetrievalHit
<1>10. answer.blank => citations = <<>>
  <2>1. SUFFICES ASSUME answer.blank, citations # <<>> PROVE FALSE
    OBVIOUS
  <2>2. 1 \in 1..Len(citations)
    BY <2>1, LenProperties, EmptySeq DEF EvalInv, QuestionInv, Typed, TypeOK
  <2>3. 1..(m - 1) # {}
    BY <2>2 DEF EvalInv, QuestionInv, ExtractInv, CitedIsSeen, NamedIsSeen
  <2>4. Len(answer.markers) = 0 /\ m \in 1..1
    BY <1>8, <2>1, EmptySeq DEF EvalInv, QuestionInv, Typed, TypeOK
  <2> QED
    BY <2>3, <2>4
<1>11. answer.blank => ~Groundedness(row.sources)
  <2>1. ASSUME citations = <<>> PROVE ~Groundedness(row.sources)
    <3>1. Len(citations) = 0
      BY <2>1, EmptySeq
    <3> QED
      BY <3>1 DEF Groundedness
  <2> QED
    BY <1>10, <2>1
<1>12. answer.blank => ~AnswerCorrectness(said, row.expected)
  <2>1. CASE row.expected = {}
    BY <2>1 DEF AnswerCorrectness
  <2>2. CASE row.expected # {} /\ answer.blank
    <3>1. said = {} /\ row.expected \cap said = {}
      BY <2>2 DEF Sayable
    <3>2. IsFiniteSet(row.expected) /\ Cardinality(row.expected) \in Nat
          /\ Cardinality(row.expected) # 0 /\ Cardinality({}) = 0
      BY <1>2, <2>2, EvaluationAssumption, FS_Subset, FS_CardinalityType, FS_EmptySet
    <3> QED
      BY <2>2, <3>1, <3>2 DEF AnswerCorrectness
  <2> QED
    BY <2>1, <2>2
<1>13. Scored(new)
  BY <1>5, <1>8, <1>9, <1>11, <1>12 DEF Scored, AbstentionCorrect
<1>14. RunTyped'
  BY <1>1, <1>7 DEF Score, EvalInv, RunTyped
<1>15. RowsScored'
  BY <1>2, <1>7, <1>13 DEF EvalInv, RowsScored
<1> QED
  BY <1>14, <1>15

LEMMA SameReport == UNCHANGED <<results, setting>> => Report' = Report
  BY DEF Report, Rows, AbstentionHits

LEMMA NextEval == EvalInv /\ [EvalNext]_allVars => EvalInv'
<1> SUFFICES ASSUME EvalInv, [EvalNext]_allVars PROVE EvalInv'
  OBVIOUS
<1>1. CASE StartRun
  <2>1. QuestionInv' /\ StoreTyped'
    <3>1. UNCHANGED <<corpus, pc, retrieved, answer, m, citations, seen, abstained,
                      citations_missing, chunkedWith>>
      BY <1>1 DEF StartRun, vars, signals
    <3>2. QuestionInv'
      BY <3>1, MeanwhileQuestion DEF EvalInv, QuestionInv, Typed, TypeOK
    <3>3. ChunksOf(chunkedWith') = ChunksOf(chunkedWith)
      BY <3>1
    <3> QED
      BY <1>1, <3>1, <3>2, <3>3 DEF StartRun, EvalInv, StoreTyped
  <2>2. pc = "idle" /\ UNCHANGED pc
    BY <1>1 DEF StartRun, EvalInv, RunTyped, Asking, vars
  <2>3. results' \in Seq(RowResult) /\ Len(results') = 0 /\ Len(Dataset) \in Nat
    BY <1>1, EmptySeq, EvaluationAssumption DEF StartRun
  <2>4. RunTyped' /\ RowsScored'
    BY <1>1, <2>2, <2>3, EvaluationAssumption DEF StartRun, EvalInv, RunTyped, RowsScored
  <2> QED
    BY <2>1, <2>4 DEF EvalInv
<1>2. CASE IngestSeedDocs
  <2>1. QuestionInv' /\ StoreTyped'
    BY <1>2, IngestedKeeps DEF IngestSeedDocs, EvalInv, RunTyped
  <2>2. pc = "idle" /\ UNCHANGED pc
    BY <1>2 DEF IngestSeedDocs, Ingested, EvalInv, RunTyped, Asking
  <2>3. RunTyped' /\ RowsScored'
    BY <1>2, <2>2 DEF IngestSeedDocs, EvalInv, RunTyped, RowsScored
  <2> QED
    BY <2>1, <2>3 DEF EvalInv
<1>3. CASE OtherIngests
  <2>1. QuestionInv' /\ StoreTyped'
    BY <1>3, IngestedKeeps, EvaluationAssumption DEF OtherIngests, EvalInv
  <2>2. RunTyped' /\ RowsScored'
    BY <1>3, SameReport DEF OtherIngests, Ingested, EvalInv, RunTyped, RowsScored, Asking
  <2> QED
    BY <2>1, <2>2 DEF EvalInv
<1>4. CASE Ask
  <2>1. UNCHANGED <<corpus, retrieved, answer, m, citations, seen, abstained,
                    citations_missing, chunkedWith, used, results, setting, stage, runs, report>>
        /\ pc = "idle" /\ pc' = "search" /\ Asking
    BY <1>4 DEF Ask, signals, evalVars
  <2>2. QuestionInv'
    BY <2>1, MeanwhileQuestion DEF EvalInv, QuestionInv, Typed, TypeOK
  <2>3. StoreTyped'
    BY <2>1 DEF EvalInv, StoreTyped, ChunksOf
  <2>4. RunTyped' /\ RowsScored'
    BY <2>1, SameReport DEF EvalInv, RunTyped, RowsScored, Asking
  <2> QED
    BY <2>2, <2>3, <2>4 DEF EvalInv
<1>5. CASE AnswerStep
  <2>1. QuestionInv' /\ StoreTyped'
    BY <1>5, AnswerStepKeeps DEF EvalInv
  <2>2. pc # "idle"
    BY <1>5 DEF AnswerStep, Next, Search, Generate, Drop, Repeat, Cite, Signal, Extracting
  <2>3. RunTyped' /\ RowsScored'
    BY <1>5, <2>2, SameReport DEF AnswerStep, EvalInv, RunTyped, RowsScored, Asking
  <2> QED
    BY <2>1, <2>3 DEF EvalInv
<1>6. CASE Score
  <2>1. QuestionInv'
    BY <1>6, ForgetQuestion DEF Score, EvalInv, QuestionInv
  <2>2. StoreTyped'
    <3>1. UNCHANGED <<corpus, chunkedWith, used>> /\ retrieved' = <<>>
      BY <1>6 DEF Score, Forget
    <3> QED
      BY <3>1, EmptySeq DEF EvalInv, StoreTyped, ChunksOf
  <2> QED
    BY <1>6, <2>1, <2>2, ScoreKeeps DEF EvalInv
<1>7. CASE BuildReport
  <2>1. UNCHANGED <<corpus, pc, retrieved, answer, m, citations, seen, abstained,
                    citations_missing, chunkedWith, used, results, setting, runs>>
        /\ report' = Report /\ stage' = "off" /\ Len(results) = Len(Dataset)
    BY <1>7 DEF BuildReport, vars, signals
  <2>2. QuestionInv'
    BY <2>1, MeanwhileQuestion DEF EvalInv, QuestionInv, Typed, TypeOK
  <2>3. StoreTyped'
    BY <2>1 DEF EvalInv, StoreTyped, ChunksOf
  <2>4. pc = "idle"
    BY <2>1, EvaluationAssumption DEF EvalInv, RunTyped, Asking
  <2>5. RunTyped' /\ RowsScored'
    BY <2>1, <2>4, SameReport DEF EvalInv, RunTyped, RowsScored
  <2> QED
    BY <2>2, <2>3, <2>5 DEF EvalInv
<1>8. CASE RunFails
  <2>1. QuestionInv'
    BY <1>8, ForgetQuestion DEF RunFails, EvalInv, QuestionInv
  <2>2. StoreTyped'
    <3>1. UNCHANGED <<corpus, chunkedWith, used>> /\ retrieved' = <<>>
      BY <1>8 DEF RunFails, Forget
    <3> QED
      BY <3>1, EmptySeq DEF EvalInv, StoreTyped, ChunksOf
  <2>3. RunTyped' /\ RowsScored'
    BY <1>8 DEF RunFails, EvalInv, RunTyped, RowsScored
  <2> QED
    BY <2>1, <2>2, <2>3 DEF EvalInv
<1>9. CASE UNCHANGED allVars
  <2>1. UNCHANGED <<corpus, pc, retrieved, answer, m, citations, seen, abstained,
                    citations_missing, chunkedWith, used, results, setting, stage, runs, report>>
    BY <1>9 DEF allVars, vars, evalVars, signals
  <2>2. QuestionInv'
    BY <2>1, MeanwhileQuestion DEF EvalInv, QuestionInv, Typed, TypeOK
  <2>3. StoreTyped'
    BY <2>1 DEF EvalInv, StoreTyped, ChunksOf
  <2>4. RunTyped' /\ RowsScored'
    BY <2>1, SameReport DEF EvalInv, RunTyped, RowsScored, Asking
  <2> QED
    BY <2>2, <2>3, <2>4 DEF EvalInv
<1> QED
  BY <1>1, <1>2, <1>3, <1>4, <1>5, <1>6, <1>7, <1>8, <1>9 DEF EvalNext

LEMMA EvalHolds == EvalSpec => []EvalInv
  BY InitEval, NextEval, PTL DEF EvalSpec

-----------------------------------------------------------------------------
LEMMA InvImpliesTypes == EvalInv => EvalTypeOK
  BY DEF EvalInv, QuestionInv, Typed, StoreTyped, RunTyped, EvalTypeOK, Report

(* The evaluation's variables keep their types, for any dataset.           *)
THEOREM EvaluationTyped == EvalSpec => []EvalTypeOK
  BY EvalHolds, InvImpliesTypes, PTL

(* Each question of an evaluation: a chunk the text names as it was shown  *)
(* is cited, whatever was asked before (citations/text_extractor.py).      *)
THEOREM AskedShownIsCited == EvalSpec => []ShownIsCited
<1>1. EvalInv => ShownIsCited
  BY ExtractImpliesShown DEF EvalInv, QuestionInv
<1> QED
  BY <1>1, EvalHolds, PTL

(* Each question of an evaluation: no retrieved source that the text names *)
(* goes without a citation because an earlier answer named it.             *)
THEOREM AskedNamedIsCited == EvalSpec => []NamedIsCited
<1>1. EvalInv => NamedIsCited
  BY ExtractImpliesNamed DEF EvalInv, QuestionInv
<1> QED
  BY <1>1, EvalHolds, PTL

(* An unanswerable question only fails if the answer cites or is blank.    *)
THEOREM WrongIsCitedOrBlank == EvalSpec => []WrongOnlyIfCitedOrBlank
<1>1. EvalInv => WrongOnlyIfCitedOrBlank
  BY DEF EvalInv, RowsScored, Scored, WrongOnlyIfCitedOrBlank
<1> QED
  BY <1>1, EvalHolds, PTL

(* A blank answer is never right, whatever the row expects.                *)
THEOREM BlankNeverRight == EvalSpec => []BlankIsNeverRight
<1>1. EvalInv => BlankIsNeverRight
  BY DEF EvalInv, RowsScored, Scored, BlankIsNeverRight
<1> QED
  BY <1>1, EvalHolds, PTL

(* A report's numbers: each counts a subset of the rows.                   *)
LEMMA RowsAreFinite ==
  ASSUME EvalInv, NEW S \in SUBSET (1..Len(results)), NEW T \in SUBSET S
  PROVE  IsFiniteSet(S) /\ Cardinality(T) <= Cardinality(S)
<1>1. Len(results) \in Int
  BY DEF EvalInv, RunTyped
<1>2. IsFiniteSet(1..Len(results))
  BY <1>1, FS_Interval
<1> QED
  BY <1>2, FS_Subset

(* The groundedness of a report is never above its Recall@K.               *)
THEOREM GroundedImpliesHit == EvalSpec => []GroundedNeedsHit
<1>1. EvalInv => GroundedNeedsHit
  <2> SUFFICES ASSUME EvalInv PROVE GroundedNeedsHit
    OBVIOUS
  <2>1. \A k \in 1..Len(results) : results[k].grounded => results[k].hit
    BY DEF EvalInv, RowsScored, Scored
  <2> DEFINE H == {k \in Rows("answerable") : results[k].hit}
             G == {k \in Rows("answerable") : results[k].grounded}
  <2>2. H \in SUBSET (1..Len(results)) /\ G \in SUBSET H
    BY <2>1 DEF Rows
  <2>3. Cardinality(G) <= Cardinality(H)
    BY <2>2, RowsAreFinite
  <2>4. report # NoReport => report.grounded = Cardinality(G) /\ report.hits = Cardinality(H)
    BY DEF EvalInv, RunTyped, Report
  <2> QED
    BY <2>1, <2>3, <2>4 DEF GroundedNeedsHit
<1> QED
  BY <1>1, EvalHolds, PTL

(* The numbers of a report add up, for any dataset and its categories.     *)
THEOREM ReportsAdd == EvalSpec => []ReportAdds
<1>1. EvalInv => ReportAdds
  <2> SUFFICES ASSUME EvalInv, report # NoReport PROVE ReportAdds
    BY DEF ReportAdds
  <2> DEFINE A == Rows("answerable")
             U == Rows("unanswerable")
             D == {k \in 1..Len(Dataset) :
                     Dataset[k].category \in {"answerable", "unanswerable"}}
  <2>1. report = Report /\ Len(results) = Len(Dataset)
    BY DEF EvalInv, RunTyped
  <2>2. /\ A \in SUBSET (1..Len(results)) /\ U \in SUBSET (1..Len(results))
        /\ A \cup U = D /\ A \cap U = {}
    BY <2>1 DEF Rows, EvalInv, RowsScored
  <2>3. IsFiniteSet(A) /\ IsFiniteSet(U)
    BY <2>2, RowsAreFinite
  <2>4. Cardinality(D) = Cardinality(A) + Cardinality(U)
    <3>1. Cardinality(A \cup U) = Cardinality(A) + Cardinality(U) - Cardinality(A \cap U)
      BY <2>3, FS_Union
    <3>2. Cardinality(A \cap U) = 0 /\ Cardinality(A) \in Nat /\ Cardinality(U) \in Nat
      BY <2>2, <2>3, FS_EmptySet, FS_CardinalityType
    <3>3. Cardinality(D) = Cardinality(A \cup U)
      BY <2>2
    <3> HIDE DEF A, U, D
    <3> QED
      BY <3>1, <3>2, <3>3
  <2>5. /\ Cardinality({k \in A : results[k].correct}) <= Cardinality(A)
        /\ Cardinality({k \in A : results[k].hit}) <= Cardinality(A)
        /\ Cardinality({k \in U : results[k].abstention}) <= Cardinality(U)
    BY <2>2, RowsAreFinite
  <2> QED
    BY <2>1, <2>4, <2>5 DEF ReportAdds, Report, AbstentionHits
<1> QED
  BY <1>1, EvalHolds, PTL

=============================================================================
