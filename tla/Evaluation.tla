----------------------------- MODULE Evaluation -----------------------------
(***************************************************************************)
(* The evaluation runner.  A run reads its settings, ingests the seed      *)
(* documents (those already stored are skipped), asks the questions of the *)
(* dataset one after the other, each as module Answer says, scores each    *)
(* answer, and builds a report that records the run's settings.  The       *)
(* database stays from run to run, and other processes may ingest into it. *)
(*                                                                         *)
(* Percentages are kept as their numerators and denominators.              *)
(***************************************************************************)
EXTENDS Answer, FiniteSets

CONSTANTS
  Settings,       \* the chunk_size and chunk_overlap pairs
  OtherSettings,  \* those that other ingesting processes run with
  Pieces,         \* Pieces[s]: how many chunks s makes of a document
  Words,          \* the significant words: lower case, no stopwords
  Dataset,        \* the rows, in file order: records [category, sources, expected]
  NotStored,      \* the "setting" of a document that is not in the database
  NoReport,       \* no report has been built
  MaxRuns         \* bound: evaluation runs

ASSUME EvaluationAssumption ==
  /\ OtherSettings \subseteq Settings
  /\ NotStored \notin Settings
  /\ Pieces \in [Settings -> Nat]
  /\ IsFiniteSet(Words)
  /\ Dataset \in Seq([category: STRING, sources: SUBSET Names, expected: SUBSET Words])
  /\ MaxRuns \in Nat

VARIABLES
  chunkedWith,  \* the settings each stored document was chunked with
  runs,         \* number of runs started, for the bound
  setting,      \* the run's settings
  stage,        \* "off", "ingest" or "ask"
  results,      \* the RowResults so far
  used,         \* history: settings of the chunks retrieved in this run
  report        \* the run's report

evalVars == <<chunkedWith, runs, setting, stage, results, used, report>>
allVars == <<vars, evalVars>>

(* A RowResult.  The scores a category does not have, None in the code,    *)
(* are FALSE; cited and blank are what the kept trace tells.               *)
RowResult ==
  [category: STRING, correct: BOOLEAN, hit: BOOLEAN, grounded: BOOLEAN,
   abstention: BOOLEAN, cited: BOOLEAN, blank: BOOLEAN]

ChunksOf(with) ==
  {c \in Chunk : with[c.doc] # NotStored /\ c.index < Pieces[with[c.doc]]}

EvalInit ==
  /\ chunkedWith = [d \in Docs |-> NotStored]
  /\ corpus = ChunksOf(chunkedWith)
  /\ pc = "idle"
  /\ Fresh
  /\ runs = 0
  /\ setting \in Settings
  /\ stage = "off"
  /\ results = <<>>
  /\ used = {}
  /\ report = NoReport

-----------------------------------------------------------------------------
(* The process starts with the settings of its environment.                *)
StartRun ==
  /\ stage = "off"
  /\ runs < MaxRuns
  /\ runs' = runs + 1
  /\ setting' \in Settings
  /\ stage' = "ingest"
  /\ results' = <<>>
  /\ used' = {}
  /\ report' = NoReport
  /\ UNCHANGED <<vars, chunkedWith>>

(* What an ingestion with settings s adds: the documents of the directory  *)
(* that are not stored yet.                                                *)
Ingested(dir, s) ==
  /\ chunkedWith' = [d \in Docs |->
       IF d \in dir /\ chunkedWith[d] = NotStored THEN s ELSE chunkedWith[d]]
  /\ corpus' = ChunksOf(chunkedWith')
  /\ UNCHANGED <<pc, retrieved, answer, m, citations, seen, signals>>

IngestSeedDocs ==
  /\ stage = "ingest"
  /\ \E dir \in SUBSET Docs : Ingested(dir, setting)
  /\ stage' = "ask"
  /\ UNCHANGED <<runs, setting, results, used, report>>

(* The seed CLI, or another evaluation, ingests at any time.               *)
OtherIngests ==
  /\ \E dir \in SUBSET Docs : \E s \in OtherSettings : Ingested(dir, s)
  /\ UNCHANGED <<runs, setting, stage, results, used, report>>

row == Dataset[Len(results) + 1]
Asking == stage = "ask" /\ Len(results) < Len(Dataset)

(* Mutant of Ask: the dataset's rows are not counted.                      *)
AskAnytime ==
  /\ pc = "idle"
  /\ pc' = "search"
  /\ UNCHANGED <<corpus, retrieved, answer, m, citations, seen, signals, evalVars>>

(* run_evaluation's loop.                                                  *)
Ask ==
  /\ Asking
  /\ pc = "idle"
  /\ pc' = "search"
  /\ UNCHANGED <<corpus, retrieved, answer, m, citations, seen, signals, evalVars>>

(* answer_question_with_trace goes on.                                     *)
AnswerStep ==
  /\ Next
  /\ used' = used \cup {chunkedWith[retrieved'[k].doc] : k \in 1..Len(retrieved')}
  /\ UNCHANGED <<chunkedWith, runs, setting, stage, results, report>>

-----------------------------------------------------------------------------
(***************************************************************************)
(* evaluation/metrics.py                                                   *)
(***************************************************************************)
(* Mutant of RetrievalHit: only the nearest chunk counts.                  *)
RetrievalHitFirst(sources) ==
  sources = {} \/ \E k \in 1..Len(retrieved) : k = 1 /\ NameOf[retrieved[k].doc] \in sources

RetrievalHit(sources) ==
  sources = {} \/ \E k \in 1..Len(retrieved) : NameOf[retrieved[k].doc] \in sources

Groundedness(sources) ==
  \E k \in 1..Len(citations) : NameOf[citations[k].doc] \in sources

AbstentionCorrect == abstained \/ citations_missing

(* Mutant of AnswerCorrectness: nothing expected, nothing to get wrong.    *)
AnswerCorrectnessVacuous(said, expected) ==
  2 * Cardinality(expected \cap said) >= Cardinality(expected)

(* At least half of the expected words, if there are any, are said.        *)
AnswerCorrectness(said, expected) ==
  IF expected = {} THEN ~answer.blank
  ELSE 2 * Cardinality(expected \cap said) >= Cardinality(expected)

(* What words the text has: any, but none if it is blank.                  *)
Sayable == IF answer.blank THEN {{}} ELSE SUBSET Words

(* Mutant of Forget: the keys seen are kept for the next question.         *)
ForgetNotSeen ==
  /\ retrieved' = <<>>
  /\ answer' = NoText
  /\ m' = 1
  /\ citations' = <<>>
  /\ abstained' = FALSE
  /\ citations_missing' = FALSE
  /\ UNCHANGED seen

(* The next question starts afresh.                                        *)
Forget ==
  /\ retrieved' = <<>>
  /\ answer' = NoText
  /\ m' = 1
  /\ citations' = <<>>
  /\ seen' = {}
  /\ abstained' = FALSE
  /\ citations_missing' = FALSE

(* _score_row: whatever is not answerable is scored as unanswerable.       *)
Score ==
  /\ pc = "done"
  /\ \E said \in Sayable :
       LET answerable == row.category = "answerable"
       IN  results' = Append(results,
             [category   |-> row.category,
              correct    |-> answerable /\ AnswerCorrectness(said, row.expected),
              hit        |-> answerable /\ RetrievalHit(row.sources),
              grounded   |-> answerable /\ Groundedness(row.sources),
              abstention |-> ~answerable /\ AbstentionCorrect,
              cited      |-> citations # <<>>,
              blank      |-> answer.blank])
  /\ pc' = "idle"
  /\ Forget
  /\ UNCHANGED <<corpus, chunkedWith, runs, setting, stage, used, report>>

-----------------------------------------------------------------------------
Rows(category) == {k \in 1..Len(results) : results[k].category = category}

(* Mutant of AbstentionHits: every row that was scored for it counts.      *)
AbstentionHitsAll == Cardinality({k \in 1..Len(results) : results[k].abstention})

AbstentionHits == Cardinality({k \in Rows("unanswerable") : results[k].abstention})

(* build_report: only the two documented categories are counted.           *)
Report ==
  [setting      |-> setting,
   questions    |-> Len(results),
   answerable   |-> Cardinality(Rows("answerable")),
   unanswerable |-> Cardinality(Rows("unanswerable")),
   correct      |-> Cardinality({k \in Rows("answerable") : results[k].correct}),
   hits         |-> Cardinality({k \in Rows("answerable") : results[k].hit}),
   grounded     |-> Cardinality({k \in Rows("answerable") : results[k].grounded}),
   abstention   |-> AbstentionHits]

BuildReport ==
  /\ stage = "ask"
  /\ Len(results) = Len(Dataset)
  /\ report' = Report
  /\ stage' = "off"
  /\ UNCHANGED <<vars, chunkedWith, runs, setting, results, used>>

(* An exception ends the process, or it is killed: there is no report.     *)
RunFails ==
  /\ stage # "off"
  /\ stage' = "off"
  /\ pc' = "idle"
  /\ Forget
  /\ UNCHANGED <<corpus, chunkedWith, runs, setting, results, used, report>>

EvalNext ==
  \/ StartRun \/ IngestSeedDocs \/ OtherIngests
  \/ Ask \/ AnswerStep \/ Score
  \/ BuildReport \/ RunFails

EvalSpec == EvalInit /\ [][EvalNext]_allVars

-----------------------------------------------------------------------------
(***************************************************************************)
(* Properties.                                                             *)
(***************************************************************************)
(* The variables have their types, and a question is only in progress in a *)
(* run that has ingested and has a row left.                               *)
EvalTypeOK ==
  /\ TypeOK
  /\ chunkedWith \in [Docs -> Settings \cup {NotStored}]
  /\ runs \in 0..MaxRuns
  /\ setting \in Settings
  /\ stage \in {"off", "ingest", "ask"}
  /\ results \in Seq(RowResult)
  /\ used \in SUBSET Settings
  /\ report = NoReport \/ report.setting = setting
  /\ pc # "idle" => Asking

(* Two metrics of two modules that must agree: an answer is only grounded  *)
(* if the retrieval hit an expected source, so that the groundedness of a  *)
(* report is never above its Recall@K.                                     *)
GroundedNeedsHit ==
  /\ \A k \in 1..Len(results) : results[k].grounded => results[k].hit
  /\ report # NoReport => report.grounded <= report.hits

(* A report counts each question once, and no score exceeds the number of  *)
(* questions it is a percentage of, also when a row of the dataset has a   *)
(* category that is neither of the two: such a row is in no percentage.    *)
ReportAdds ==
  report # NoReport =>
    /\ report.questions = Len(Dataset)
    /\ report.answerable + report.unanswerable
         = Cardinality({k \in 1..Len(Dataset) :
                          Dataset[k].category \in {"answerable", "unanswerable"}})
    /\ report.correct <= report.answerable
    /\ report.hits <= report.answerable
    /\ report.abstention <= report.unanswerable

(* An unanswerable question is only scored as wrong if the answer cites a  *)
(* retrieved chunk or is blank: markers the model made up do not count.    *)
WrongOnlyIfCitedOrBlank ==
  \A k \in 1..Len(results) :
    results[k].category = "unanswerable" /\ ~results[k].abstention
      => results[k].cited \/ results[k].blank

(* A blank answer is neither correct (also when the expected answer has no *)
(* significant word, and there is no fraction to take) nor grounded, even  *)
(* if an earlier answer of the run was.                                    *)
BlankIsNeverRight ==
  \A k \in 1..Len(results) :
    results[k].blank => ~results[k].correct /\ ~results[k].grounded

-----------------------------------------------------------------------------
(***************************************************************************)
(* What the documentation says and the code does not do.                   *)
(***************************************************************************)
(* abstention_correct's docstring: "Only case that would fail this check:  *)
(* the model produced a citation to a real seed-doc chunk".                *)
AbstentionOnlyFailsOnCitation ==
  \A k \in 1..Len(results) :
    results[k].category = "unanswerable" /\ ~results[k].abstention
      => results[k].cited

(* report.py's docstring: a report has "the exact config values used to    *)
(* produce" its scores (chunk size among them).                            *)
ReportRecordsItsChunking == report # NoReport => used \subseteq {report.setting}

=============================================================================
