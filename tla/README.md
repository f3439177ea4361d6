# Verification of the internal knowledge assistant

TLA+ models of the ingestion pipeline, the chunker, the query service with its
lazy singletons, citation extraction and the evaluation runner, with TLC runs
that check them on small instances and TLAPS proofs of every safety property and
of all three refinements for every instance. Source paths
below are relative to `src/src/knowledge_assistant/` unless they start with
`seed/` or `migrations/`.

## 1. The system

| Component | State | Operations | Talks to |
|---|---|---|---|
| Ingestion (`ingestion/service.py`) | the session's transaction; the listing being walked | `ingest_document`, `ingest_directory` | parsers, chunker, embedding model, database |
| Parsers (`ingestion/parser.py`) | none | `parse` of markdown, text, PDF | the file system |
| Chunker (`ingestion/chunker.py`) | loop state of one call | constructor, `_explode`, `_pack`, `_seed_overlap` | nobody |
| Tables (`storage/models.py`, `migrations/`) | `documents` (unique `content_hash`), `document_chunks` | SELECT, INSERT, commit, rollback | all |
| Seed CLI (`seed/seed.py`) | its listing, the new documents | one ingestion and a summary | ingestion |
| Query service (`rag_service.py`, `api/`, `storage/database.py`) | requests in progress, executor queue, connection pool | `POST /query` | models, retriever, extractor |
| Retriever (`retrieval/pgvector.py`) | its session | `search` | database |
| Prompt (`prompts/`) | none | `build` | nobody |
| Citation extractor (`citations/text_extractor.py`) | none between calls | `extract` | nobody |
| Models (`embeddings/`, `llm/`) | the loaded model | `embed`, `generate` on executor threads | executor |
| Evaluation (`evaluation/`) | settings, results so far | ingest, ask, score, report | all of the above |
| Composition root (`dependencies.py`) | the `lru_cache`d models and helpers | the accessors FastAPI calls for each request | models, query service |
| Settings (`config.py`) | the environment, read once | none | all |

How they interact: the seed CLI and the evaluation runner are processes of their
own that share the database and the file system with each other and with the API
server. Within a process everything runs in one event loop; embeddings and
generations run on the threads of the loop's executor. There are no messages
between processes and no deletes: the only cross-process effects are committed
rows, the waits of INSERTs on uncommitted rows with the same unique key, and
files that change.

What is hard, and the property that answers it:

* the dedupe lookup is stale by the time of the INSERT, and the transaction
  spans a whole directory - unique hashes, no half-visible run, no content lost
  because a run relied on a row that was rolled back, no endless wait;
* a file may change between the listing, the hash, the text and the summary -
  text and hash agree, and so do the summary's two listings;
* text is broken up by three nested loops, each the fallback of the one around
  it - no word lost or repeated, and nothing split that fits;
* the chunk packing loop has a turn that does not advance its index - progress,
  coverage of the text, bounded sizes and bounded repetition;
* requests wait for two bounded resources at once - nothing leaks, no deadlock,
  current reads;
* first requests race for the same lazily built model - what is shared is
  complete and stays;
* citations are free text of a model matched against names that are not unique -
  nothing made up becomes a citation, and what is named as shown is cited;
* metrics, report and database have different ideas of what a row, a blank
  answer or a chunk size is - the report is consistent with its rows.

`PROJECT.json` lists each hazard at its line with the properties that cover it.

## 2. Modules

| Module | Models | Composition |
|---|---|---|
| `DocumentStore` | what a reader of committed rows may rely on: append-only, one batch per ingestion attempt, unique hashes | abstract |
| `Ingestion` | n processes that ingest, the database, the file system | implements `DocumentStore` |
| `IngestionProofs` | theorems about `Ingestion` | extends it |
| `Explode` | the chunker's constructor and `_explode` | - |
| `Chunking` | what `chunk` promises its caller of the words of a text | abstract |
| `Chunker` | `chunk`: `_explode`, then the packing loop | extends `Explode`; its first steps are `Explode`'s; implements `Chunking` |
| `ExplodeProofs`, `ChunkerProofs`, `ChunkingProofs` | lemmas about the units, theorems about `Chunker`, its promise to the caller | each extends the one before |
| `Singletons` | the `lru_cache`d accessors under concurrent first calls | - |
| `QueryService` | what a client of `POST /query` may rely on | abstract; its environment is `DocumentStore!StoreNext` |
| `Query` | concurrent requests, executor, connection pool | extends `Singletons`; its environment is `DocumentStore!Publish`; implements `QueryService` |
| `QueryProofs` | theorems about `Query` | extends it |
| `Answer` | search, prompt labels, marker extraction, signals of one question | - |
| `AnswerProofs` | theorems about `Answer` | extends it |
| `Evaluation` | evaluation runs, metrics, report | extends `Answer`; its steps are `Answer`'s steps |
| `EvaluationProofs` | theorems about `Evaluation` | extends it |
| `NaturalExtremes` | least and greatest elements of sets of naturals | lemmas for the proofs |
| `MC*` | the instances for TLC | extend the above |

### Ingestion

A run is one process executing `ingest_directory` in one transaction: `pc[r]`
says where it is, `todo[r]` is the rest of the listing, `cur[r]` the parsed file,
`pending[r]` its flushed rows, `new[r]` the list that will be returned. `Start` is
the process start with (for the seed CLI) the earlier `considered` listing of
`seed/seed.py:59`. Then one action per atomic step of the code: the listing; the
single read of a markdown or text file (`ParseText`); the two reads of a PDF
(`ReadPdf`, `ParsePdf`); the skip on `ParserError`; a file that has gone or that
pypdf cannot open (`ParseRaises`); the SELECT by hash (`SkipStored`, `NotStored`);
chunker and embedding (`Embed`, `ConfigRefused`); `session.add` and `flush`
(`Insert`, `InsertConflicts`, `DeadlockDetected`); the caller's commit; the seed
CLI's summary query. These are `Step`, what a run does by itself.

`Error` has what may go wrong at any time and never has to: the model cannot be
loaded or the directory not be listed (`StartRaises`), an existing file cannot be
read (`ReadRaises`), the embedding fails (`EmbedRaises`), the database answers the
lookup, the flush or the commit with an error (`DatabaseRaises`) - all of these
roll back - or the count of the summary, after the commit (`SummaryRaises`).
`Crash` is a kill or a lost connection at any point and `EditFile` a change on
disk. A COMMIT that succeeds while its acknowledgement is lost is a `Crash` right
after `Commit`, which only the seed CLI, with its summary to come, can still have.

Contents are model values: the hash of a file *is* its content, so equal
contents have equal hashes and different ones do not. A document keeps both the
content that was hashed and the content the text came from, since the PDF parser
reads them separately: `TextIsOfHash` says that only a PDF that somebody changes
can be stored with text of other bytes than its hash. `NewWereConsidered` relates
the two listings of the seed CLI, whose lengths its summary subtracts. Which
contents a parser rejects (`Rejected`) and which make pypdf raise (`Malformed`)
are parameters.

The database is PostgreSQL at READ COMMITTED, SQLAlchemy's default: a SELECT sees
committed rows and its own; an INSERT of an existing unique key fails if the row
is committed and waits if it is not. A cycle of such waits makes the server abort
any one of its members (`DeadlockDetected`). The waits are external to the
repository, as are crashes and edits; the rest is translated from the source.

### Explode and Chunker

A text is its words: where each begins and ends, and whether the whitespace after
it ends a paragraph (`_PARAGRAPH_RE`), a sentence (`_SENTENCE_RE`) or just the
word. That is all `_explode` looks at: stripping and the empty pieces a split may
return are gone, and the length of a paragraph, sentence or word is a difference
of two positions. `pc` is the loop the code is in ("paragraphs", "sentences",
"words"); `TakeParagraph`, `TakeSentence` and `TakeWord` append a unit,
`SplitParagraph` and `SplitSentence` enter the next loop because a piece is too
long, and `After` says which loop goes on when a unit ends its sentence or
paragraph. `spans` has the words of each unit and `at` the offset of each unit
when all are joined by single spaces, so the length of any range of units is a
difference too (`JoinLen`), with no recursion over the text.

`Chunker` goes on with `_pack`: `current` and the chunks are ranges of units.
`_seed_overlap`'s backwards loop is the predicate `IsSeed` on where it ends.
`Seeded` adds the check of `chunker.py:85` (a seed that is all of `current` is
dropped). Because the units come from `_explode` and not from a set of arbitrary
layouts, `ChunksFit` says what the code promises: only a chunk of one *word* may
be longer than `chunk_size`.

`Chunking` forgets units and loops. A caller gets a refusal, or chunks that are
ranges of whole words: in the order of the text, with every word in one chunk at
least and in three at most, none longer than the text it covers, and none longer
than `chunk_size` unless it is one word. Settings that are `Guaranteed` are never
refused and chunks are returned for `Permitted` ones only; the two differ in an
overlap of exactly half the chunk size, on which code and documentation disagree
(section 3). `Status` and `Result` are what a caller
sees of `Chunker`: nothing until the loops are through, then the first and last
word of each chunk and its length.

### Singletons and Query

`Receive` is FastAPI starting on a request. It calls the accessors one after the
other, in threads of their own: `ResolveCached` returns the cached instance,
`StartBuild` finds nothing cached and `FinishBuild` returns a new instance. As
`functools.lru_cache` does, `Build` keeps what another call has cached in the
meantime and gives the caller its own instance. A constructor may raise (the
dimension check of `huggingface.py:42`, an unknown provider): `Raise`, and nothing
is cached. A request that is not JSON is answered 422 before the accessors are
called, one with a blank question after that, because FastAPI solves the
dependencies before it validates the body: `Reject` has both.

`Submit` queues the embedding; `StartJob` gives the head of the executor's queue
a thread; the session connects on its first statement and keeps the connection
until `get_session` closes it (`Respond`, or `Raise` on an error), so all through
the generation. `Raise` is also a new connection that cannot be opened. The pool's 30 s timeout is `PoolTimeout`. Ingestion is the
environment: any step that `DocumentStore` allows.

`QueryService` forgets all of that: a request is open until it is answered or
declined, and an answer rests on a set of committed documents between those
committed when the request came and those committed when the answer is sent.
`ImplementsService` maps every place between `Receive` and the end to "open" and
the search's snapshot to the answer's sources.

### Answer and Evaluation

The model may write any text: markers over all labels and numbers, with or
without the abstention phrase, or nothing. Chunk scores are any numbers, and the
search returns any ranked part of the chunks at or above the threshold, since the
HNSW index is approximate and ties are open. Names are not unique (an edited file
keeps its name), may look different in the prompt (`Shown`, html.escape) and may
be such that the marker's expression cannot match them (`Matchable`).

`Evaluation` runs `Answer` for each row of a dataset, in order, resets it in
between, and scores it by `metrics.py`. An answer has any set of significant words
(none if it is blank), and `AnswerCorrectness` compares it with the expected
answer's, which may be empty. Percentages are kept as numerators and
denominators. `chunkedWith` remembers the settings
each stored document was chunked with; `IngestSeedDocs` is the effect of a whole
committed ingestion, which `AllOrNothing` in `Ingestion` justifies as one step.

## 3. Runs

| Run | Question | Bounds |
|---|---|---|
| `ingestion` | Is the store consistent whatever interleaves, is every attempt atomic, does a run only go forward, is it `DocumentStore`? | 2 runs x 2 attempts, 3 files (one a PDF, one in both directories), 3 contents (one rejected), 1 kill, 1 edit; symmetry over the two valid contents |
| `ingestion_liveness` | Can some run always go on, and does every run end? | 3 runs x 1 attempt, one with refused settings, malformed PDFs |
| `ingestion_bad_file`, `ingestion_conflict`, `seed_recreates` | documented claims, refuted | the smallest instance that can decide each |
| `chunker` | units, sizes, coverage, sharing, progress, termination, is it `Chunking`? | all texts of up to 4 words of 1-3 characters with every structure, 5 words of 1-2 characters (paragraphs only), 7 words of one character (one paragraph); sizes 0-7, overlaps -1-7 |
| `query` | leaks, current reads, shared models, only forward, somebody can go on, termination, is it `QueryService`? | 3 requests, 1 accessor, 1 thread, 2 connections, 1 commit |
| `instances` | documented claim, refuted | 2 requests, 2 accessors |
| `answer` | what becomes a citation, what may not be left out, what does the signal of missing citations mean? | 4 documents (two of one name, one escaped, one unmatchable), up to 8 chunks, 2 retrieved, 2 markers |
| `evaluation` | do scores and report agree, and is what a text names cited in every question? | 4 rows (answerable with and without expected words, unanswerable, mistyped), 3 words, 2 documents, 2 settings, another process that ingests |
| `abstention`, `experiment` | documented claims, refuted | 1 row, 1 or 2 evaluation runs |

Why the bounds suffice: two runs and two contents in opposite order are the least
that can wait for each other, a third run makes a waiter outside the cycle; two
attempts show a restart after a crash and a repeated seed; three files let a run
skip one, insert one and find a duplicate. Four words make two paragraphs of two
sentences, or one of each kind next to a word that is longer than a chunk; five
short ones let a chunk hold three, a seed of two move on, and a seed be dropped;
seven of one character leave room for four chunks around one word, which the
constructor's limit on the overlap rules out.
Three requests over one thread and two connections make each resource run out
while the other is held; accessors do not interact with each other, so that
instance has one, and three callers of it make a builder, a late builder and one
that finds the cache filled. One commit is enough to tell a snapshot from before
a request from one after it. Two markers are
needed for a repetition, two documents for a name collision.

Every `MaxAttempts`, `MaxCrashes`, `MaxEdits`, `MaxMarkers` and `MaxRuns` bounds
the environment or the operator, never what the code does. Deadlock is not
checked because every instance really stops once its runs, requests or questions
have ended. That nothing stops early is what the liveness properties say under
fairness, and `SomeRunCanGoOn` and `SomebodyCanGoOn` as invariants.

Fairness. `Ingestion`: weak fairness of each run's own steps - the event loop and
the database keep serving a live process, and the server's deadlock detector
fires. Nothing is assumed of starts, errors, kills and edits. `Query`: weak fairness of
the executor and of each request's steps; threads return because generation is
bounded by `max_tokens`, a freed connection goes to a waiter. Errors and the
pool's timeout are not assumed, so that requests end does not lean on them. `Chunker`: the loops go on.

### What the violated claims show

* `ingestion_bad_file`: `ingest_directory` promises that one bad file does not
  abort the rest, but only `ParserError` is caught; pypdf's own errors roll all
  back.
* `ingestion_conflict`: `ingest_seed_docs` promises never to fail on the unique
  constraint; it does when a seed run inserts the same content between its
  lookup and its flush.
* `seed_recreates`: the seed CLI promises to recreate the knowledge base; old
  documents stay.
* `instances`: the models are "built on first call, cached after", but first calls
  that overlap each build one, and a request can be served by an instance that
  no other request will ever use.
* `abstention`: a blank answer to an unanswerable question counts as wrong, though
  the metric's docstring says only a citation does. It has no citation and no
  phrase, so by the definition of `citations_missing` in `domain/answer.py:8-9` and
  `docs/ARCHITECTURE.md:287-288` it would be reported as missing its citations and
  count as right; `citations/text_extractor.py:102` makes an exception for blank
  answers. `MissingMeansUnnamed` speaks of texts on which the two agree.
* `experiment`: after a change of the chunk size, the report records the new
  setting while the stored chunks still have the old one.

### Disagreements no run shows

* `docs/ARCHITECTURE.md:236-237` says that the chunker raises `ValueError` if
  `chunk_overlap >= chunk_size // 2`; `ingestion/chunker.py:30` has `>`, so an
  overlap of exactly half is accepted. `Chunking` permits both, and the properties
  of the run `chunker` hold for that value, too: the chunk count does not blow up
  (`InThreeChunksAtMost`).
* `domain/answer.py:4` and `docs/ARCHITECTURE.md:289-290` call `abstained` and
  `citations_missing` not mutually exclusive. By their own definition, and in the
  code, they are: one needs the abstention phrase and the other its absence.

## 4. Proofs

Every invariant and action property of the passing runs, and all three refinements,
are theorems, checked by TLAPS with no proof left out. The assumptions are the
modules' own (`IngestionAssumption`, `ExplodeAssumption`, `SingletonsAssumption`,
`QueryAssumption`, `AnswerAssumption`, `EvaluationAssumption`): they say what the
parameters are and bound nothing. `FiniteRuns` says that there are finitely many
processes; only `IngestionNeverStuck` uses it, and with infinitely many a chain
of waits need not have an end.

Some theorems state a part of what the runs check, because other proofs rest on
it: `RowsAlwaysInTransactions` (without it a run could wait for one that has
ended, against `SomeRunCanGoOn`), `WordsAlwaysKept`, `TextAlwaysCovered` and
`StartsAlwaysIncrease` (`NothingLost` and `InOrder` of `Chunking`, in terms of
units), `SharingIsBounded` and `OverlapsAreFull` (the two halves of
`OverlapIsExact`), `ReadsStayCurrent` (what `QueryService` requires of an answer's
sources), `AnswerTyped` (a part of `EvaluationTyped`). `AskedShownIsCited` and
`AskedNamedIsCited` say of every question of an evaluation what the run `answer`
checks of one. The run `evaluation` checks the latter across questions: it would
fail if the extractor remembered what an earlier question cited.

**Ingestion.** `IngestionTyped` is by a case per action. The lemma `Effects` then
sorts all actions by what they do to the database: a start, an insert, a commit,
an end without commit, or nothing. Each later proof has five cases instead of one
per action. The errors of `Error` are all ends (lemma `ErrorEnds`); that of the
summary comes after the commit, as a late kill does.

* `HashesStayUnique`. Unique committed hashes are not inductive: a commit adds
  all of `pending`. The strengthening is that committed and pending rows of all
  runs *together* have distinct hashes, which `Insert` keeps because it requires
  the hash neither visible nor pending elsewhere.
* `AttemptsAreAtomic` needs that rows carry the attempt that made them, that the
  attempts of rows are not in the future, that pending rows belong to the current
  attempt, and that `new` is `pending` while the transaction runs.
* `CommittedRunsCover` needs that in a transaction `seen` is among the hashes of
  committed and own rows; `documents` only grows.
* `SoloRunsNeverConflict` needs that a run which nobody overlapped is alone in a
  transaction, and that a hash it is about to insert is not visible to it.
* `TextAlwaysOfHash` and `NewAlwaysConsidered` follow a file through a run instead
  (lemma `StepKinds`): what is held is of the bytes on disk while nobody edits,
  pending rows have what was held, and the listings contain every path that is
  still to come, held or inserted.
* `IngestionNeverStuck`: as long as a run has not ended, one of them is not
  blocked or is on a cycle of waits, which the server breaks. A blocker is a
  transaction in progress (`RowsAlwaysInTransactions`), so nobody waits for a run
  that has ended. If every live run were blocked, the sets of live runs closed
  under "waits for" would have a smallest non-empty member, and each run in it
  would be on a cycle.
* `IngestionGoesForward` sorts steps once more, by what they do to one run
  (`Moves`): the stages of a file go up, and the listing shrinks when the run is
  through with it, for which the file it holds must still be listed.
* `IngestionImplementsStore` maps `store` to the committed rows without their
  text. A commit is `Publish` of the run's attempt; every other step stutters.

**Chunker.** `ExplodeProofs` has what the packing loop needs of its units. The
invariants there say that the units so far are the words up to `w`, and that `w`
begins what the current loop is about to look at: a paragraph in the outer loop,
and in the inner ones a sentence or word of a paragraph, or sentence, that is too
long. `WordsAlwaysKept` and `UnitsAlwaysCoarsest` are these. `ChunkerTyped` carries
the ranges of `i` and `lo`. The later invariants add what relates the chunks to the
loop: `current` starts no later than the end of the last chunk, fits unless it is
one word, and starts after the last chunk did. `SharingIsBounded` and
`ChunksAlwaysFit` then follow from `IsSeed` and `Overflows` at `Emit`.
`TurnsProgress` is the reason no loop can spin: every step takes a word or a unit,
moves `lo`, or enters a later or deeper loop.

* `ChunksAlwaysFull` and `OverlapsAreFull` speak of pairs of consecutive chunks,
  but a chunk is emitted before its successor exists. While the loop runs, the
  last chunk therefore counts, too: it ended because the next unit did not fit
  (`AllFull`), and `current` stands for the successor (`CurrentSharesMost`).
* `OverlapNeverMultiplies`: no word is in four chunks. The invariants before it
  suffice, without a further induction. If the third of four chunks goes on after
  the second one's end, the second would have room for one more unit, since it
  lies within two overlaps, and two overlaps are never longer than a chunk: the
  constructor refuses more than half. If the third is nothing but an overlap, it
  shares nothing with the fourth, since that seed would be all of it.
* `ChunkerImplementsChunking`: the loop's steps stutter and the last one is
  `Return`. That the joined units are no longer than the text they stand for is an
  invariant of `_explode` (`Squeezed`: paragraphs and sentences are joined by one
  space where the text has at least as much). A word is in some unit, and a unit
  in the first chunk that ends no earlier, because chunks end in order and start
  no later than after the one before.

**Query.** `ConnectionsAreInUse` is inductive as it stands; `OneJobPerWait` is once
its last conjunct is put as a queue without repetitions, from which the bound on
the queue's length in `TypeOK` follows. `ReadsStayCurrent` needs in addition that `before` of
a request in progress is committed, and that `DocumentStore` only grows.
`InstancesAlwaysBuilt` has to look at who builds: a request that returns from a
constructor has no instance of that accessor yet, so that what it caches is the
last of its own list. `QueryImplementsService` has a case per action: `Receive` opens, `Respond`
answers with the search's snapshot (by `ReadsStayCurrent`), `Reject`, `Raise` and
`PoolTimeout` decline, a commit grows the store, and all else stutters.
`QueryNeverStuck`: a request that waits for a thread has its job in the queue, so
if no job can start, `Threads` jobs are running, and one of their requests can go
on; a request that waits for a connection while none is free waits for requests
that are past `search`, and one of those can go on or waits for a thread.
`QueryGoesForward`: every step of a request raises `Progress`.

**Answer.** The extraction loop needs that `seen` is the set of keys of `citations`,
that every marker before `m` that matches a retrieved chunk is in it, and that the
citations come from markers before `m`, in the order of the first marker of each
(`InOrder`, which speaks of existing positions where the property chooses one).
`NamedIsAlwaysCited` is the converse of `CitationsAlwaysRetrieved`: a marker that
names a retrieved chunk is not left out. Together with what the signals are and
that keys in `seen` could be matched (`SignalInv`) it gives
`MissingAlwaysMeansUnnamed`: of a text that says something and does not abstain,
citations are reported missing exactly if it names nothing of what was retrieved.

**Evaluation.** Its steps are `Answer`'s with other variables unchanged, so the
invariants of `AnswerProofs` hold in a question, and `Score` turns them into facts
about a result, which stay. `AskedShownIsCited` and `AskedNamedIsCited` are
`ShownIsCited` and `NamedIsCited` for each question of a run. `BlankNeverRight`
needs only that a blank answer has no words and no citation; as an abstention it
counts as wrong, which a documented claim denies (`abstention`) and no property
asks for. `ReportsAdd` counts finite sets of row numbers: the categories of the
results are those of the dataset's first rows.

**Left to TLC.** Liveness (`EveryRunEnds`, `Terminates`, `EveryRequestEnds`): TLAPS
proves nothing under fairness here. What is proved of it is the safety half: that
every step goes forward and, where runs or requests wait for each other, that
something can always go on. What is left is that fairness takes those steps and
that the measure is well-founded.

## 5. Not modelled

* Text normalisation, frontmatter, snippets, prompt wording, rendering of reports
  and summaries, latency and token sums: output that no property is about. The
  part of it that decides something is modelled by its effect: which contents a
  parser accepts, which name a chunk is shown under, which words an answer has.
* `config.py` is read once at import and has no behaviour of its own; its values
  are the constants and `Evaluation`'s setting. `migrations/env.py` is Alembic's
  configuration. The downgrade of the migration drops the tables and is never
  called by the program.
* `/health`, logging, tracing and argument parsing keep no state.
* The neural models, the executor, SQLAlchemy's pool and PostgreSQL are external
  and modelled by what the code relies on. The similarity of two vectors is any
  number and the HNSW index may return any ranked part of what is above the
  threshold.

Known limits of what is modelled: the API server, the seed CLI and the evaluation
runner meet in the database only, so `Query` takes the others as `DocumentStore`
and not as `Ingestion` itself, which `IngestionImplementsStore` justifies. The
evaluation's ingestion is one step for the same reason (`AttemptsAreAtomic`).
