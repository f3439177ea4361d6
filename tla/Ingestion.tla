----------------------------- MODULE Ingestion -----------------------------
(***************************************************************************)
(* The ingestion pipeline: several processes (the seed CLI, the evaluation *)
(* runner), each walking a directory in one database transaction:          *)
(* parse -> look the content hash up -> chunk and embed -> insert + flush, *)
(* and one commit at the end.  The processes share the database and the    *)
(* file system, and nothing else.                                          *)
(*                                                                         *)
(* A document is the record [id, hash, text]; hash and text are members of *)
(* Contents: the bytes that were hashed and the bytes the text came from.  *)
(***************************************************************************)
EXTENDS Naturals, FiniteSets

CONSTANTS
  Runs,         \* processes that ingest
  Seeds,        \* those that are seed/seed.py; the others are the eval runner
  Paths,        \* the supported files, named so that < is sorted()'s order
  Pdfs,         \* the paths whose suffix is .pdf
  Dir,          \* Dir[r]: the paths of the directory run r ingests
  Contents,     \* what a file may hold
  Rejected,     \* contents a parser answers with ParserError: not UTF-8, or
                \* a PDF of more than 500 pages
  Malformed,    \* contents pypdf cannot open: it raises an error of its own
  Absent,       \* the "content" of a path that is not there
  BadConfig,    \* runs whose settings the chunker's constructor refuses
  MaxAttempts,  \* bound: how often one run is started
  MaxCrashes,   \* bound: kills and lost connections
  MaxEdits      \* bound: changes to the file system

ASSUME IngestionAssumption ==
  /\ Seeds \subseteq Runs
  /\ Paths \subseteq Nat
  /\ Pdfs \subseteq Paths
  /\ Dir \in [Runs -> SUBSET Paths]
  /\ Rejected \subseteq Contents
  /\ Malformed \subseteq Contents
  /\ Absent \notin Contents
  /\ BadConfig \subseteq Runs
  /\ MaxAttempts \in Nat
  /\ MaxCrashes \in Nat
  /\ MaxEdits \in Nat

(* Runs are processes: there are finitely many.                            *)
ASSUME FiniteRuns == IsFiniteSet(Runs)

VARIABLES
  disk,        \* the file system: what each path holds
  documents,   \* committed rows of the documents table
  pending,     \* pending[r]: rows r has flushed and not committed
  pc,          \* where each run is
  attempt,     \* how often each run was started
  todo,        \* todo[r]: the listing of ingest_directory not yet visited
  cur,         \* cur[r]: the file ingest_document works on, Absent if none
  new,         \* new[r]: the list ingest_directory returns
  considered,  \* considered[r]: the seed CLI's own, earlier listing
  why,         \* why[r]: the reason the run failed
  seen,        \* history: hashes the run found stored or stored itself
  overlapped,  \* history: another run's transaction overlapped this one's
  crashes,     \* number of Crash steps, for the bound
  edits        \* number of EditFile steps, for the bound

vars == <<disk, documents, pending, pc, attempt, todo, cur, new, considered,
          why, seen, overlapped, crashes, edits>>

files == <<disk, edits>>

(***************************************************************************)
(* Rows.  An id is a fresh uuid4: the attempt and the path that made it.   *)
(***************************************************************************)
AttemptId == Runs \X (1..MaxAttempts)
Document  == [id: AttemptId \X Paths, hash: Contents, text: Contents]
HashesOf(docs) == {d.hash : d \in docs}

AttemptOf(d) == d.id[1]
DocumentsOf(r) == {d \in documents : AttemptOf(d) = <<r, attempt[r]>>}

Working == [path: Paths, hash: Contents, text: Contents]

InTransaction == {"list", "next", "pdf", "check", "embed", "insert"}
Ended == {"done", "failed"}
PC == {"idle", "summary"} \cup InTransaction \cup Ended
Reasons == {"none", "parse", "config", "error", "conflict", "deadlock", "summary", "crash"}

Minimum(S) == CHOOSE p \in S : \A q \in S : p <= q

-----------------------------------------------------------------------------
Init ==
  /\ disk \in [Paths -> Contents \cup {Absent}]
  /\ documents = {}
  /\ pending = [r \in Runs |-> {}]
  /\ pc = [r \in Runs |-> "idle"]
  /\ attempt = [r \in Runs |-> 0]
  /\ todo = [r \in Runs |-> {}]
  /\ cur = [r \in Runs |-> Absent]
  /\ new = [r \in Runs |-> {}]
  /\ considered = [r \in Runs |-> {}]
  /\ why = [r \in Runs |-> "none"]
  /\ seen = [r \in Runs |-> {}]
  /\ overlapped = [r \in Runs |-> FALSE]
  /\ crashes = 0
  /\ edits = 0

-----------------------------------------------------------------------------
(***************************************************************************)
(* The file system.  A listing is taken once and then walked in order.     *)
(***************************************************************************)
Listing(r) == {p \in Dir[r] : disk[p] # Absent}

EditFile(p) ==
  /\ edits < MaxEdits
  /\ \E c \in Contents \cup {Absent} :
       /\ c # disk[p]
       /\ disk' = [disk EXCEPT ![p] = c]
  /\ edits' = edits + 1
  /\ UNCHANGED <<documents, pending, pc, attempt, todo, cur, new, considered,
                 why, seen, overlapped, crashes>>

-----------------------------------------------------------------------------
(***************************************************************************)
(* The database, PostgreSQL at READ COMMITTED, for one statement of r.     *)
(* Visible: the rows a SELECT returns.  Blockers: the runs whose           *)
(* uncommitted row an INSERT of hash h has to wait for.  OnCycle: r is one *)
(* of a set of runs that all wait for each other's inserts.                *)
(***************************************************************************)
(* Mutant of Visible: uncommitted rows of other runs are read, too.        *)
VisibleDirty(r) == documents \cup UNION {pending[q] : q \in Runs}

Visible(r) == documents \cup pending[r]

Blockers(r, h) == {q \in Runs \ {r} : h \in HashesOf(pending[q])}

WaitsFor(r, q) == pc[r] = "insert" /\ q \in Blockers(r, cur[r].hash)

OnCycle(r) ==
  \E C \in SUBSET Runs :
    /\ r \in C
    /\ \A q \in C : /\ \E p \in C : WaitsFor(q, p)
                    /\ \E p \in C : WaitsFor(p, q)

-----------------------------------------------------------------------------
(***************************************************************************)
(* One attempt of a run.                                                   *)
(***************************************************************************)
(* Mutant of Start: the summary's listing has suffixes of its own, no .pdf. *)
StartForgetsPdfs(r) ==
  /\ pc[r] \in {"idle"} \cup Ended
  /\ attempt[r] < MaxAttempts
  /\ attempt' = [attempt EXCEPT ![r] = @ + 1]
  /\ pc' = [pc EXCEPT ![r] = "list"]
  /\ considered' = [considered EXCEPT ![r] = IF r \in Seeds THEN Listing(r) \ Pdfs ELSE {}]
  /\ new' = [new EXCEPT ![r] = {}]
  /\ seen' = [seen EXCEPT ![r] = {}]
  /\ why' = [why EXCEPT ![r] = "none"]
  /\ overlapped' = [q \in Runs |->
       IF q = r THEN \E p \in Runs \ {r} : pc[p] \in InTransaction
                ELSE overlapped[q] \/ pc[q] \in InTransaction]
  /\ UNCHANGED <<files, documents, pending, todo, cur, crashes>>

(* The process starts; the seed CLI takes its "files considered" listing.  *)
Start(r) ==
  /\ pc[r] \in {"idle"} \cup Ended
  /\ attempt[r] < MaxAttempts
  /\ attempt' = [attempt EXCEPT ![r] = @ + 1]
  /\ pc' = [pc EXCEPT ![r] = "list"]
  /\ considered' = [considered EXCEPT ![r] = IF r \in Seeds THEN Listing(r) ELSE {}]
  /\ new' = [new EXCEPT ![r] = {}]
  /\ seen' = [seen EXCEPT ![r] = {}]
  /\ why' = [why EXCEPT ![r] = "none"]
  /\ overlapped' = [q \in Runs |->
       IF q = r THEN \E p \in Runs \ {r} : pc[p] \in InTransaction
                ELSE overlapped[q] \/ pc[q] \in InTransaction]
  /\ UNCHANGED <<files, documents, pending, todo, cur, crashes>>

(* ingest_directory: sorted(dir_path.iterdir()), the supported suffixes.   *)
ListDirectory(r) ==
  /\ pc[r] = "list"
  /\ todo' = [todo EXCEPT ![r] = Listing(r)]
  /\ pc' = [pc EXCEPT ![r] = "next"]
  /\ UNCHANGED <<files, documents, pending, attempt, cur, new, considered, why,
                 seen, overlapped, crashes>>

(* Mutant of Abort: the session is not rolled back.                        *)
AbortKeepsRows(r, reason) ==
  /\ pc' = [pc EXCEPT ![r] = "failed"]
  /\ why' = [why EXCEPT ![r] = reason]
  /\ todo' = [todo EXCEPT ![r] = {}]
  /\ cur' = [cur EXCEPT ![r] = Absent]
  /\ UNCHANGED <<files, documents, pending, attempt, new, considered, seen,
                 overlapped>>

(* An exception leaves the session's block: the transaction is rolled back *)
(* and the process ends.                                                   *)
Abort(r, reason) ==
  /\ pc' = [pc EXCEPT ![r] = "failed"]
  /\ why' = [why EXCEPT ![r] = reason]
  /\ pending' = [pending EXCEPT ![r] = {}]
  /\ todo' = [todo EXCEPT ![r] = {}]
  /\ cur' = [cur EXCEPT ![r] = Absent]
  /\ UNCHANGED <<files, documents, attempt, new, considered, seen, overlapped>>

Fails(r, reason) == Abort(r, reason) /\ UNCHANGED crashes

(* Mutant of NextFile: the directory is listed anew after each file.       *)
NextFileRelists(r, p) ==
  /\ todo' = [todo EXCEPT ![r] = Listing(r) \ {p}]
  /\ pc' = [pc EXCEPT ![r] = "next"]
  /\ cur' = [cur EXCEPT ![r] = Absent]
  /\ UNCHANGED <<files, attempt, considered, why, overlapped, crashes>>

(* ingest_directory goes on with the next path of its listing.             *)
NextFile(r, p) ==
  /\ todo' = [todo EXCEPT ![r] = @ \ {p}]
  /\ pc' = [pc EXCEPT ![r] = "next"]
  /\ cur' = [cur EXCEPT ![r] = Absent]
  /\ UNCHANGED <<files, attempt, considered, why, overlapped, crashes>>

Opens(r, p) == pc[r] = "next" /\ todo[r] # {} /\ p = Minimum(todo[r])

(* Mutant of ParseText: a file that cannot be read parses as nothing.      *)
ParseTextUnread(r) ==
  \E p \in todo[r] \ Pdfs :
    /\ Opens(r, p)
    /\ disk[p] \notin Rejected
    /\ cur' = [cur EXCEPT ![r] = [path |-> p, hash |-> disk[p], text |-> disk[p]]]
    /\ pc' = [pc EXCEPT ![r] = "check"]
    /\ UNCHANGED <<files, documents, pending, attempt, todo, new, considered, why,
                   seen, overlapped, crashes>>

(* A markdown or text parser reads the file once and decodes it.           *)
ParseText(r) ==
  \E p \in todo[r] \ Pdfs :
    /\ Opens(r, p)
    /\ disk[p] \in Contents \ Rejected
    /\ cur' = [cur EXCEPT ![r] = [path |-> p, hash |-> disk[p], text |-> disk[p]]]
    /\ pc' = [pc EXCEPT ![r] = "check"]
    /\ UNCHANGED <<files, documents, pending, attempt, todo, new, considered, why,
                   seen, overlapped, crashes>>

(* The PDF parser reads the bytes it hashes ...                            *)
ReadPdf(r) ==
  \E p \in todo[r] \cap Pdfs :
    /\ Opens(r, p)
    /\ disk[p] # Absent
    /\ cur' = [cur EXCEPT ![r] = [path |-> p, hash |-> disk[p], text |-> disk[p]]]
    /\ pc' = [pc EXCEPT ![r] = "pdf"]
    /\ UNCHANGED <<files, documents, pending, attempt, todo, new, considered, why,
                   seen, overlapped, crashes>>

(* ... and opens the path again for the text.                              *)
ParsePdf(r) ==
  /\ pc[r] = "pdf"
  /\ disk[cur[r].path] \in Contents \ (Rejected \cup Malformed)
  /\ cur' = [cur EXCEPT ![r].text = disk[cur[r].path]]
  /\ pc' = [pc EXCEPT ![r] = "check"]
  /\ UNCHANGED <<files, documents, pending, attempt, todo, new, considered, why,
                 seen, overlapped, crashes>>

(* ParserError is caught: the file is skipped.                             *)
SkipRejected(r) ==
  /\ \/ \E p \in todo[r] \ Pdfs :
          Opens(r, p) /\ disk[p] \in Rejected /\ NextFile(r, p)
     \/ /\ pc[r] = "pdf"
        /\ disk[cur[r].path] \in Rejected \ Malformed
        /\ NextFile(r, cur[r].path)
  /\ UNCHANGED <<documents, pending, new, seen>>

(* Any other exception of a parser is not: the file has gone since it was  *)
(* listed, or pypdf cannot open it.                                        *)
ParseRaises(r) ==
  /\ \/ \E p \in todo[r] : Opens(r, p) /\ disk[p] = Absent
     \/ pc[r] = "pdf" /\ disk[cur[r].path] \in Malformed \cup {Absent}
  /\ Fails(r, "parse")

(* The SELECT by content_hash; a stored document is skipped.               *)
SkipStored(r) ==
  /\ pc[r] = "check"
  /\ cur[r].hash \in HashesOf(Visible(r))
  /\ NextFile(r, cur[r].path)
  /\ seen' = [seen EXCEPT ![r] = @ \cup {cur[r].hash}]
  /\ UNCHANGED <<documents, pending, new>>

(* Mutant of NotStored: the lookup does not see the run's own flushed rows. *)
NotStoredUnflushed(r) ==
  /\ pc[r] = "check"
  /\ cur[r].hash \notin HashesOf(documents)
  /\ pc' = [pc EXCEPT ![r] = "embed"]
  /\ UNCHANGED <<files, documents, pending, attempt, todo, cur, new, considered,
                 why, seen, overlapped, crashes>>

NotStored(r) ==
  /\ pc[r] = "check"
  /\ cur[r].hash \notin HashesOf(Visible(r))
  /\ pc' = [pc EXCEPT ![r] = "embed"]
  /\ UNCHANGED <<files, documents, pending, attempt, todo, cur, new, considered,
                 why, seen, overlapped, crashes>>

(* Chunker construction, chunking, and the await on the embedding model.   *)
Embed(r) ==
  /\ pc[r] = "embed"
  /\ r \notin BadConfig
  /\ pc' = [pc EXCEPT ![r] = "insert"]
  /\ UNCHANGED <<files, documents, pending, attempt, todo, cur, new, considered,
                 why, seen, overlapped, crashes>>

ConfigRefused(r) == pc[r] = "embed" /\ r \in BadConfig /\ Fails(r, "config")

(* Mutant of NewDocument: the text is read anew when the row is made.      *)
NewDocumentRereads(r) ==
  [id |-> << <<r, attempt[r]>>, cur[r].path >>,
   hash |-> cur[r].hash,
   text |-> IF disk[cur[r].path] = Absent THEN cur[r].text ELSE disk[cur[r].path]]

(* session.add and flush: the INSERT waits for uncommitted rows with the   *)
(* same hash, and fails on committed ones (and on the run's own).          *)
NewDocument(r) ==
  [id |-> << <<r, attempt[r]>>, cur[r].path >>,
   hash |-> cur[r].hash, text |-> cur[r].text]

(* Mutant of Insert: content_hash has an index and no unique constraint.   *)
InsertUnconstrained(r) ==
  /\ pc[r] = "insert"
  /\ pending' = [pending EXCEPT ![r] = @ \cup {NewDocument(r)}]
  /\ new' = [new EXCEPT ![r] = @ \cup {NewDocument(r)}]
  /\ seen' = [seen EXCEPT ![r] = @ \cup {cur[r].hash}]
  /\ NextFile(r, cur[r].path)
  /\ UNCHANGED documents

(* Mutant of Insert: ingest_document commits instead of flushing.          *)
InsertCommits(r) ==
  /\ pc[r] = "insert"
  /\ Blockers(r, cur[r].hash) = {}
  /\ cur[r].hash \notin HashesOf(Visible(r))
  /\ documents' = documents \cup {NewDocument(r)}
  /\ new' = [new EXCEPT ![r] = @ \cup {NewDocument(r)}]
  /\ seen' = [seen EXCEPT ![r] = @ \cup {cur[r].hash}]
  /\ NextFile(r, cur[r].path)
  /\ UNCHANGED pending

Insert(r) ==
  /\ pc[r] = "insert"
  /\ Blockers(r, cur[r].hash) = {}
  /\ cur[r].hash \notin HashesOf(Visible(r))
  /\ pending' = [pending EXCEPT ![r] = @ \cup {NewDocument(r)}]
  /\ new' = [new EXCEPT ![r] = @ \cup {NewDocument(r)}]
  /\ seen' = [seen EXCEPT ![r] = @ \cup {cur[r].hash}]
  /\ NextFile(r, cur[r].path)
  /\ UNCHANGED documents

InsertConflicts(r) ==
  /\ pc[r] = "insert"
  /\ Blockers(r, cur[r].hash) = {}
  /\ cur[r].hash \in HashesOf(Visible(r))
  /\ Fails(r, "conflict")

(* Mutant of DeadlockDetected: nobody breaks a cycle of waits.             *)
DeadlockIgnored(r) == OnCycle(r) /\ UNCHANGED vars

DeadlockDetected(r) == OnCycle(r) /\ Fails(r, "deadlock")

(* The caller commits after ingest_directory has returned.                 *)
Commit(r) ==
  /\ pc[r] = "next"
  /\ todo[r] = {}
  /\ documents' = documents \cup pending[r]
  /\ pending' = [pending EXCEPT ![r] = {}]
  /\ pc' = [pc EXCEPT ![r] = IF r \in Seeds THEN "summary" ELSE "done"]
  /\ UNCHANGED <<files, attempt, todo, cur, new, considered, why, seen,
                 overlapped, crashes>>

(* The seed CLI counts the new chunks and prints its summary.              *)
Summarise(r) ==
  /\ pc[r] = "summary"
  /\ pc' = [pc EXCEPT ![r] = "done"]
  /\ UNCHANGED <<files, documents, pending, attempt, todo, cur, new, considered,
                 why, seen, overlapped, crashes>>

(* Errors that may occur and need not: the model cannot be loaded or the   *)
(* directory not be listed, ...                                            *)
StartRaises(r) == pc[r] = "list" /\ Fails(r, "error")

(* ... an existing path cannot be read (permissions, a directory), ...     *)
ReadRaises(r) ==
  /\ \/ \E p \in todo[r] : Opens(r, p) /\ disk[p] # Absent
     \/ pc[r] = "pdf"
  /\ Fails(r, "error")

(* ... the embedding model fails, ...                                      *)
EmbedRaises(r) == pc[r] = "embed" /\ r \notin BadConfig /\ Fails(r, "error")

(* ... the database answers the lookup, the flush (text it cannot store) or *)
(* the commit with an error, ...                                           *)
DatabaseRaises(r) ==
  /\ \/ pc[r] \in {"check", "insert"}
     \/ pc[r] = "next" /\ todo[r] = {}
  /\ Fails(r, "error")

(* ... or, the transaction being committed, the summary's count of chunks. *)
SummaryRaises(r) == pc[r] = "summary" /\ new[r] # {} /\ Fails(r, "summary")

(* The process is killed or loses its connection, before or after commit.  *)
Crash(r) ==
  /\ pc[r] \in InTransaction \cup {"summary"}
  /\ crashes < MaxCrashes
  /\ crashes' = crashes + 1
  /\ Abort(r, "crash")

-----------------------------------------------------------------------------
(* What a started run does until it ends, whatever does not go wrong;      *)
(* Start, Error, Crash and EditFile are the operator's and environment's.  *)
Step(r) ==
  \/ ListDirectory(r) \/ ParseText(r) \/ ReadPdf(r) \/ ParsePdf(r)
  \/ SkipRejected(r) \/ ParseRaises(r) \/ SkipStored(r) \/ NotStored(r)
  \/ Embed(r) \/ ConfigRefused(r)
  \/ Insert(r) \/ InsertConflicts(r) \/ DeadlockDetected(r)
  \/ Commit(r) \/ Summarise(r)

Error(r) ==
  StartRaises(r) \/ ReadRaises(r) \/ EmbedRaises(r) \/ DatabaseRaises(r) \/ SummaryRaises(r)

Next ==
  \/ \E r \in Runs : Start(r) \/ Step(r) \/ Error(r) \/ Crash(r)
  \/ \E p \in Paths : EditFile(p)

Spec == Init /\ [][Next]_vars

(* The event loop and the database keep serving a process that runs; that  *)
(* an error occurs is never assumed.                                       *)
FairSpec == Spec /\ \A r \in Runs : WF_vars(Step(r))

-----------------------------------------------------------------------------
(***************************************************************************)
(* Properties.                                                             *)
(***************************************************************************)
(* The variables have their types; a run holds a parsed file exactly       *)
(* between the parser and the end of ingest_document, and only files that  *)
(* could be read are parsed (ingestion/parser.py).                         *)
Holding == {"pdf", "check", "embed", "insert"}

TypeOK ==
  /\ disk \in [Paths -> Contents \cup {Absent}]
  /\ documents \subseteq Document
  /\ pending \in [Runs -> SUBSET Document]
  /\ pc \in [Runs -> PC]
  /\ attempt \in [Runs -> 0..MaxAttempts]
  /\ todo \in [Runs -> SUBSET Paths]
  /\ new \in [Runs -> SUBSET Document]
  /\ considered \in [Runs -> SUBSET Paths]
  /\ why \in [Runs -> Reasons]
  /\ seen \in [Runs -> SUBSET Contents]
  /\ overlapped \in [Runs -> BOOLEAN]
  /\ crashes \in 0..MaxCrashes
  /\ edits \in 0..MaxEdits
  /\ cur \in [Runs -> Working \cup {Absent}]
  /\ \A r \in Runs : pc[r] \in Holding => cur[r] \in Working

(* No two committed documents have the same content hash, however the      *)
(* runs' lookups and inserts interleave: the lookup of ingest_document is  *)
(* stale by the time it inserts, uq_documents_content_hash has to hold it. *)
UniqueContentHash ==
  \A d, e \in documents : d.hash = e.hash => d = e

(* An attempt's documents are visible all together or not at all: flush    *)
(* and one commit by the caller.  A run that ended in an error left        *)
(* nothing, unless it was killed or its summary failed after its commit,   *)
(* and the list ingest_directory returned is what the attempt added.       *)
AllOrNothing ==
  \A r \in Runs :
    /\ DocumentsOf(r) \in {{}, new[r]}
    /\ pc[r] \in InTransaction => DocumentsOf(r) = {}
    /\ pc[r] \in {"summary", "done"} => DocumentsOf(r) = new[r]
    /\ pc[r] = "failed" /\ why[r] \notin {"summary", "crash"} => DocumentsOf(r) = {}

(* When a run has committed, each content it parsed is in the database,    *)
(* also those it skipped because the lookup found them: what it found was  *)
(* committed or its own, never a row another run could still roll back.    *)
CommittedRunCovers ==
  \A r \in Runs :
    pc[r] \in {"summary", "done"} => seen[r] \subseteq HashesOf(documents)

(* A run that no other run's transaction overlapped never fails on the     *)
(* unique constraint and is never a deadlock victim, also when two of its  *)
(* files have the same content: each flush is seen by the later lookups.   *)
SoloRunNeverConflicts ==
  \A r \in Runs :
    pc[r] = "failed" /\ why[r] \in {"conflict", "deadlock"} => overlapped[r]

(* Uncommitted rows, and the waits of others on them, belong to runs that  *)
(* are still in their transaction: no end of a run leaves them behind.     *)
RowsBelongToTransactions ==
  \A r \in Runs : pending[r] # {} => pc[r] \in InTransaction \ {"list"}

(* A document's text is of the bytes its hash is of, whatever happens to   *)
(* the files while they are parsed and embedded.  The PDF parser, which    *)
(* opens the path twice, can promise that only of files nobody changes.    *)
TextIsOfHash ==
  \A d \in documents : d.text = d.hash \/ (d.id[2] \in Pdfs /\ edits > 0)

(* The seed CLI's summary subtracts the new documents from a listing of    *)
(* its own: if nobody changes the files in between, each new document is   *)
(* of a file in that listing, and the difference counts what was skipped.  *)
NewWereConsidered ==
  edits = 0 =>
    \A r \in Seeds : pc[r] \in {"summary", "done"} =>
      \A d \in new[r] : d.id[2] \in considered[r]

(* The committed rows behave as DocumentStore says: append-only, one batch *)
(* per attempt, distinct hashes.                                           *)
Store == INSTANCE DocumentStore WITH
  Attempts <- AttemptId, Names <- Paths, Hashes <- Contents,
  store <- {[id |-> d.id, hash |-> d.hash] : d \in documents}

ImplementsStore == Store!StoreSpec

(* The database never waits for nobody: as long as a run has not ended,    *)
(* one of them is not blocked, or is in a cycle of waits that the server   *)
(* breaks.  A wait is never for a run that has ended, and a chain of waits *)
(* never leads nowhere, whoever crashed with rows others wait for.         *)
SomeRunCanGoOn ==
  LET Live == {r \in Runs : pc[r] \in InTransaction \cup {"summary"}}
  IN  Live # {} =>
        \E r \in Live :
          pc[r] = "insert" => Blockers(r, cur[r].hash) = {} \/ OnCycle(r)

(* Within an attempt a run only goes forward: along the stages of a file,  *)
(* or to a shorter rest of the listing it took, so that no file is visited *)
(* twice, also when files come, go and change meanwhile.  Only a new start *)
(* takes it back, and no other run ever moves it.                          *)
Stage ==
  [idle |-> 0, list |-> 1, next |-> 2, pdf |-> 3, check |-> 4, embed |-> 5,
   insert |-> 6, summary |-> 7, failed |-> 8, done |-> 8]

RunsGoForward ==
  [][\A r \in Runs :
       \/ UNCHANGED <<pc[r], todo[r]>>
       \/ attempt'[r] > attempt[r]
       \/ /\ Stage[pc'[r]] > Stage[pc[r]]
          /\ todo'[r] \subseteq todo[r] \/ pc[r] = "list"
       \/ todo'[r] \subseteq todo[r] /\ todo'[r] # todo[r]]_vars

(* Every run that was started ends: no file is visited for ever, and no    *)
(* wait on another run's insert lasts for ever.                            *)
EveryRunEnds ==
  \A r \in Runs : pc[r] \in InTransaction \cup {"summary"} ~> pc[r] \in Ended

-----------------------------------------------------------------------------
(***************************************************************************)
(* What the documentation says and the code does not do.                   *)
(***************************************************************************)
(* ingest_directory's docstring: "one bad file must not abort ingestion of *)
(* the rest of the directory".                                             *)
BadFileDoesNotAbort == \A r \in Runs : why[r] # "parse"

(* ingest_seed_docs' docstring: running it repeatedly "never duplicates    *)
(* data or fails on the content_hash unique constraint".                   *)
NeverFailsOnUniqueConstraint == \A r \in Runs \ Seeds : why[r] # "conflict"

(* seed.py's docstring: the seed CLI "recreates the local knowledge base   *)
(* from the source directory every time".                                  *)
SeedRecreates ==
  \A r \in Seeds : pc[r] = "summary" => HashesOf(documents) \subseteq seen[r]

=============================================================================
