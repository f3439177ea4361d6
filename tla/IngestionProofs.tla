-------------------------- MODULE IngestionProofs --------------------------
(***************************************************************************)
(* Proofs about Ingestion, for any number of runs, paths and contents and  *)
(* for every bound on attempts, crashes and edits.                         *)
(***************************************************************************)
EXTENDS Ingestion, FiniteSetTheorems, NaturalExtremes, TLAPS

-----------------------------------------------------------------------------
(* Type correctness.                                                       *)
LEMMA InitTypeOK == Init => TypeOK
  BY IngestionAssumption
     DEF Init, TypeOK, PC, Reasons, Holding, InTransaction, Ended

(* A row that Insert adds is a document.                                   *)
LEMMA NewDocumentType ==
  ASSUME TypeOK, NEW r \in Runs, pc[r] = "insert", attempt[r] >= 1
  PROVE  NewDocument(r) \in Document
<1>1. cur[r] \in Working /\ attempt[r] \in 1..MaxAttempts
  BY IngestionAssumption DEF TypeOK, Holding
<1> QED
  BY <1>1 DEF NewDocument, Document, AttemptId, Working

(* A run is in its first attempt at the least once it has left idle.       *)
Started == \A r \in Runs : pc[r] # "idle" => attempt[r] >= 1

TypeInv == TypeOK /\ Started

(* Every error ends the run, in its transaction or in its summary.         *)
LEMMA ErrorEnds ==
  ASSUME NEW r \in Runs, Error(r)
  PROVE  \/ pc[r] \in InTransaction /\ Fails(r, "error")
         \/ pc[r] = "summary" /\ Fails(r, "summary")
  BY DEF Error, StartRaises, ReadRaises, EmbedRaises, DatabaseRaises, SummaryRaises,
         Opens, InTransaction

(* The parts of TypeOK that a step of one run touches.                     *)
LEMMA AbortTyped ==
  ASSUME TypeInv, NEW r \in Runs, NEW reason \in Reasons, pc[r] # "idle",
         Abort(r, reason), crashes' \in 0..MaxCrashes
  PROVE  TypeInv'
  BY DEF TypeInv, TypeOK, Started, Abort, files, PC, Ended, Holding

LEMMA NextFileTyped ==
  ASSUME TypeInv, NEW r \in Runs, NEW p \in Paths, pc[r] # "idle", NextFile(r, p),
         documents' \subseteq Document, pending' \in [Runs -> SUBSET Document],
         new' \in [Runs -> SUBSET Document], seen' \in [Runs -> SUBSET Contents]
  PROVE  TypeInv'
  BY DEF TypeInv, TypeOK, Started, NextFile, files, PC, InTransaction, Holding

LEMMA NextTypeInv == TypeInv /\ [Next]_vars => TypeInv'
<1> SUFFICES ASSUME TypeInv, [Next]_vars PROVE TypeInv'
  OBVIOUS
<1>1. ASSUME NEW r \in Runs, Start(r) PROVE TypeInv'
  <2>1. Listing(r) \subseteq Paths
    BY IngestionAssumption DEF Listing
  <2> QED
    <3>1. attempt' \in [Runs -> 0..MaxAttempts] /\ attempt'[r] >= 1
      BY <1>1, IngestionAssumption DEF Start, TypeInv, TypeOK
    <3>2. /\ considered' \in [Runs -> SUBSET Paths]
          /\ new' \in [Runs -> SUBSET Document]
          /\ seen' \in [Runs -> SUBSET Contents]
          /\ why' \in [Runs -> Reasons]
      BY <1>1, <2>1 DEF Start, TypeInv, TypeOK, Reasons
    <3>3. overlapped' \in [Runs -> BOOLEAN]
      BY <1>1 DEF Start, TypeInv, TypeOK
    <3>4. pc' \in [Runs -> PC] /\ pc' = [pc EXCEPT ![r] = "list"]
      BY <1>1 DEF Start, TypeInv, TypeOK, PC, InTransaction
    <3>5. \A q \in Runs : pc'[q] # "idle" => attempt'[q] >= 1
      BY <1>1, <3>1, <3>4 DEF Start, TypeInv, TypeOK, Started
    <3>6. \A q \in Runs : pc'[q] \in Holding => cur'[q] \in Working
      BY <1>1, <3>4 DEF Start, TypeInv, TypeOK, Holding
    <3> QED
      BY <1>1, <3>1, <3>2, <3>3, <3>4, <3>5, <3>6 DEF Start, TypeInv, TypeOK, Started, files
<1>2. ASSUME NEW r \in Runs, ListDirectory(r) PROVE TypeInv'
  <2>1. Listing(r) \subseteq Paths
    BY IngestionAssumption DEF Listing
  <2> QED
    BY <1>2, <2>1
       DEF TypeInv, TypeOK, Started, ListDirectory, files, PC, InTransaction, Holding
<1>3. ASSUME NEW r \in Runs, ParseText(r) PROVE TypeInv'
  <2>1. PICK p \in todo[r] \ Pdfs :
          /\ disk[p] \in Contents
          /\ cur' = [cur EXCEPT ![r] = [path |-> p, hash |-> disk[p], text |-> disk[p]]]
    BY <1>3 DEF ParseText
  <2>2. [path |-> p, hash |-> disk[p], text |-> disk[p]] \in Working
    BY <2>1 DEF Working, TypeInv, TypeOK
  <2> QED
    BY <1>3, <2>1, <2>2
       DEF TypeInv, TypeOK, Started, ParseText, Opens, files, PC, InTransaction, Holding
<1>4. ASSUME NEW r \in Runs, ReadPdf(r) PROVE TypeInv'
  <2>1. PICK p \in todo[r] \cap Pdfs :
          /\ disk[p] # Absent
          /\ cur' = [cur EXCEPT ![r] = [path |-> p, hash |-> disk[p], text |-> disk[p]]]
    BY <1>4 DEF ReadPdf
  <2>2. [path |-> p, hash |-> disk[p], text |-> disk[p]] \in Working
    BY <2>1 DEF Working, TypeInv, TypeOK
  <2> QED
    BY <1>4, <2>1, <2>2
       DEF TypeInv, TypeOK, Started, ReadPdf, Opens, files, PC, InTransaction, Holding
<1>5. ASSUME NEW r \in Runs, ParsePdf(r) PROVE TypeInv'
  <2>1. cur[r] \in Working
    BY <1>5 DEF ParsePdf, TypeInv, TypeOK, Holding
  <2>2. cur' \in [Runs -> Working \cup {Absent}] /\ cur'[r] \in Working
    BY <1>5, <2>1 DEF ParsePdf, TypeInv, TypeOK, Working
  <2> QED
    BY <1>5, <2>2
       DEF TypeInv, TypeOK, Started, ParsePdf, files, PC, InTransaction, Holding
<1>6. ASSUME NEW r \in Runs, SkipRejected(r) PROVE TypeInv'
  <2>1. PICK p \in Paths : NextFile(r, p)
    <3>1. pc[r] = "pdf" => cur[r].path \in Paths
      BY DEF TypeInv, TypeOK, Holding, Working
    <3> QED
      BY <1>6, <3>1 DEF SkipRejected, TypeInv, TypeOK
  <2>2. pc[r] # "idle"
    BY <1>6 DEF SkipRejected, Opens
  <2> QED
    BY <1>6, <2>1, <2>2, NextFileTyped DEF SkipRejected, TypeInv, TypeOK
<1>7. ASSUME NEW r \in Runs, NEW reason \in Reasons, Fails(r, reason), pc[r] # "idle"
      PROVE  TypeInv'
  BY <1>7, AbortTyped DEF Fails, TypeInv, TypeOK
<1>8. ASSUME NEW r \in Runs, SkipStored(r) PROVE TypeInv'
  <2>1. cur[r].path \in Paths /\ cur[r].hash \in Contents
    BY <1>8 DEF SkipStored, TypeInv, TypeOK, Holding, Working
  <2>2. seen' \in [Runs -> SUBSET Contents]
    BY <1>8, <2>1 DEF SkipStored, TypeInv, TypeOK
  <2> QED
    BY <1>8, <2>1, <2>2, NextFileTyped DEF SkipStored, TypeInv, TypeOK
<1>9. ASSUME NEW r \in Runs, NotStored(r) \/ Embed(r) PROVE TypeInv'
  BY <1>9 DEF TypeInv, TypeOK, Started, NotStored, Embed, files, PC, InTransaction, Holding
<1>10. ASSUME NEW r \in Runs, Insert(r) PROVE TypeInv'
  <2>1. cur[r].path \in Paths /\ cur[r].hash \in Contents /\ NewDocument(r) \in Document
    BY <1>10, NewDocumentType DEF Insert, TypeInv, TypeOK, Started, Holding, Working
  <2>2. /\ seen' \in [Runs -> SUBSET Contents]
        /\ pending' \in [Runs -> SUBSET Document]
        /\ new' \in [Runs -> SUBSET Document]
    BY <1>10, <2>1 DEF Insert, TypeInv, TypeOK
  <2> QED
    BY <1>10, <2>1, <2>2, NextFileTyped DEF Insert, TypeInv, TypeOK
<1>11. ASSUME NEW r \in Runs, Commit(r) PROVE TypeInv'
  BY <1>11
     DEF TypeInv, TypeOK, Started, Commit, files, PC, InTransaction, Ended, Holding
<1>12. ASSUME NEW r \in Runs, Summarise(r) PROVE TypeInv'
  BY <1>12 DEF TypeInv, TypeOK, Started, Summarise, files, PC, Ended, Holding
<1>13. ASSUME NEW r \in Runs, Crash(r) PROVE TypeInv'
  <2>1. crashes' \in 0..MaxCrashes
    BY <1>13, IngestionAssumption DEF Crash, TypeInv, TypeOK
  <2> QED
    BY <1>13, <2>1, AbortTyped DEF Crash, InTransaction, Reasons
<1>14. ASSUME NEW p \in Paths, EditFile(p) PROVE TypeInv'
  BY <1>14, IngestionAssumption DEF TypeInv, TypeOK, Started, EditFile
<1>15. CASE UNCHANGED vars
  BY <1>15 DEF TypeInv, TypeOK, Started, vars
<1>16. ASSUME NEW r \in Runs, Step(r) PROVE TypeInv'
  <2>1. CASE ParseRaises(r)
    BY <2>1, <1>7 DEF ParseRaises, Opens, Reasons
  <2>2. CASE ConfigRefused(r)
    BY <2>2, <1>7 DEF ConfigRefused, Reasons
  <2>3. CASE InsertConflicts(r)
    BY <2>3, <1>7 DEF InsertConflicts, Reasons
  <2>4. CASE DeadlockDetected(r)
    <3>1. pc[r] = "insert"
      BY <2>4 DEF DeadlockDetected, OnCycle, WaitsFor
    <3> QED
      BY <2>4, <3>1, <1>7 DEF DeadlockDetected, Reasons
  <2> QED
    BY <1>16, <1>2, <1>3, <1>4, <1>5, <1>6, <1>8, <1>9, <1>10, <1>11, <1>12,
       <2>1, <2>2, <2>3, <2>4 DEF Step
<1>17. ASSUME NEW r \in Runs, Error(r) PROVE TypeInv'
  BY <1>17, <1>7, ErrorEnds DEF InTransaction, Reasons
<1> QED
  BY <1>1, <1>13, <1>14, <1>15, <1>16, <1>17 DEF Next

(* The type invariant (storage/models.py, ingestion/service.py).           *)
THEOREM IngestionTyped == Spec => []TypeOK
<1>1. Init => TypeInv
  BY InitTypeOK DEF TypeInv, Started, Init
<1>2. TypeInv => TypeOK
  BY DEF TypeInv
<1> QED
  BY <1>1, <1>2, NextTypeInv, PTL DEF Spec

-----------------------------------------------------------------------------
(* What a step can do to the rows.  Start, Insert and Commit are as they   *)
(* are defined; every failure is an Ends step, every other step is Quiet.  *)
EndsWith(r, reason) ==
  /\ Abort(r, reason)
  /\ pc[r] \in InTransaction \/ (pc[r] = "summary" /\ reason \in {"summary", "crash"})
  /\ reason = "conflict" =>
       pc[r] = "insert" /\ cur[r].hash \in HashesOf(Visible(r))
  /\ reason = "deadlock" => pc[r] = "insert" /\ \E q \in Runs \ {r} : pending[q] # {}

Ends(r) == \E reason \in Reasons : EndsWith(r, reason)

StaysFresh(r) ==
  \/ cur'[r].hash \notin HashesOf(Visible(r))
  \/ pc[r] \in {"embed", "insert"} /\ cur'[r] = cur[r]

QuietFor(r) ==
  \/ pc'[r] = pc[r] /\ cur'[r] = cur[r] /\ seen'[r] = seen[r]
  \/ /\ pc[r] \in InTransaction
     /\ pc'[r] \in InTransaction \ {"list"}
     /\ pc'[r] \in {"embed", "insert"} => StaysFresh(r)
     /\ seen'[r] \subseteq seen[r] \cup HashesOf(Visible(r))
  \/ pc[r] = "summary" /\ pc'[r] = "done" /\ seen'[r] = seen[r]

Quiet ==
  /\ UNCHANGED <<documents, pending, attempt, new, overlapped, why>>
  /\ \A r \in Runs : QuietFor(r)

LEMMA Effects ==
  ASSUME TypeInv, [Next]_vars
  PROVE  \/ \E r \in Runs : Start(r) \/ Insert(r) \/ Commit(r) \/ Ends(r)
         \/ Quiet
<1> USE DEF TypeInv, TypeOK
<1>1. ASSUME NEW r \in Runs, ListDirectory(r) PROVE Quiet
  BY <1>1 DEF ListDirectory, Quiet, QuietFor, InTransaction
<1>2. ASSUME NEW r \in Runs, ParseText(r) PROVE Quiet
  BY <1>2 DEF ParseText, Opens, Quiet, QuietFor, InTransaction
<1>3. ASSUME NEW r \in Runs, ReadPdf(r) PROVE Quiet
  BY <1>3 DEF ReadPdf, Opens, Quiet, QuietFor, InTransaction
<1>4. ASSUME NEW r \in Runs, ParsePdf(r) PROVE Quiet
  BY <1>4 DEF ParsePdf, Quiet, QuietFor, InTransaction
<1>5. ASSUME NEW r \in Runs, SkipRejected(r) PROVE Quiet
  <2>1. PICK p \in Paths : NextFile(r, p)
    <3>1. pc[r] = "pdf" => cur[r].path \in Paths
      BY DEF Holding, Working
    <3> QED
      BY <1>5, <3>1 DEF SkipRejected
  <2>2. pc[r] \in InTransaction
    BY <1>5 DEF SkipRejected, Opens, InTransaction
  <2> QED
    BY <1>5, <2>1, <2>2 DEF SkipRejected, NextFile, Quiet, QuietFor, InTransaction
<1>6. ASSUME NEW r \in Runs, SkipStored(r) PROVE Quiet
  BY <1>6 DEF SkipStored, NextFile, Quiet, QuietFor, InTransaction
<1>7. ASSUME NEW r \in Runs, NotStored(r) PROVE Quiet
  BY <1>7 DEF NotStored, Quiet, QuietFor, StaysFresh, InTransaction
<1>8. ASSUME NEW r \in Runs, Embed(r) PROVE Quiet
  BY <1>8 DEF Embed, Quiet, QuietFor, StaysFresh, InTransaction
<1>9. ASSUME NEW r \in Runs, Summarise(r) PROVE Quiet
  BY <1>9 DEF Summarise, Quiet, QuietFor
<1>10. ASSUME NEW p \in Paths, EditFile(p) PROVE Quiet
  BY <1>10 DEF EditFile, Quiet, QuietFor
<1>11. CASE UNCHANGED vars
  BY <1>11 DEF vars, Quiet, QuietFor
<1>12. ASSUME NEW r \in Runs, Crash(r) PROVE Ends(r)
  <2>1. EndsWith(r, "crash")
    BY <1>12 DEF Crash, EndsWith
  <2> QED
    BY <2>1 DEF Ends, Reasons
<1>13. ASSUME NEW r \in Runs, ParseRaises(r) PROVE Ends(r)
  <2>1. Abort(r, "parse") /\ pc[r] \in InTransaction
    BY <1>13 DEF ParseRaises, Opens, Fails, InTransaction
  <2>2. EndsWith(r, "parse")
    BY <2>1 DEF EndsWith
  <2> QED
    BY <2>2 DEF Ends, Reasons
<1>14. ASSUME NEW r \in Runs, ConfigRefused(r) PROVE Ends(r)
  <2>1. Abort(r, "config") /\ pc[r] \in InTransaction
    BY <1>14 DEF ConfigRefused, Fails, InTransaction
  <2>2. EndsWith(r, "config")
    BY <2>1 DEF EndsWith
  <2> QED
    BY <2>2 DEF Ends, Reasons
<1>15. ASSUME NEW r \in Runs, InsertConflicts(r) PROVE Ends(r)
  <2>1. /\ Abort(r, "conflict") /\ pc[r] \in InTransaction
        /\ pc[r] = "insert" /\ cur[r].hash \in HashesOf(Visible(r))
    BY <1>15 DEF InsertConflicts, Fails, InTransaction
  <2>2. EndsWith(r, "conflict")
    BY <2>1 DEF EndsWith
  <2> QED
    BY <2>2 DEF Ends, Reasons
<1>16. ASSUME NEW r \in Runs, DeadlockDetected(r) PROVE Ends(r)
  <2>1. PICK q \in Runs : WaitsFor(r, q)
    BY <1>16 DEF DeadlockDetected, OnCycle
  <2>2. pc[r] = "insert" /\ q \in Runs \ {r} /\ pending[q] # {}
    BY <2>1 DEF WaitsFor, Blockers, HashesOf
  <2>3. Abort(r, "deadlock") /\ pc[r] \in InTransaction
    BY <1>16, <2>2 DEF DeadlockDetected, Fails, InTransaction
  <2>4. EndsWith(r, "deadlock")
    BY <2>2, <2>3 DEF EndsWith
  <2> QED
    BY <2>4 DEF Ends, Reasons
<1>17. ASSUME NEW r \in Runs, Error(r) PROVE Ends(r)
  <2>1. EndsWith(r, "error") \/ EndsWith(r, "summary")
    BY <1>17, ErrorEnds DEF Fails, EndsWith
  <2> QED
    BY <2>1 DEF Ends, Reasons
<1> QED
  BY <1>1, <1>2, <1>3, <1>4, <1>5, <1>6, <1>7, <1>8, <1>9, <1>10, <1>11, <1>12,
     <1>13, <1>14, <1>15, <1>16, <1>17 DEF Next, Step

-----------------------------------------------------------------------------
(* Uncommitted rows live inside transactions.                              *)
LEMMA NextRowsBelong ==
  ASSUME TypeInv, RowsBelongToTransactions, [Next]_vars
  PROVE  RowsBelongToTransactions'
<1> USE DEF RowsBelongToTransactions, TypeInv, TypeOK
<1>1. ASSUME NEW r \in Runs, Start(r) PROVE RowsBelongToTransactions'
  BY <1>1 DEF Start, InTransaction, Ended
<1>2. ASSUME NEW r \in Runs, Insert(r) PROVE RowsBelongToTransactions'
  BY <1>2 DEF Insert, NextFile, InTransaction
<1>3. ASSUME NEW r \in Runs, Commit(r) PROVE RowsBelongToTransactions'
  BY <1>3 DEF Commit, InTransaction
<1>4. ASSUME NEW r \in Runs, Ends(r) PROVE RowsBelongToTransactions'
  BY <1>4 DEF Ends, EndsWith, Abort, InTransaction
<1>5. CASE Quiet
  BY <1>5 DEF Quiet, QuietFor, InTransaction
<1> QED
  BY <1>1, <1>2, <1>3, <1>4, <1>5, Effects

RowInv == TypeInv /\ RowsBelongToTransactions

LEMMA RowInvariant == Spec => []RowInv
<1>1. Init => RowInv
  BY InitTypeOK DEF RowInv, TypeInv, Started, Init, RowsBelongToTransactions
<1>2. RowInv /\ [Next]_vars => RowInv'
  BY NextTypeInv, NextRowsBelong DEF RowInv
<1> QED
  BY <1>1, <1>2, PTL DEF Spec

(* No end of a run leaves uncommitted rows, and waits on them, behind      *)
(* (storage/database.py's session block).                                  *)
THEOREM RowsAlwaysInTransactions == Spec => []RowsBelongToTransactions
<1>1. RowInv => RowsBelongToTransactions
  BY DEF RowInv
<1> QED
  BY <1>1, RowInvariant, PTL

-----------------------------------------------------------------------------
(* Unique hashes.  Inductive with: the hashes of all uncommitted rows are  *)
(* distinct, too, and none of them is committed.                           *)
PendingFresh ==
  \A r \in Runs : \A d \in pending[r], e \in documents : d.hash # e.hash

PendingDistinct ==
  \A q, r \in Runs : \A d \in pending[q], e \in pending[r] :
    d.hash = e.hash => q = r /\ d = e

UniqueInv == RowInv /\ UniqueContentHash /\ PendingFresh /\ PendingDistinct

LEMMA NextUnique ==
  ASSUME UniqueInv, [Next]_vars
  PROVE  UniqueContentHash' /\ PendingFresh' /\ PendingDistinct'
<1> USE DEF UniqueInv, UniqueContentHash, PendingFresh, PendingDistinct
<1>0. TypeInv /\ pending \in [Runs -> SUBSET Document]
  BY DEF RowInv, TypeInv, TypeOK
<1>1. ASSUME NEW r \in Runs, Start(r)
      PROVE  UniqueContentHash' /\ PendingFresh' /\ PendingDistinct'
  BY <1>1 DEF Start
<1>2. ASSUME NEW r \in Runs, Insert(r)
      PROVE  UniqueContentHash' /\ PendingFresh' /\ PendingDistinct'
  <2> DEFINE n == NewDocument(r)
  <2>1. /\ documents' = documents
        /\ pending'[r] = pending[r] \cup {n}
        /\ \A q \in Runs \ {r} : pending'[q] = pending[q]
    BY <1>0, <1>2 DEF Insert
  <2>2. /\ n.hash \notin HashesOf(documents)
        /\ \A q \in Runs : n.hash \notin HashesOf(pending[q])
    BY <1>2 DEF Insert, NewDocument, Visible, Blockers, HashesOf
  <2> HIDE DEF n
  <2>3. PendingFresh'
    BY <2>1, <2>2 DEF HashesOf
  <2>4. PendingDistinct'
    <3> SUFFICES ASSUME NEW q \in Runs, NEW p \in Runs, NEW d \in pending'[q],
                        NEW e \in pending'[p], d.hash = e.hash
                 PROVE  q = p /\ d = e
      OBVIOUS
    <3>1. d \in pending[q] \/ (d = n /\ q = r)
      BY <2>1
    <3>2. e \in pending[p] \/ (e = n /\ p = r)
      BY <2>1
    <3> QED
      BY <2>2, <3>1, <3>2 DEF HashesOf
  <2> QED
    BY <2>1, <2>3, <2>4
<1>3. ASSUME NEW r \in Runs, Commit(r)
      PROVE  UniqueContentHash' /\ PendingFresh' /\ PendingDistinct'
  <2>1. /\ documents' = documents \cup pending[r]
        /\ pending'[r] = {}
        /\ \A q \in Runs \ {r} : pending'[q] = pending[q]
    BY <1>0, <1>3 DEF Commit
  <2> QED
    BY <2>1
<1>4. ASSUME NEW r \in Runs, Ends(r)
      PROVE  UniqueContentHash' /\ PendingFresh' /\ PendingDistinct'
  <2>1. /\ documents' = documents
        /\ pending'[r] = {}
        /\ \A q \in Runs \ {r} : pending'[q] = pending[q]
    BY <1>0, <1>4 DEF Ends, EndsWith, Abort
  <2> QED
    BY <2>1
<1>5. CASE Quiet
  BY <1>5 DEF Quiet
<1> QED
  BY <1>0, <1>1, <1>2, <1>3, <1>4, <1>5, Effects

LEMMA UniqueInvariant == Spec => []UniqueInv
<1>1. Init => UniqueInv
  BY InitTypeOK
     DEF UniqueInv, RowInv, TypeInv, Started, RowsBelongToTransactions, Init,
         UniqueContentHash, PendingFresh, PendingDistinct
<1>2. UniqueInv /\ [Next]_vars => UniqueInv'
  BY NextTypeInv, NextRowsBelong, NextUnique DEF UniqueInv, RowInv
<1> QED
  BY <1>1, <1>2, PTL DEF Spec

(* However the runs interleave, crash and restart, no content hash is      *)
(* committed twice (storage/models.py, ingest_document).                   *)
THEOREM HashesStayUnique == Spec => []UniqueContentHash
<1>1. UniqueInv => UniqueContentHash
  BY DEF UniqueInv
<1> QED
  BY <1>1, UniqueInvariant, PTL

-----------------------------------------------------------------------------
(* Coverage.  Inductive with: during the transaction, each content the run *)
(* has parsed is committed or among its own rows.                          *)
SeenIsVisible ==
  \A r \in Runs : pc[r] \in InTransaction \cup {"summary", "done"} =>
    seen[r] \subseteq HashesOf(Visible(r))

CoverInv == RowInv /\ SeenIsVisible

LEMMA NextCover ==
  ASSUME CoverInv, [Next]_vars
  PROVE  SeenIsVisible'
<1> USE DEF CoverInv, SeenIsVisible
<1>0. /\ TypeInv /\ pending \in [Runs -> SUBSET Document] /\ pc \in [Runs -> PC]
      /\ seen \in [Runs -> SUBSET Contents]
  BY DEF RowInv, TypeInv, TypeOK
<1>1. ASSUME NEW r \in Runs, Start(r) PROVE SeenIsVisible'
  BY <1>0, <1>1 DEF Start, Visible, HashesOf
<1>2. ASSUME NEW r \in Runs, Insert(r) PROVE SeenIsVisible'
  <2> DEFINE n == NewDocument(r)
  <2>1. /\ documents' = documents
        /\ pending'[r] = pending[r] \cup {n}
        /\ seen'[r] = seen[r] \cup {n.hash}
        /\ pc[r] \in InTransaction
        /\ \A q \in Runs \ {r} :
             pending'[q] = pending[q] /\ pc'[q] = pc[q] /\ seen'[q] = seen[q]
    BY <1>0, <1>2 DEF Insert, NextFile, NewDocument, InTransaction
  <2> HIDE DEF n
  <2> QED
    BY <2>1 DEF Visible, HashesOf
<1>3. ASSUME NEW r \in Runs, Commit(r) PROVE SeenIsVisible'
  <2>1. /\ documents' = documents \cup pending[r]
        /\ pc[r] \in InTransaction
        /\ seen' = seen
        /\ \A q \in Runs \ {r} : pending'[q] = pending[q] /\ pc'[q] = pc[q]
    BY <1>0, <1>3 DEF Commit, InTransaction
  <2> QED
    BY <2>1 DEF Visible, HashesOf
<1>4. ASSUME NEW r \in Runs, Ends(r) PROVE SeenIsVisible'
  <2>1. /\ documents' = documents
        /\ pc'[r] = "failed"
        /\ seen' = seen
        /\ \A q \in Runs \ {r} : pending'[q] = pending[q] /\ pc'[q] = pc[q]
    BY <1>0, <1>4 DEF Ends, EndsWith, Abort
  <2> QED
    BY <2>1 DEF Visible, HashesOf, InTransaction
<1>5. CASE Quiet
  BY <1>5 DEF Quiet, QuietFor, Visible, HashesOf, InTransaction
<1> QED
  BY <1>0, <1>1, <1>2, <1>3, <1>4, <1>5, Effects

(* A run that has committed finds each content it parsed in the database,  *)
(* whatever other runs did in the meantime (ingest_document's lookup).     *)
THEOREM CommittedRunsCover == Spec => []CommittedRunCovers
<1>1. Init => CoverInv
  BY InitTypeOK
     DEF CoverInv, RowInv, TypeInv, Started, RowsBelongToTransactions, Init,
         SeenIsVisible, Visible, HashesOf
<1>2. CoverInv /\ [Next]_vars => CoverInv'
  BY NextTypeInv, NextRowsBelong, NextCover DEF CoverInv, RowInv
<1>3. CoverInv => CommittedRunCovers
  BY DEF CoverInv, RowInv, RowsBelongToTransactions, SeenIsVisible, Visible,
         CommittedRunCovers, InTransaction
<1> QED
  BY <1>1, <1>2, <1>3, PTL DEF Spec

-----------------------------------------------------------------------------
(* Runs that are alone.  Inductive with: transactions that coexist overlap *)
(* each other, and to a run that is alone its lookup is never stale.       *)
OverlapIsNoticed ==
  \A q, r \in Runs :
    q # r /\ pc[q] \in InTransaction /\ pc[r] \in InTransaction => overlapped[r]

LookupIsFresh ==
  \A r \in Runs :
    pc[r] \in {"embed", "insert"} /\ ~overlapped[r] =>
      cur[r].hash \notin HashesOf(Visible(r))

SoloInv == RowInv /\ OverlapIsNoticed /\ LookupIsFresh /\ SoloRunNeverConflicts

LEMMA NextSolo ==
  ASSUME SoloInv, [Next]_vars
  PROVE  OverlapIsNoticed' /\ LookupIsFresh' /\ SoloRunNeverConflicts'
<1> USE DEF SoloInv, OverlapIsNoticed, LookupIsFresh, SoloRunNeverConflicts
<1>0. /\ TypeInv /\ RowsBelongToTransactions
      /\ pending \in [Runs -> SUBSET Document] /\ pc \in [Runs -> PC]
      /\ why \in [Runs -> Reasons] /\ overlapped \in [Runs -> BOOLEAN]
      /\ cur \in [Runs -> Working \cup {Absent}]
  BY DEF RowInv, TypeInv, TypeOK
<1>1. ASSUME NEW r \in Runs, Start(r)
      PROVE  OverlapIsNoticed' /\ LookupIsFresh' /\ SoloRunNeverConflicts'
  <2>1. /\ pc'[r] = "list" /\ pc[r] \notin InTransaction
        /\ documents' = documents /\ pending' = pending /\ cur' = cur
        /\ why'[r] = "none"
        /\ \A q \in Runs \ {r} : pc'[q] = pc[q] /\ why'[q] = why[q]
    BY <1>0, <1>1 DEF Start, InTransaction, Ended
  <2>2. /\ (\E p \in Runs \ {r} : pc[p] \in InTransaction) => overlapped'[r]
        /\ \A q \in Runs \ {r} : overlapped[q] \/ pc[q] \in InTransaction => overlapped'[q]
    BY <1>1 DEF Start
  <2>3. OverlapIsNoticed'
    BY <2>1, <2>2
  <2>4. LookupIsFresh'
    BY <2>1, <2>2 DEF InTransaction
  <2>5. SoloRunNeverConflicts'
    BY <2>1, <2>2
  <2> QED
    BY <2>3, <2>4, <2>5
<1>2. ASSUME NEW r \in Runs, Insert(r)
      PROVE  OverlapIsNoticed' /\ LookupIsFresh' /\ SoloRunNeverConflicts'
  <2>1. /\ pc'[r] = "next" /\ pc[r] \in InTransaction
        /\ documents' = documents /\ why' = why /\ overlapped' = overlapped
        /\ \A q \in Runs \ {r} :
             pc'[q] = pc[q] /\ pending'[q] = pending[q] /\ cur'[q] = cur[q]
    BY <1>0, <1>2 DEF Insert, NextFile, InTransaction
  <2> QED
    BY <2>1 DEF InTransaction, Visible
<1>3. ASSUME NEW r \in Runs, Commit(r)
      PROVE  OverlapIsNoticed' /\ LookupIsFresh' /\ SoloRunNeverConflicts'
  <2>1. /\ pc'[r] \in {"summary", "done"} /\ pc[r] \in InTransaction
        /\ why' = why /\ overlapped' = overlapped
        /\ \A q \in Runs \ {r} : pc'[q] = pc[q] /\ cur'[q] = cur[q]
    BY <1>0, <1>3 DEF Commit, InTransaction
  <2> QED
    BY <2>1 DEF InTransaction
<1>4. ASSUME NEW r \in Runs, Ends(r)
      PROVE  OverlapIsNoticed' /\ LookupIsFresh' /\ SoloRunNeverConflicts'
  <2>1. PICK reason \in Reasons : EndsWith(r, reason)
    BY <1>4 DEF Ends
  <2>2. /\ pc'[r] = "failed" /\ why'[r] = reason
        /\ documents' = documents /\ overlapped' = overlapped
        /\ \A q \in Runs \ {r} : pc'[q] = pc[q] /\ pending'[q] = pending[q]
                                 /\ cur'[q] = cur[q] /\ why'[q] = why[q]
    BY <1>0, <2>1 DEF EndsWith, Abort
  <2>3. reason \in {"conflict", "deadlock"} => overlapped[r]
    BY <1>0, <2>1 DEF EndsWith, RowsBelongToTransactions, InTransaction
  <2> QED
    BY <2>2, <2>3 DEF InTransaction, Visible
<1>5. CASE Quiet
  <2>1. /\ UNCHANGED <<documents, pending, overlapped, why>>
        /\ \A r \in Runs : QuietFor(r)
    BY <1>5 DEF Quiet
  <2>2. \A r \in Runs : pc'[r] \in InTransaction => pc[r] \in InTransaction
    BY <2>1 DEF QuietFor, InTransaction
  <2>3. OverlapIsNoticed'
    BY <2>1, <2>2
  <2>4. LookupIsFresh'
    BY <2>1 DEF QuietFor, StaysFresh, Visible, HashesOf
  <2>5. SoloRunNeverConflicts'
    BY <2>1 DEF QuietFor, InTransaction
  <2> QED
    BY <2>3, <2>4, <2>5
<1> QED
  BY <1>0, <1>1, <1>2, <1>3, <1>4, <1>5, Effects

(* A run that no other transaction overlaps never fails on the unique      *)
(* constraint and is no deadlock victim: within one run the lookup and the *)
(* flush suffice (ingest_document).                                        *)
THEOREM SoloRunsNeverConflict == Spec => []SoloRunNeverConflicts
<1>1. Init => SoloInv
  BY InitTypeOK
     DEF SoloInv, RowInv, TypeInv, Started, RowsBelongToTransactions, Init,
         OverlapIsNoticed, LookupIsFresh, SoloRunNeverConflicts, InTransaction
<1>2. SoloInv /\ [Next]_vars => SoloInv'
  BY NextTypeInv, NextRowsBelong, NextSolo DEF SoloInv, RowInv
<1>3. SoloInv => SoloRunNeverConflicts
  BY DEF SoloInv
<1> QED
  BY <1>1, <1>2, <1>3, PTL DEF Spec

-----------------------------------------------------------------------------
(* All or nothing.  Inductive with: a run's uncommitted rows carry its     *)
(* current attempt and are the list it will return, committed rows carry   *)
(* no attempt that is still to come, and none that is in its transaction.  *)
RowsOfAttempt ==
  /\ \A r \in Runs : \A d \in pending[r] : AttemptOf(d) = <<r, attempt[r]>>
  /\ \A d \in documents : \A r \in Runs, n \in Nat :
       AttemptOf(d) = <<r, n>> => n <= attempt[r]

ListIsPending ==
  \A r \in Runs : pc[r] \in InTransaction => new[r] = pending[r]

BatchInv == RowInv /\ RowsOfAttempt /\ ListIsPending /\ AllOrNothing

LEMMA NextBatch ==
  ASSUME BatchInv, [Next]_vars
  PROVE  RowsOfAttempt' /\ ListIsPending' /\ AllOrNothing'
<1> USE DEF BatchInv, RowsOfAttempt, ListIsPending
<1>0. /\ TypeInv /\ RowsBelongToTransactions
      /\ pending \in [Runs -> SUBSET Document] /\ pc \in [Runs -> PC]
      /\ new \in [Runs -> SUBSET Document] /\ attempt \in [Runs -> 0..MaxAttempts]
      /\ why \in [Runs -> Reasons] /\ documents \subseteq Document
      /\ MaxAttempts \in Nat /\ \A r \in Runs : attempt[r] \in Nat
  BY IngestionAssumption DEF RowInv, TypeInv, TypeOK
<1>1. ASSUME NEW r \in Runs, Start(r)
      PROVE  RowsOfAttempt' /\ ListIsPending' /\ AllOrNothing'
  <2>1. /\ documents' = documents /\ pending' = pending
        /\ pending[r] = {} /\ new'[r] = {} /\ pc'[r] = "list"
        /\ attempt'[r] = attempt[r] + 1
        /\ \A q \in Runs \ {r} : attempt'[q] = attempt[q] /\ pc'[q] = pc[q]
                                 /\ new'[q] = new[q] /\ why'[q] = why[q]
    BY <1>0, <1>1 DEF Start, RowsBelongToTransactions, InTransaction, Ended
  <2>2. DocumentsOf(r)' = {}
    <3> SUFFICES ASSUME NEW d \in documents, AttemptOf(d) = <<r, attempt[r] + 1>>
                 PROVE  FALSE
      BY <2>1 DEF DocumentsOf, AttemptOf
    <3>1. attempt[r] + 1 \in Nat /\ ~(attempt[r] + 1 <= attempt[r])
      BY <1>0
    <3> QED
      BY <3>1
  <2>3. \A q \in Runs \ {r} : DocumentsOf(q)' = DocumentsOf(q)
    BY <2>1 DEF DocumentsOf, AttemptOf
  <2>4. RowsOfAttempt'
    <3>1. \A q \in Runs : \A d \in pending'[q] : AttemptOf(d) = <<q, attempt'[q]>>
      BY <2>1
    <3>2. \A q \in Runs : attempt[q] <= attempt'[q] /\ attempt[q] \in Nat /\ attempt'[q] \in Nat
      BY <1>0, <2>1
    <3>3. ASSUME NEW d \in documents', NEW q \in Runs, NEW n \in Nat,
                 AttemptOf(d) = <<q, n>>
          PROVE  n <= attempt'[q]
      BY <2>1, <3>2, <3>3
    <3> QED
      BY <3>1, <3>3 DEF AttemptOf
  <2>5. AllOrNothing'
    BY <2>1, <2>2, <2>3 DEF AllOrNothing, InTransaction
  <2> QED
    BY <2>1, <2>4, <2>5
<1>2. ASSUME NEW r \in Runs, Insert(r)
      PROVE  RowsOfAttempt' /\ ListIsPending' /\ AllOrNothing'
  <2> DEFINE n == NewDocument(r)
  <2>1. /\ documents' = documents /\ attempt' = attempt /\ why' = why
        /\ pc'[r] = "next" /\ pc[r] = "insert"
        /\ pending'[r] = pending[r] \cup {n} /\ new'[r] = new[r] \cup {n}
        /\ \A q \in Runs \ {r} :
             pc'[q] = pc[q] /\ pending'[q] = pending[q] /\ new'[q] = new[q]
    BY <1>0, <1>2 DEF Insert, NextFile
  <2>2. AttemptOf(n) = <<r, attempt[r]>>
    BY DEF NewDocument, AttemptOf
  <2> HIDE DEF n
  <2>3. \A q \in Runs : DocumentsOf(q)' = DocumentsOf(q)
    BY <2>1 DEF DocumentsOf, AttemptOf
  <2>4. RowsOfAttempt'
    BY <2>1, <2>2 DEF AttemptOf
  <2>5. ListIsPending'
    BY <2>1 DEF InTransaction
  <2>6. AllOrNothing'
    BY <2>1, <2>3 DEF AllOrNothing, InTransaction
  <2> QED
    BY <2>4, <2>5, <2>6
<1>3. ASSUME NEW r \in Runs, Commit(r)
      PROVE  RowsOfAttempt' /\ ListIsPending' /\ AllOrNothing'
  <2>1. /\ documents' = documents \cup pending[r]
        /\ attempt' = attempt /\ why' = why /\ new' = new
        /\ pc'[r] \in {"summary", "done"} /\ pc[r] \in InTransaction
        /\ pending'[r] = {}
        /\ \A q \in Runs \ {r} : pc'[q] = pc[q] /\ pending'[q] = pending[q]
    BY <1>0, <1>3 DEF Commit, InTransaction
  <2>2. DocumentsOf(r)' = new[r]
    <3>1. DocumentsOf(r) = {} /\ new[r] = pending[r]
      BY <2>1 DEF AllOrNothing
    <3> QED
      BY <2>1, <3>1 DEF DocumentsOf, AttemptOf
  <2>3. \A q \in Runs \ {r} : DocumentsOf(q)' = DocumentsOf(q)
    <3>1. ASSUME NEW q \in Runs \ {r}, NEW d \in pending[r]
          PROVE  AttemptOf(d) # <<q, attempt[q]>>
      BY <3>1
    <3> QED
      BY <2>1, <3>1 DEF DocumentsOf, AttemptOf
  <2>4. RowsOfAttempt'
    <3>1. \A q \in Runs : \A d \in pending'[q] : AttemptOf(d) = <<q, attempt'[q]>>
      BY <2>1
    <3>2. ASSUME NEW d \in documents', NEW q \in Runs, NEW k \in Nat,
                 AttemptOf(d) = <<q, k>>
          PROVE  k <= attempt'[q]
      <4>1. CASE d \in documents
        BY <2>1, <3>2, <4>1
      <4>2. CASE d \in pending[r]
        BY <1>0, <2>1, <3>2, <4>2
      <4> QED
        BY <2>1, <4>1, <4>2
    <3> QED
      BY <3>1, <3>2 DEF AttemptOf
  <2>5. ListIsPending'
    BY <2>1 DEF InTransaction
  <2>6. AllOrNothing'
    BY <2>1, <2>2, <2>3 DEF AllOrNothing, InTransaction
  <2> QED
    BY <2>4, <2>5, <2>6
<1>4. ASSUME NEW r \in Runs, Ends(r)
      PROVE  RowsOfAttempt' /\ ListIsPending' /\ AllOrNothing'
  <2>1. PICK reason \in Reasons : EndsWith(r, reason)
    BY <1>4 DEF Ends
  <2>2. /\ documents' = documents /\ attempt' = attempt /\ new' = new
        /\ pc'[r] = "failed" /\ why'[r] = reason /\ pending'[r] = {}
        /\ \A q \in Runs \ {r} :
             pc'[q] = pc[q] /\ pending'[q] = pending[q] /\ why'[q] = why[q]
    BY <1>0, <2>1 DEF EndsWith, Abort
  <2>3. \A q \in Runs : DocumentsOf(q)' = DocumentsOf(q)
    BY <2>2 DEF DocumentsOf, AttemptOf
  <2>4. pc[r] \in InTransaction \/ (pc[r] = "summary" /\ reason \in {"summary", "crash"})
    BY <2>1 DEF EndsWith
  <2>5. AllOrNothing'
    BY <2>2, <2>3, <2>4 DEF AllOrNothing, InTransaction
  <2>6. RowsOfAttempt'
    BY <2>2 DEF AttemptOf
  <2> QED
    BY <2>2, <2>5, <2>6 DEF InTransaction
<1>5. CASE Quiet
  <2>1. /\ UNCHANGED <<documents, pending, attempt, new, why>>
        /\ \A r \in Runs : QuietFor(r)
    BY <1>5 DEF Quiet
  <2>2. \A r \in Runs : DocumentsOf(r)' = DocumentsOf(r)
    BY <2>1 DEF DocumentsOf, AttemptOf
  <2>3. RowsOfAttempt'
    BY <2>1 DEF AttemptOf
  <2>4. ListIsPending'
    BY <2>1 DEF QuietFor, InTransaction
  <2>5. AllOrNothing'
    BY <2>1, <2>2 DEF AllOrNothing, QuietFor, InTransaction
  <2> QED
    BY <2>3, <2>4, <2>5
<1> QED
  BY <1>0, <1>1, <1>2, <1>3, <1>4, <1>5, Effects

LEMMA BatchInvariant == Spec => []BatchInv
<1>1. Init => BatchInv
  BY InitTypeOK
     DEF BatchInv, RowInv, TypeInv, Started, RowsBelongToTransactions, Init,
         RowsOfAttempt, ListIsPending, AllOrNothing, DocumentsOf, InTransaction
<1>2. BatchInv /\ [Next]_vars => BatchInv'
  BY NextTypeInv, NextRowsBelong, NextBatch DEF BatchInv, RowInv
<1> QED
  BY <1>1, <1>2, PTL DEF Spec

(* An attempt commits all the documents it lists or none, and one that     *)
(* failed left none unless it was killed or could not count the chunks     *)
(* after its commit (seed/seed.py, evaluation/runner.py: one commit after  *)
(* ingest_directory).                                                      *)
THEOREM AttemptsAreAtomic == Spec => []AllOrNothing
<1>1. BatchInv => AllOrNothing
  BY DEF BatchInv
<1> QED
  BY <1>1, BatchInvariant, PTL

-----------------------------------------------------------------------------
(* The steps again, the failures and the skips taken together.             *)
Skips(r) ==
  \E p \in Paths : NextFile(r, p) /\ UNCHANGED <<documents, pending, new>>
                   /\ pc[r] \in InTransaction \ {"list"}

LEMMA StepKinds ==
  ASSUME TypeInv, [Next]_vars
  PROVE  \/ \E r \in Runs :
              \/ Start(r) \/ ListDirectory(r) \/ NotStored(r) \/ Embed(r) \/ Summarise(r)
              \/ ParseText(r) \/ ReadPdf(r) \/ ParsePdf(r) \/ Insert(r) \/ Commit(r)
              \/ Skips(r)
              \/ \E reason \in Reasons : Abort(r, reason)
         \/ \E p \in Paths : EditFile(p)
         \/ UNCHANGED vars
<1>1. ASSUME NEW r \in Runs, SkipRejected(r) PROVE Skips(r)
  <2>1. pc[r] = "pdf" => cur[r].path \in Paths
    BY DEF TypeInv, TypeOK, Holding, Working
  <2> QED
    BY <1>1, <2>1 DEF SkipRejected, Skips, Opens, InTransaction, TypeInv, TypeOK
<1>2. ASSUME NEW r \in Runs, SkipStored(r) PROVE Skips(r)
  <2>1. cur[r].path \in Paths
    BY <1>2 DEF SkipStored, TypeInv, TypeOK, Holding, Working
  <2> QED
    BY <1>2, <2>1 DEF SkipStored, Skips, InTransaction
<1>3. ASSUME NEW r \in Runs,
             \/ ParseRaises(r) \/ ConfigRefused(r) \/ InsertConflicts(r)
             \/ DeadlockDetected(r) \/ Error(r) \/ Crash(r)
      PROVE  \E reason \in Reasons : Abort(r, reason)
  BY <1>3, ErrorEnds DEF ParseRaises, ConfigRefused, InsertConflicts, DeadlockDetected,
                         Crash, Fails, Reasons
<1> QED
  BY <1>1, <1>2, <1>3 DEF Next, Step

-----------------------------------------------------------------------------
(* Text and hash.  Inductive with: what a run holds, and what it has       *)
(* flushed, is from one reading of the file, or of an unchanged file.      *)
OfOneFile(path, hash, words) == words = hash \/ (path \in Pdfs /\ edits > 0)

HeldIsOfOneFile ==
  \A r \in Runs :
    /\ pc[r] \in Holding => OfOneFile(cur[r].path, cur[r].hash, cur[r].text)
    /\ pc[r] = "pdf" => /\ cur[r].path \in Pdfs
                        /\ edits = 0 => disk[cur[r].path] = cur[r].hash

PendingIsOfOneFile ==
  \A r \in Runs : \A d \in pending[r] : OfOneFile(d.id[2], d.hash, d.text)

TextInv == TypeInv /\ HeldIsOfOneFile /\ PendingIsOfOneFile /\ TextIsOfHash

(* A step that reads nothing leaves what is held, or drops it.             *)
LEMMA HeldStays ==
  ASSUME TypeInv, HeldIsOfOneFile, UNCHANGED files,
         \A q \in Runs : pc'[q] \in Holding =>
           cur'[q] = cur[q] /\ pc[q] \in Holding /\ (pc'[q] = "pdf" => pc[q] = "pdf")
  PROVE  HeldIsOfOneFile'
  BY DEF HeldIsOfOneFile, OfOneFile, Holding, files

LEMMA NextText ==
  ASSUME TextInv, [Next]_vars
  PROVE  HeldIsOfOneFile' /\ PendingIsOfOneFile' /\ TextIsOfHash'
<1> USE DEF TextInv
<1>0. /\ pc \in [Runs -> PC] /\ pending \in [Runs -> SUBSET Document]
      /\ cur \in [Runs -> Working \cup {Absent}] /\ edits \in Nat
  BY IngestionAssumption DEF TypeInv, TypeOK
<1>a. ASSUME UNCHANGED <<documents, pending, files>>
      PROVE  PendingIsOfOneFile' /\ TextIsOfHash'
  BY <1>a DEF PendingIsOfOneFile, TextIsOfHash, OfOneFile, files
<1>1. ASSUME NEW r \in Runs, Start(r) \/ ListDirectory(r) \/ NotStored(r) \/ Embed(r) \/ Summarise(r)
      PROVE  HeldIsOfOneFile' /\ PendingIsOfOneFile' /\ TextIsOfHash'
  <2>1. UNCHANGED <<documents, pending, files>>
    BY <1>1 DEF Start, ListDirectory, NotStored, Embed, Summarise
  <2>2. \A q \in Runs : pc'[q] \in Holding =>
          cur'[q] = cur[q] /\ pc[q] \in Holding /\ (pc'[q] = "pdf" => pc[q] = "pdf")
    BY <1>0, <1>1 DEF Start, ListDirectory, NotStored, Embed, Summarise, Holding
  <2> QED
    BY <1>a, <2>1, <2>2, HeldStays DEF files
<1>2. ASSUME NEW r \in Runs, ParseText(r)
      PROVE  HeldIsOfOneFile' /\ PendingIsOfOneFile' /\ TextIsOfHash'
  <2>1. PICK p \in todo[r] \ Pdfs :
          /\ cur' = [cur EXCEPT ![r] = [path |-> p, hash |-> disk[p], text |-> disk[p]]]
          /\ pc' = [pc EXCEPT ![r] = "check"]
          /\ UNCHANGED <<files, documents, pending>>
    BY <1>2 DEF ParseText
  <2> QED
    BY <1>0, <1>a, <2>1 DEF HeldIsOfOneFile, OfOneFile, files
<1>3. ASSUME NEW r \in Runs, ReadPdf(r)
      PROVE  HeldIsOfOneFile' /\ PendingIsOfOneFile' /\ TextIsOfHash'
  <2>1. PICK p \in todo[r] \cap Pdfs :
          /\ cur' = [cur EXCEPT ![r] = [path |-> p, hash |-> disk[p], text |-> disk[p]]]
          /\ pc' = [pc EXCEPT ![r] = "pdf"]
          /\ UNCHANGED <<files, documents, pending>>
    BY <1>3 DEF ReadPdf
  <2> QED
    BY <1>0, <1>a, <2>1 DEF HeldIsOfOneFile, OfOneFile, files
<1>4. ASSUME NEW r \in Runs, ParsePdf(r)
      PROVE  HeldIsOfOneFile' /\ PendingIsOfOneFile' /\ TextIsOfHash'
  <2>1. /\ pc[r] = "pdf" /\ pc' = [pc EXCEPT ![r] = "check"]
        /\ cur' = [cur EXCEPT ![r].text = disk[cur[r].path]]
        /\ UNCHANGED <<files, documents, pending>>
    BY <1>4 DEF ParsePdf
  <2>2. cur[r] \in Working
    BY <2>1 DEF TypeInv, TypeOK, Holding
  <2>3. /\ cur'[r].path = cur[r].path /\ cur'[r].hash = cur[r].hash
        /\ cur'[r].text = disk[cur[r].path]
        /\ \A q \in Runs \ {r} : cur'[q] = cur[q]
    BY <1>0, <2>1, <2>2 DEF Working
  <2>4. cur[r].path \in Pdfs /\ (edits = 0 => disk[cur[r].path] = cur[r].hash)
    BY <2>1 DEF HeldIsOfOneFile
  <2>5. OfOneFile(cur'[r].path, cur'[r].hash, cur'[r].text)
    BY <1>0, <2>3, <2>4 DEF OfOneFile
  <2> QED
    BY <1>0, <1>a, <2>1, <2>3, <2>5 DEF HeldIsOfOneFile, OfOneFile, files
<1>5. ASSUME NEW r \in Runs, Skips(r)
      PROVE  HeldIsOfOneFile' /\ PendingIsOfOneFile' /\ TextIsOfHash'
  <2>0. PICK p \in Paths : NextFile(r, p) /\ UNCHANGED <<documents, pending>>
    BY <1>5 DEF Skips
  <2>1. \A q \in Runs : pc'[q] \in Holding => cur'[q] = cur[q] /\ pc'[q] = pc[q]
    BY <1>0, <2>0 DEF NextFile, Holding
  <2> QED
    BY <1>a, <2>0, <2>1, HeldStays DEF NextFile
<1>6. ASSUME NEW r \in Runs, Insert(r)
      PROVE  HeldIsOfOneFile' /\ PendingIsOfOneFile' /\ TextIsOfHash'
  <2>1. /\ pc[r] = "insert" /\ NextFile(r, cur[r].path) /\ documents' = documents
        /\ pending' = [pending EXCEPT ![r] = @ \cup {NewDocument(r)}]
    BY <1>6 DEF Insert
  <2>2. \A q \in Runs : pc'[q] \in Holding => cur'[q] = cur[q] /\ pc'[q] = pc[q]
    BY <1>0, <2>1 DEF NextFile, Holding
  <2>3. HeldIsOfOneFile'
    BY <2>1, <2>2, HeldStays DEF NextFile
  <2>4. OfOneFile(NewDocument(r).id[2], NewDocument(r).hash, NewDocument(r).text)
    BY <2>1 DEF HeldIsOfOneFile, Holding, NewDocument
  <2>5. edits' = edits
    BY <2>1 DEF NextFile, files
  <2> QED
    BY <1>0, <2>1, <2>3, <2>4, <2>5 DEF PendingIsOfOneFile, TextIsOfHash, OfOneFile
<1>7. ASSUME NEW r \in Runs, Commit(r)
      PROVE  HeldIsOfOneFile' /\ PendingIsOfOneFile' /\ TextIsOfHash'
  <2>1. \A q \in Runs : pc'[q] \in Holding => cur'[q] = cur[q] /\ pc'[q] = pc[q]
    BY <1>0, <1>7 DEF Commit, Holding
  <2>2. HeldIsOfOneFile'
    BY <1>7, <2>1, HeldStays DEF Commit
  <2> QED
    BY <1>0, <1>7, <2>2 DEF Commit, files, PendingIsOfOneFile, TextIsOfHash, OfOneFile
<1>8. ASSUME NEW r \in Runs, NEW reason \in Reasons, Abort(r, reason)
      PROVE  HeldIsOfOneFile' /\ PendingIsOfOneFile' /\ TextIsOfHash'
  <2>1. \A q \in Runs : pc'[q] \in Holding => cur'[q] = cur[q] /\ pc'[q] = pc[q]
    BY <1>0, <1>8 DEF Abort, Holding
  <2>2. HeldIsOfOneFile'
    BY <1>8, <2>1, HeldStays DEF Abort
  <2> QED
    BY <1>0, <1>8, <2>2 DEF Abort, files, PendingIsOfOneFile, TextIsOfHash, OfOneFile
<1>9. ASSUME NEW p \in Paths, EditFile(p)
      PROVE  HeldIsOfOneFile' /\ PendingIsOfOneFile' /\ TextIsOfHash'
  <2>1. /\ UNCHANGED <<documents, pending, pc, cur>>
        /\ edits' > 0 /\ edits' # 0
    BY <1>0, <1>9 DEF EditFile
  <2> QED
    BY <2>1 DEF HeldIsOfOneFile, PendingIsOfOneFile, TextIsOfHash, OfOneFile
<1>10. CASE UNCHANGED vars
  BY <1>10 DEF vars, HeldIsOfOneFile, PendingIsOfOneFile, TextIsOfHash, OfOneFile
<1> QED
  BY <1>1, <1>2, <1>3, <1>4, <1>5, <1>6, <1>7, <1>8, <1>9, <1>10, StepKinds

(* No document has the text of other bytes than its hash, except of a PDF  *)
(* and after a change of a file, however long it is embedded and whatever  *)
(* is skipped (the parsers read a file once, PdfParser twice).             *)
THEOREM TextAlwaysOfHash == Spec => []TextIsOfHash
<1>1. Init => TextInv
  BY InitTypeOK DEF TextInv, TypeInv, Started, Init, HeldIsOfOneFile, PendingIsOfOneFile,
                    TextIsOfHash, Holding
<1>2. TextInv /\ [Next]_vars => TextInv'
  BY NextTypeInv, NextText DEF TextInv
<1>3. TextInv => TextIsOfHash
  BY DEF TextInv
<1> QED
  BY <1>1, <1>2, <1>3, PTL DEF Spec

-----------------------------------------------------------------------------
(* The seed CLI's listing.  Inductive with: while no file is changed, what *)
(* is listed, held and new is in it.                                       *)
Considered(r) ==
  /\ pc[r] = "list" => Listing(r) \subseteq considered[r]
  /\ pc[r] \in InTransaction \ {"list"} => todo[r] \subseteq considered[r]
  /\ pc[r] \in Holding => cur[r].path \in considered[r]
  /\ pc[r] \in InTransaction \cup {"summary", "done"} =>
       \A d \in new[r] : d.id[2] \in considered[r]

ListedInv == TypeInv /\ (edits = 0 => \A r \in Seeds : Considered(r))

(* What run r does leaves the others' progress alone.                      *)
LEMMA ConsideredStays ==
  ASSUME NEW q \in Runs, Considered(q), disk' = disk,
         pc'[q] = pc[q], todo'[q] = todo[q], cur'[q] = cur[q], new'[q] = new[q],
         considered'[q] = considered[q]
  PROVE  Considered(q)'
  BY DEF Considered, Listing

LEMMA NextListed ==
  ASSUME ListedInv, [Next]_vars, edits' = 0
  PROVE  \A q \in Seeds : Considered(q)'
<1> USE DEF ListedInv
<1>0. /\ pc \in [Runs -> PC] /\ todo \in [Runs -> SUBSET Paths]
      /\ cur \in [Runs -> Working \cup {Absent}] /\ new \in [Runs -> SUBSET Document]
      /\ considered \in [Runs -> SUBSET Paths] /\ edits \in Nat /\ Seeds \subseteq Runs
  BY IngestionAssumption DEF TypeInv, TypeOK
<1>1. edits = 0 /\ ~\E p \in Paths : EditFile(p)
  <2>1. ASSUME NEW p \in Paths, EditFile(p) PROVE FALSE
    BY <1>0, <2>1 DEF EditFile
  <2>2. edits' = edits
    BY <2>1, StepKinds
       DEF Start, ListDirectory, NotStored, Embed, Summarise, ParseText, ReadPdf, ParsePdf,
           Insert, Commit, Skips, NextFile, Abort, files, vars
  <2> QED
    BY <2>1, <2>2
<1>2. \A q \in Seeds : Considered(q)
  BY <1>1
<1> SUFFICES ASSUME NEW q \in Seeds PROVE Considered(q)'
  OBVIOUS
<1>3. q \in Runs /\ Considered(q)
  BY <1>0, <1>2
<1>4. ASSUME NEW r \in Runs, Start(r) PROVE Considered(q)'
  <2>1. CASE q = r
    BY <1>0, <1>4, <2>1 DEF Start, files, Considered, Listing, InTransaction, Holding
  <2>2. CASE q # r
    BY <1>0, <1>3, <1>4, <2>2, ConsideredStays DEF Start, files
  <2> QED
    BY <2>1, <2>2
<1>5. ASSUME NEW r \in Runs, ListDirectory(r) PROVE Considered(q)'
  <2>1. CASE q = r
    BY <1>0, <1>3, <1>5, <2>1
       DEF ListDirectory, files, Considered, Listing, InTransaction, Holding
  <2>2. CASE q # r
    BY <1>0, <1>3, <1>5, <2>2, ConsideredStays DEF ListDirectory, files
  <2> QED
    BY <2>1, <2>2
<1>6. ASSUME NEW r \in Runs, NotStored(r) \/ Embed(r) \/ Summarise(r) PROVE Considered(q)'
  <2>1. CASE q = r
    BY <1>0, <1>3, <1>6, <2>1
       DEF NotStored, Embed, Summarise, files, Considered, InTransaction, Holding
  <2>2. CASE q # r
    BY <1>0, <1>3, <1>6, <2>2, ConsideredStays DEF NotStored, Embed, Summarise, files
  <2> QED
    BY <2>1, <2>2
<1>7. ASSUME NEW r \in Runs, ParseText(r) \/ ReadPdf(r) PROVE Considered(q)'
  <2>1. PICK p \in todo[r] :
          /\ cur' = [cur EXCEPT ![r] = [path |-> p, hash |-> disk[p], text |-> disk[p]]]
          /\ pc[r] = "next"
          /\ pc' = [pc EXCEPT ![r] = "check"] \/ pc' = [pc EXCEPT ![r] = "pdf"]
          /\ UNCHANGED <<files, todo, new, considered>>
    BY <1>7 DEF ParseText, ReadPdf, Opens
  <2>2. CASE q = r
    BY <1>0, <1>3, <2>1, <2>2 DEF files, Considered, InTransaction, Holding
  <2>3. CASE q # r
    BY <1>0, <1>3, <2>1, <2>3, ConsideredStays DEF files
  <2> QED
    BY <2>2, <2>3
<1>8. ASSUME NEW r \in Runs, ParsePdf(r) PROVE Considered(q)'
  <2>1. /\ pc[r] = "pdf" /\ pc' = [pc EXCEPT ![r] = "check"]
        /\ cur' = [cur EXCEPT ![r].text = disk[cur[r].path]]
        /\ UNCHANGED <<files, todo, new, considered>>
    BY <1>8 DEF ParsePdf
  <2>2. cur[r] \in Working
    BY <2>1 DEF TypeInv, TypeOK, Holding
  <2>3. cur'[r].path = cur[r].path /\ (q # r => cur'[q] = cur[q])
    BY <1>0, <1>3, <2>1, <2>2 DEF Working
  <2>4. CASE q = r
    BY <1>0, <1>3, <2>1, <2>3, <2>4 DEF files, Considered, InTransaction, Holding
  <2>5. CASE q # r
    BY <1>0, <1>3, <2>1, <2>3, <2>5, ConsideredStays DEF files
  <2> QED
    BY <2>4, <2>5
<1>9. ASSUME NEW r \in Runs, Skips(r) PROVE Considered(q)'
  <2>1. PICK p \in Paths : NextFile(r, p) /\ UNCHANGED new /\ pc[r] \in InTransaction \ {"list"}
    BY <1>9 DEF Skips
  <2>2. CASE q = r
    BY <1>0, <1>3, <2>1, <2>2 DEF NextFile, files, Considered, InTransaction, Holding
  <2>3. CASE q # r
    BY <1>0, <1>3, <2>1, <2>3, ConsideredStays DEF NextFile, files
  <2> QED
    BY <2>2, <2>3
<1>10. ASSUME NEW r \in Runs, Insert(r) PROVE Considered(q)'
  <2>1. /\ pc[r] = "insert" /\ NextFile(r, cur[r].path)
        /\ new' = [new EXCEPT ![r] = @ \cup {NewDocument(r)}]
        /\ NewDocument(r).id[2] = cur[r].path
    BY <1>10 DEF Insert, NewDocument
  <2>2. CASE q = r
    BY <1>0, <1>3, <2>1, <2>2 DEF NextFile, files, Considered, InTransaction, Holding
  <2>3. CASE q # r
    BY <1>0, <1>3, <2>1, <2>3, ConsideredStays DEF NextFile, files
  <2> QED
    BY <2>2, <2>3
<1>11. ASSUME NEW r \in Runs, Commit(r) PROVE Considered(q)'
  <2>1. CASE q = r
    BY <1>0, <1>3, <1>11, <2>1 DEF Commit, files, Considered, InTransaction, Holding
  <2>2. CASE q # r
    BY <1>0, <1>3, <1>11, <2>2, ConsideredStays DEF Commit, files
  <2> QED
    BY <2>1, <2>2
<1>12. ASSUME NEW r \in Runs, NEW reason \in Reasons, Abort(r, reason) PROVE Considered(q)'
  <2>1. CASE q = r
    BY <1>0, <1>3, <1>12, <2>1 DEF Abort, files, Considered, InTransaction, Holding
  <2>2. CASE q # r
    BY <1>0, <1>3, <1>12, <2>2, ConsideredStays DEF Abort, files
  <2> QED
    BY <2>1, <2>2
<1>13. CASE UNCHANGED vars
  BY <1>3, <1>13, ConsideredStays DEF vars
<1> QED
  BY <1>1, <1>4, <1>5, <1>6, <1>7, <1>8, <1>9, <1>10, <1>11, <1>12, <1>13, StepKinds

(* While nobody changes the files, the seed CLI never ingests a file that  *)
(* its summary did not consider: the difference it prints is what was      *)
(* skipped (_run in seed/seed.py and ingest_directory list separately).    *)
THEOREM NewAlwaysConsidered == Spec => []NewWereConsidered
<1>1. Init => ListedInv
  <2> SUFFICES ASSUME Init PROVE ListedInv
    OBVIOUS
  <2>1. TypeInv /\ Seeds \subseteq Runs
    BY InitTypeOK, IngestionAssumption DEF Init, TypeInv, Started
  <2>2. \A r \in Seeds : pc[r] = "idle"
    BY <2>1 DEF Init
  <2> QED
    BY <2>1, <2>2 DEF ListedInv, Considered, InTransaction, Holding
<1>2. ListedInv /\ [Next]_vars => ListedInv'
  BY NextTypeInv, NextListed DEF ListedInv
<1>3. ListedInv => NewWereConsidered
  BY DEF ListedInv, Considered, NewWereConsidered
<1> QED
  BY <1>1, <1>2, <1>3, PTL DEF Spec

-----------------------------------------------------------------------------
(* Waits.  If each run of a set waits for another one of it, some of them  *)
(* are on a cycle: in a smallest such set nobody can be left out, so that  *)
(* each run in it is waited for.                                           *)
AllWait(S) ==
  /\ S \in SUBSET Runs
  /\ S # {}
  /\ \A q \in S : \E p \in S : WaitsFor(q, p)

LEMMA SmallestWaitingSet ==
  ASSUME NEW S, AllWait(S)
  PROVE  \E C : AllWait(C) /\ \A T : AllWait(T) => Cardinality(C) <= Cardinality(T)
<1> DEFINE Sizes == {Cardinality(T) : T \in {U \in SUBSET Runs : AllWait(U)}}
<1>1. \A T \in SUBSET Runs : IsFiniteSet(T) /\ Cardinality(T) \in Nat
  BY FiniteRuns, FS_Subset, FS_CardinalityType
<1>2. Sizes \in SUBSET Nat /\ Sizes # {}
  BY <1>1 DEF AllWait
<1>3. PICK n \in Sizes : \A m \in Sizes : n <= m
  BY <1>2, LeastNat
<1>4. PICK C \in SUBSET Runs : AllWait(C) /\ Cardinality(C) = n
  BY <1>3
<1>5. \A T : AllWait(T) => Cardinality(C) <= Cardinality(T)
  BY <1>3, <1>4 DEF AllWait
<1> QED
  BY <1>4, <1>5

LEMMA AllWaitHasCycle ==
  ASSUME NEW S, AllWait(S)
  PROVE  \E r \in Runs : OnCycle(r)
<1>1. PICK C : AllWait(C) /\ \A T : AllWait(T) => Cardinality(C) <= Cardinality(T)
  BY SmallestWaitingSet
<1>2. C \in SUBSET Runs /\ IsFiniteSet(C)
  BY <1>1, FiniteRuns, FS_Subset DEF AllWait
<1>3. ASSUME NEW p \in C, \A q \in C : ~WaitsFor(q, p)
      PROVE  FALSE
  <2>1. PICK t \in C : WaitsFor(p, t)
    BY <1>1 DEF AllWait
  <2>2. t # p
    BY <1>3, <2>1
  <2>3. AllWait(C \ {p})
    BY <1>1, <1>3, <2>2 DEF AllWait
  <2>4. Cardinality(C \ {p}) = Cardinality(C) - 1 /\ Cardinality(C) \in Nat
    BY <1>2, FS_RemoveElement, FS_CardinalityType
  <2> QED
    BY <1>1, <2>3, <2>4
<1>4. \A r \in C : OnCycle(r)
  BY <1>1, <1>2, <1>3 DEF AllWait, OnCycle
<1> QED
  BY <1>1, <1>4 DEF AllWait

(* Unless a run can go on, all live runs wait, and only for live runs.     *)
LEMMA LiveRunsGoOn == RowInv => SomeRunCanGoOn
<1> SUFFICES ASSUME RowInv PROVE SomeRunCanGoOn
  OBVIOUS
<1> DEFINE Live == {r \in Runs : pc[r] \in InTransaction \cup {"summary"}}
<1> SUFFICES ASSUME Live # {},
                    \A q \in Live : pc[q] = "insert" /\ Blockers(q, cur[q].hash) # {}
             PROVE  \E q \in Live : OnCycle(q)
  BY DEF SomeRunCanGoOn
<1>1. \A r \in Runs : \A q \in Blockers(r, cur[r].hash) : q \in Live
  BY DEF RowInv, RowsBelongToTransactions, Blockers, HashesOf
<1>2. AllWait(Live)
  BY <1>1 DEF AllWait, WaitsFor, Blockers
<1>3. PICK r \in Runs : OnCycle(r)
  BY <1>2, AllWaitHasCycle
<1>4. pc[r] = "insert"
  BY <1>3 DEF OnCycle, WaitsFor
<1> QED
  BY <1>3, <1>4 DEF InTransaction

(* For any number of runs, whatever crashed or failed: the runs that have  *)
(* not ended never all wait, unless the server can break their cycle.      *)
THEOREM IngestionNeverStuck == Spec => []SomeRunCanGoOn
  BY RowInvariant, LiveRunsGoOn, PTL

-----------------------------------------------------------------------------
(* Going forward.  The file a run holds is still in its listing: it leaves *)
(* the listing when the run is through with it.                            *)
HeldIsListed ==
  \A r \in Runs : pc[r] \in Holding => cur[r].path \in todo[r]

ForwardInv == TypeInv /\ HeldIsListed

(* What a step does to one run: nothing, a start, the listing, opening a   *)
(* listed file, a later stage with the same file, the next file, an end.   *)
Moves(r) ==
  \/ pc'[r] = pc[r] /\ todo'[r] = todo[r] /\ cur'[r] = cur[r]
  \/ pc'[r] = "list" /\ attempt'[r] > attempt[r]
  \/ pc[r] = "list" /\ pc'[r] = "next"
  \/ /\ pc[r] = "next" /\ pc'[r] \in {"pdf", "check"}
     /\ todo'[r] = todo[r] /\ cur'[r].path \in todo[r]
  \/ /\ pc[r] \in Holding /\ pc'[r] \in Holding /\ Stage[pc'[r]] > Stage[pc[r]]
     /\ todo'[r] = todo[r] /\ cur'[r].path = cur[r].path
  \/ pc'[r] = "next" /\ \E p \in todo[r] : todo'[r] = todo[r] \ {p}
  \/ /\ pc'[r] \in {"summary", "failed", "done"} /\ Stage[pc'[r]] > Stage[pc[r]]
     /\ todo'[r] \subseteq todo[r]

LEMMA AbortMoves ==
  ASSUME TypeInv, NEW r \in Runs, NEW reason \in Reasons, Abort(r, reason),
         pc[r] \in InTransaction \cup {"summary"}
  PROVE  \A q \in Runs : Moves(q)
<1>1. /\ pc'[r] = "failed" /\ todo'[r] = {}
      /\ \A q \in Runs \ {r} : pc'[q] = pc[q] /\ todo'[q] = todo[q] /\ cur'[q] = cur[q]
  BY DEF Abort, TypeInv, TypeOK
<1>2. Stage[pc'[r]] > Stage[pc[r]]
  BY <1>1 DEF InTransaction, Stage
<1> QED
  BY <1>1, <1>2 DEF Moves

LEMMA NextFileMoves ==
  ASSUME TypeInv, NEW r \in Runs, NEW p \in todo[r], NextFile(r, p)
  PROVE  \A q \in Runs : Moves(q)
<1>1. /\ pc'[r] = "next" /\ todo'[r] = todo[r] \ {p}
      /\ \A q \in Runs \ {r} : pc'[q] = pc[q] /\ todo'[q] = todo[q] /\ cur'[q] = cur[q]
  BY DEF NextFile, TypeInv, TypeOK
<1> QED
  BY <1>1 DEF Moves

LEMMA RunsMove ==
  ASSUME ForwardInv, [Next]_vars
  PROVE  \A q \in Runs : Moves(q)
<1> USE DEF ForwardInv
<1>0. \A r \in Runs : pc[r] \in Holding => cur[r].path \in todo[r]
  BY DEF HeldIsListed
<1>1. ASSUME NEW r \in Runs, Start(r) PROVE \A q \in Runs : Moves(q)
  <2>1. attempt'[r] = attempt[r] + 1 /\ attempt[r] \in Nat /\ pc'[r] = "list"
    BY <1>1, IngestionAssumption DEF Start, TypeInv, TypeOK
  <2>2. \A q \in Runs \ {r} : pc'[q] = pc[q] /\ todo'[q] = todo[q] /\ cur'[q] = cur[q]
    BY <1>1 DEF Start, TypeInv, TypeOK
  <2> QED
    BY <2>1, <2>2 DEF Moves
<1>2. ASSUME NEW r \in Runs, ListDirectory(r) PROVE \A q \in Runs : Moves(q)
  BY <1>2 DEF ListDirectory, Moves, TypeInv, TypeOK
<1>3. ASSUME NEW r \in Runs, ParseText(r) \/ ReadPdf(r) PROVE \A q \in Runs : Moves(q)
  <2>1. /\ pc[r] = "next" /\ pc'[r] \in {"pdf", "check"}
        /\ todo'[r] = todo[r] /\ cur'[r].path \in todo[r]
    BY <1>3 DEF ParseText, ReadPdf, Opens, TypeInv, TypeOK
  <2>2. \A q \in Runs \ {r} : pc'[q] = pc[q] /\ todo'[q] = todo[q] /\ cur'[q] = cur[q]
    BY <1>3 DEF ParseText, ReadPdf, TypeInv, TypeOK
  <2> QED
    BY <2>1, <2>2 DEF Moves
<1>4. ASSUME NEW r \in Runs, ParsePdf(r) \/ NotStored(r) \/ Embed(r)
      PROVE  \A q \in Runs : Moves(q)
  <2>1. cur[r] \in Working
    BY <1>4 DEF ParsePdf, NotStored, Embed, Holding, TypeInv, TypeOK
  <2>2. cur'[r].path = cur[r].path /\ todo'[r] = todo[r]
    BY <1>4, <2>1 DEF ParsePdf, NotStored, Embed, Working, TypeInv, TypeOK
  <2>3. pc[r] \in Holding /\ pc'[r] \in Holding /\ Stage[pc'[r]] > Stage[pc[r]]
    BY <1>4 DEF ParsePdf, NotStored, Embed, Holding, Stage, TypeInv, TypeOK
  <2>4. \A q \in Runs \ {r} : pc'[q] = pc[q] /\ todo'[q] = todo[q] /\ cur'[q] = cur[q]
    BY <1>4 DEF ParsePdf, NotStored, Embed, TypeInv, TypeOK
  <2> QED
    BY <2>2, <2>3, <2>4 DEF Moves
<1>5. ASSUME NEW r \in Runs, SkipRejected(r) \/ SkipStored(r) \/ Insert(r)
      PROVE  \A q \in Runs : Moves(q)
  <2>1. PICK p \in todo[r] : NextFile(r, p)
    BY <1>0, <1>5 DEF SkipRejected, SkipStored, Insert, Holding
  <2> QED
    BY <2>1, NextFileMoves
<1>6. ASSUME NEW r \in Runs, Commit(r) \/ Summarise(r) PROVE \A q \in Runs : Moves(q)
  BY <1>6 DEF Commit, Summarise, Moves, Stage, TypeInv, TypeOK
<1>7. ASSUME NEW r \in Runs,
             \/ ParseRaises(r) \/ ConfigRefused(r) \/ InsertConflicts(r)
             \/ DeadlockDetected(r) \/ Error(r) \/ Crash(r)
      PROVE  \A q \in Runs : Moves(q)
  <2>1. PICK reason \in Reasons : Abort(r, reason)
    BY <1>7, ErrorEnds DEF ParseRaises, ConfigRefused, InsertConflicts, DeadlockDetected,
                           Crash, Fails, Reasons
  <2>2. pc[r] \in InTransaction \cup {"summary"}
    BY <1>7, ErrorEnds DEF ParseRaises, Opens, ConfigRefused, InsertConflicts,
                           DeadlockDetected, OnCycle, WaitsFor, Crash, InTransaction
  <2> QED
    BY <2>1, <2>2, AbortMoves
<1>8. ASSUME NEW p \in Paths, EditFile(p) PROVE \A q \in Runs : Moves(q)
  BY <1>8 DEF EditFile, Moves
<1>9. CASE UNCHANGED vars
  BY <1>9 DEF vars, Moves
<1> QED
  BY <1>1, <1>2, <1>3, <1>4, <1>5, <1>6, <1>7, <1>8, <1>9 DEF Next, Step

LEMMA ForwardInvariant == Spec => []ForwardInv
<1>1. Init => ForwardInv
  BY InitTypeOK DEF ForwardInv, TypeInv, Started, HeldIsListed, Init, Holding
<1>2. ASSUME ForwardInv, [Next]_vars PROVE HeldIsListed'
  <2> SUFFICES ASSUME NEW r \in Runs, pc'[r] \in Holding
               PROVE  cur'[r].path \in todo'[r]
    BY DEF HeldIsListed
  <2>1. Moves(r) /\ (pc[r] \in Holding => cur[r].path \in todo[r])
    BY <1>2, RunsMove DEF ForwardInv, HeldIsListed
  <2> QED
    BY <2>1 DEF Moves, Holding
<1>3. ForwardInv /\ [Next]_vars => ForwardInv'
  BY <1>2, NextTypeInv DEF ForwardInv
<1> QED
  BY <1>1, <1>3, PTL DEF Spec

(* However the file system changes, no attempt visits a file twice or goes *)
(* back: it takes at most five steps for each file it listed, and four     *)
(* more (ingest_directory, ingest_document, seed.py's main).               *)
THEOREM IngestionGoesForward == Spec => RunsGoForward
<1>1. ASSUME ForwardInv, Next
      PROVE  \A r \in Runs :
               \/ UNCHANGED <<pc[r], todo[r]>>
               \/ attempt'[r] > attempt[r]
               \/ /\ Stage[pc'[r]] > Stage[pc[r]]
                  /\ todo'[r] \subseteq todo[r] \/ pc[r] = "list"
               \/ todo'[r] \subseteq todo[r] /\ todo'[r] # todo[r]
  <2> SUFFICES ASSUME NEW r \in Runs
               PROVE  \/ UNCHANGED <<pc[r], todo[r]>>
                      \/ attempt'[r] > attempt[r]
                      \/ /\ Stage[pc'[r]] > Stage[pc[r]]
                         /\ todo'[r] \subseteq todo[r] \/ pc[r] = "list"
                      \/ todo'[r] \subseteq todo[r] /\ todo'[r] # todo[r]
    OBVIOUS
  <2>1. Moves(r)
    BY <1>1, RunsMove
  <2>2. pc[r] = "next" /\ pc'[r] \in {"pdf", "check"} => Stage[pc'[r]] > Stage[pc[r]]
    BY DEF Stage
  <2>3. pc[r] = "list" /\ pc'[r] = "next" => Stage[pc'[r]] > Stage[pc[r]]
    BY DEF Stage
  <2> QED
    BY <2>1, <2>2, <2>3 DEF Moves
<1> QED
  BY <1>1, ForwardInvariant, PTL DEF Spec, RunsGoForward

-----------------------------------------------------------------------------
(* Refinement.  View is what the mapping makes of the committed rows.      *)
View == {[id |-> d.id, hash |-> d.hash] : d \in documents}

LEMMA CommitPublishes ==
  ASSUME BatchInv, UniqueContentHash', NEW r \in Runs, Commit(r)
  PROVE  Store!Publish(<<r, attempt[r]>>)
<1> DEFINE a == <<r, attempt[r]>>
<1>1. /\ documents' = documents \cup pending[r]
      /\ DocumentsOf(r) = {}
      /\ \A d \in pending[r] : AttemptOf(d) = a
  BY DEF Commit, BatchInv, AllOrNothing, RowsOfAttempt, InTransaction
<1>2. documents \subseteq Document /\ pending[r] \subseteq Document
  BY DEF BatchInv, RowInv, TypeInv, TypeOK
<1>3. \A d \in Document : d.id = <<AttemptOf(d), d.id[2]>> /\ d.id[2] \in Paths /\ d.hash \in Contents
  BY DEF Document, AttemptOf
<1>4. View \cap Store!BatchOf(a) = {}
  <2> SUFFICES ASSUME NEW d \in documents, [id |-> d.id, hash |-> d.hash] \in Store!BatchOf(a)
               PROVE  FALSE
    BY DEF View
  <2>1. d.id \in {a} \X Paths
    BY DEF Store!BatchOf
  <2>2. AttemptOf(d) = a
    BY <2>1 DEF AttemptOf
  <2> QED
    BY <1>1, <2>2 DEF DocumentsOf
<1>5. View \subseteq View'
  BY <1>1 DEF View
<1>6. View' \ View \subseteq Store!BatchOf(a)
  <2> SUFFICES ASSUME NEW d \in pending[r]
               PROVE  [id |-> d.id, hash |-> d.hash] \in Store!BatchOf(a)
    BY <1>1 DEF View
  <2>1. d.id \in {a} \X Paths /\ d.hash \in Contents
    BY <1>1, <1>2, <1>3
  <2> QED
    BY <2>1 DEF Store!BatchOf
<1>7. Store!UniqueHashes(View')
  BY DEF Store!UniqueHashes, View, UniqueContentHash
<1> QED
  BY <1>4, <1>5, <1>6, <1>7 DEF Store!Publish, View

(* The pipeline implements DocumentStore: what other transactions can see  *)
(* of the documents table grows by one whole batch per attempt and keeps   *)
(* its hashes distinct (ingest_directory and its callers).                 *)
THEOREM IngestionImplementsStore == Spec => ImplementsStore
<1>1. Init => Store!StoreInit
  BY DEF Init, Store!StoreInit
<1>2. BatchInv /\ UniqueContentHash' /\ [Next]_vars => [Store!StoreNext]_View
  <2> SUFFICES ASSUME BatchInv, UniqueContentHash', [Next]_vars
               PROVE  Store!StoreNext \/ View' = View
    OBVIOUS
  <2>0. TypeInv
    BY DEF BatchInv, RowInv
  <2>1. ASSUME NEW r \in Runs, Commit(r) PROVE Store!StoreNext
    <3>1. <<r, attempt[r]>> \in AttemptId
      BY <2>0, <2>1, IngestionAssumption
         DEF Commit, TypeInv, TypeOK, Started, AttemptId
    <3>2. Store!Publish(<<r, attempt[r]>>)
      BY <2>1, CommitPublishes
    <3> QED
      BY <3>1, <3>2 DEF Store!StoreNext, Store!Publish
  <2>2. ASSUME NEW r \in Runs, Start(r) \/ Insert(r) \/ Ends(r) PROVE View' = View
    <3>1. documents' = documents
      BY <2>2 DEF Start, Insert, Ends, EndsWith, Abort
    <3> QED
      BY <3>1 DEF View
  <2>3. CASE Quiet
    BY <2>3 DEF Quiet, View
  <2> QED
    BY <2>0, <2>1, <2>2, <2>3, Effects
<1>3. BatchInv /\ UniqueContentHash' /\ [Next]_vars =>
        [Store!StoreNext]_({[id |-> d.id, hash |-> d.hash] : d \in documents})
  BY <1>2 DEF View
<1> QED
  BY <1>1, <1>3, BatchInvariant, HashesStayUnique, PTL
     DEF Spec, ImplementsStore, Store!StoreSpec

=============================================================================
