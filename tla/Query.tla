------------------------------- MODULE Query -------------------------------
(***************************************************************************)
(* The query service: requests that run concurrently in one event loop.    *)
(* A request gets its models from the accessors of Singletons, embeds its  *)
(* question in a thread of the loop's executor, checks a connection out of *)
(* the engine's pool for the search, keeps it while the answer is          *)
(* generated in a thread of the same executor, and gives it back when its  *)
(* session closes.  Meanwhile the ingestion runs of other processes        *)
(* commit; they are the environment, and do what DocumentStore lets them   *)
(* do.                                                                     *)
(***************************************************************************)
EXTENDS Singletons, FiniteSets

CONSTANTS
  Threads,   \* max_workers of the event loop's default executor
  PoolSize,  \* connections of the engine's pool, overflow included
  Attempts, Names, Hashes  \* of the document store

ASSUME QueryAssumption ==
  /\ IsFiniteSet(Requests)
  /\ Threads \in Nat \ {0}
  /\ PoolSize \in Nat \ {0}

VARIABLES
  pc,         \* where each request is
  queue,      \* the executor's queue: requests whose job has no thread yet
  running,    \* requests whose job has a thread
  connected,  \* requests whose session has a connection
  read,       \* read[r]: the documents r's search saw
  before,     \* history: the documents committed when r was received
  store       \* the committed documents

reads == <<read, before, store>>
vars == <<pc, queue, running, connected, reads, singletons>>

Documents == INSTANCE DocumentStore

Document == [id: Attempts \X Names, hash: Hashes]

Ended == {"rejected", "failed", "answered"}
InSession == {"select", "generate", "respond"}
Resolving == {"resolve", "build"}
PC == {"idle", "embed", "search"} \cup Resolving \cup InSession \cup Ended

Init ==
  /\ pc = [r \in Requests |-> "idle"]
  /\ queue = <<>>
  /\ running = {}
  /\ connected = {}
  /\ read = [r \in Requests |-> {}]
  /\ before = [r \in Requests |-> {}]
  /\ store = {}
  /\ EmptyCaches

GoTo(r, where) == pc' = [pc EXCEPT ![r] = where]

-----------------------------------------------------------------------------
(***************************************************************************)
(* The executor: jobs start in the order they were submitted.              *)
(***************************************************************************)
(* Mutant of StartJob: a started job stays in the queue.                   *)
StartJobPeeks ==
  /\ queue # <<>>
  /\ Cardinality(running) < Threads
  /\ running' = running \cup {Head(queue)}
  /\ UNCHANGED <<pc, queue, connected, reads, singletons>>

StartJob ==
  /\ queue # <<>>
  /\ Cardinality(running) < Threads
  /\ running' = running \cup {Head(queue)}
  /\ queue' = Tail(queue)
  /\ UNCHANGED <<pc, connected, reads, singletons>>

-----------------------------------------------------------------------------
(***************************************************************************)
(* One request.                                                            *)
(***************************************************************************)
(* The request arrives; FastAPI starts on get_rag_service's parameters.    *)
Receive(r) ==
  /\ pc[r] = "idle"
  /\ GoTo(r, "resolve")
  /\ before' = [before EXCEPT ![r] = store]
  /\ UNCHANGED <<queue, running, connected, read, store, singletons>>

(* An accessor returns its cached instance ...                             *)
ResolveCached(r) ==
  /\ pc[r] = "resolve"
  /\ Hit(r)
  /\ UNCHANGED <<pc, queue, running, connected, reads>>

(* ... or starts to build one ...                                          *)
StartBuild(r) ==
  /\ pc[r] = "resolve"
  /\ Miss(r)
  /\ GoTo(r, "build")
  /\ UNCHANGED <<queue, running, connected, reads>>

(* ... which takes its time: the model is loaded.                          *)
FinishBuild(r) ==
  /\ pc[r] = "build"
  /\ Build(r)
  /\ GoTo(r, "resolve")
  /\ UNCHANGED <<queue, running, connected, reads>>

(* A request that is not JSON is answered 422 before its dependencies are  *)
(* solved, one with a blank question after that.                           *)
Reject(r) ==
  /\ pc[r] = "resolve"
  /\ held[r] = <<>> \/ Resolved(r)
  /\ GoTo(r, "rejected")
  /\ UNCHANGED <<queue, running, connected, reads, singletons>>

(* The handler submits the embedding of the question.                      *)
Submit(r) ==
  /\ pc[r] = "resolve"
  /\ Resolved(r)
  /\ GoTo(r, "embed")
  /\ queue' = Append(queue, r)
  /\ UNCHANGED <<running, connected, reads, singletons>>

(* Mutant of FinishEmbed: the thread is kept for the generation.           *)
FinishEmbedKeepsThread(r) ==
  /\ pc[r] = "embed"
  /\ r \in running
  /\ GoTo(r, "search")
  /\ UNCHANGED <<queue, running, connected, reads, singletons>>

FinishEmbed(r) ==
  /\ pc[r] = "embed"
  /\ r \in running
  /\ GoTo(r, "search")
  /\ running' = running \ {r}
  /\ UNCHANGED <<queue, connected, reads, singletons>>

(* The session's first statement checks a connection out of the pool ...   *)
Connect(r) ==
  /\ pc[r] = "search"
  /\ Cardinality(connected) < PoolSize
  /\ GoTo(r, "select")
  /\ connected' = connected \cup {r}
  /\ UNCHANGED <<queue, running, reads, singletons>>

(* ... and reads what is committed; then the generation is submitted.      *)
Select(r) ==
  /\ pc[r] = "select"
  /\ GoTo(r, "generate")
  /\ read' = [read EXCEPT ![r] = store]
  /\ queue' = Append(queue, r)
  /\ UNCHANGED <<running, connected, before, store, singletons>>

(* Mutant of FinishGenerate: the result of another session's job is taken. *)
FinishGenerateMixedUp(r) ==
  /\ pc[r] = "generate"
  /\ r \in running
  /\ \E q \in connected : read' = [read EXCEPT ![r] = read[q]]
  /\ GoTo(r, "respond")
  /\ running' = running \ {r}
  /\ UNCHANGED <<queue, connected, before, store, singletons>>

FinishGenerate(r) ==
  /\ pc[r] = "generate"
  /\ r \in running
  /\ GoTo(r, "respond")
  /\ running' = running \ {r}
  /\ UNCHANGED <<queue, connected, reads, singletons>>

(* The citations are extracted, the session closes, the response is sent.  *)
Respond(r) ==
  /\ pc[r] = "respond"
  /\ GoTo(r, "answered")
  /\ connected' = connected \ {r}
  /\ UNCHANGED <<queue, running, reads, singletons>>

(* Mutant of Raise: the session is not closed when the handler raises.     *)
RaiseUnclosed(r) ==
  /\ \/ pc[r] \in {"embed", "generate"} /\ r \in running
     \/ pc[r] \in {"build", "select"}
     \/ pc[r] = "search" /\ Cardinality(connected) < PoolSize
  /\ GoTo(r, "failed")
  /\ running' = running \ {r}
  /\ UNCHANGED <<queue, connected, reads, singletons>>

(* A model, its constructor, the opening of a connection or the search     *)
(* raises: nothing is cached, the session closes, the answer is 500.       *)
Raise(r) ==
  /\ \/ pc[r] \in {"embed", "generate"} /\ r \in running
     \/ pc[r] \in {"build", "select"}
     \/ pc[r] = "search" /\ Cardinality(connected) < PoolSize
  /\ GoTo(r, "failed")
  /\ running' = running \ {r}
  /\ connected' = connected \ {r}
  /\ UNCHANGED <<queue, reads, singletons>>

(* Mutant of PoolTimeout: the handler starts over instead of giving up.    *)
PoolTimeoutRetries(r) ==
  /\ pc[r] = "search"
  /\ Cardinality(connected) >= PoolSize
  /\ GoTo(r, "resolve")
  /\ UNCHANGED <<queue, running, connected, reads, singletons>>

(* No connection came back to the pool within its timeout.                 *)
PoolTimeout(r) ==
  /\ pc[r] = "search"
  /\ Cardinality(connected) >= PoolSize
  /\ GoTo(r, "failed")
  /\ UNCHANGED <<queue, running, connected, reads, singletons>>

-----------------------------------------------------------------------------
(* An ingestion run of another process commits.                            *)
Ingested ==
  /\ \E a \in Attempts : \E batch \in SUBSET Documents!BatchOf(a) :
       /\ store' = store \cup batch
       /\ Documents!Publish(a)
  /\ UNCHANGED <<pc, queue, running, connected, read, before, singletons>>

Step(r) ==
  \/ ResolveCached(r) \/ StartBuild(r) \/ FinishBuild(r) \/ Submit(r)
  \/ FinishEmbed(r) \/ Connect(r) \/ Select(r) \/ FinishGenerate(r) \/ Respond(r)

Next ==
  \/ StartJob
  \/ \E r \in Requests :
       Receive(r) \/ Reject(r) \/ Step(r) \/ Raise(r) \/ PoolTimeout(r)
  \/ Ingested

Spec == Init /\ [][Next]_vars

(* Threads and the event loop go on: an accessor returns, a job that has a *)
(* thread returns (the generation is bounded by max_tokens), a free thread *)
(* takes the next job, a free connection is handed to a waiting request.   *)
(* Nothing is assumed of errors and of the pool's timeout.                 *)
FairSpec == Spec /\ WF_vars(StartJob) /\ \A r \in Requests : WF_vars(Step(r))

-----------------------------------------------------------------------------
(***************************************************************************)
(* Properties.                                                             *)
(***************************************************************************)
(* How far r has come: the accessors that returned, and its own stages.    *)
Stage ==
  [idle |-> 0, resolve |-> 1, build |-> 2, embed |-> 3, search |-> 4, select |-> 5,
   generate |-> 6, respond |-> 7, rejected |-> 8, failed |-> 8, answered |-> 8]
Progress(r) == 2 * Len(held[r]) + Stage[pc[r]]

(* The variables have their types, and the executor's queue is never       *)
(* longer than there are requests.                                         *)
TypeOK ==
  /\ pc \in [Requests -> PC]
  /\ queue \in Seq(Requests)
  /\ Len(queue) <= Cardinality(Requests)
  /\ running \in SUBSET Requests
  /\ connected \in SUBSET Requests
  /\ read \in [Requests -> SUBSET Document]
  /\ before \in [Requests -> SUBSET Document]
  /\ store \subseteq Document
  /\ cached \in [1..Accessors -> Requests \cup {Nobody}]
  /\ held \in [Requests -> Seq(Requests)]
  /\ \A r \in Requests :
       /\ Len(held[r]) <= Accessors
       /\ pc[r] = "build" => ~Resolved(r)

(* A connection is held exactly from the search to the end of the session, *)
(* also when a model or the database raises: none leaks out of the pool,   *)
(* so at most PoolSize requests are between their search and their end.    *)
ConnectionsAreInUse ==
  /\ connected = {r \in Requests : pc[r] \in InSession}
  /\ Cardinality(connected) <= PoolSize

(* Each request that waits for a model has exactly one job, queued or with *)
(* a thread, and no other request has any: a thread is never kept across   *)
(* the wait for a connection, and a job is never submitted twice or lost.  *)
OneJobPerWait ==
  LET queued == {queue[k] : k \in 1..Len(queue)}
  IN  /\ queued \cup running = {r \in Requests : pc[r] \in {"embed", "generate"}}
      /\ queued \cap running = {}
      /\ Cardinality(queued) = Len(queue)

(* A search sees every document that was committed before its request was  *)
(* received, and every document it saw is still stored when the answer     *)
(* that cites it is returned.                                              *)
ReadsAreCurrent ==
  \A r \in Requests :
    pc[r] \in {"generate", "respond", "answered"} =>
      before[r] \subseteq read[r] /\ read[r] \subseteq store

(* However the first calls overlap, a request is served by the shared      *)
(* instance of each accessor or by one it built itself, and what is shared *)
(* was completely built: no request sees an instance that another request  *)
(* is still building, or one whose constructor raised.                     *)
InstancesAreBuilt ==
  /\ \A r \in Requests : \A a \in 1..Len(held[r]) :
       held[r][a] \in {cached[a], r}
  /\ \A a \in 1..Accessors :
       cached[a] # Nobody => /\ a <= Len(held[cached[a]])
                             /\ held[cached[a]][a] = cached[a]

(* Once there is a shared instance, it is the shared one for good: a first *)
(* call that returns late does not replace it.                             *)
SharedInstancesStay ==
  [][\A a \in 1..Accessors : cached[a] # Nobody => cached'[a] = cached[a]]_vars

(* A client sees one response for each request, drawn from documents that  *)
(* were committed, as QueryService says.                                   *)
Service == INSTANCE QueryService WITH
  status  <- [r \in Requests |-> IF pc[r] \in {"idle"} \cup Ended THEN pc[r] ELSE "open"],
  known   <- before,
  sources <- [r \in Requests |-> IF pc[r] = "answered" THEN read[r] ELSE {}]

ImplementsService == Service!ServiceSpec

(* Requests never wait for each other in a circle: one of them may hold    *)
(* its connection while it waits for a thread, and others want connections *)
(* while threads are taken, but as long as one has not ended, a thread can *)
(* take a job or one of them can go on, without an error or a timeout.     *)
SomebodyCanGoOn ==
  (\E r \in Requests : pc[r] \notin {"idle"} \cup Ended) =>
    \/ queue # <<>> /\ Cardinality(running) < Threads
    \/ \E r \in Requests :
         \/ pc[r] \in Resolving \cup {"select", "respond"}
         \/ pc[r] \in {"embed", "generate"} /\ r \in running
         \/ pc[r] = "search" /\ Cardinality(connected) < PoolSize

(* Every step of a request brings it nearer to its end, and no other step  *)
(* moves it: nothing is tried again, whatever fails or runs out, so that a *)
(* request makes a bounded number of calls of its models and its session.  *)
RequestsGoForward ==
  [][\A r \in Requests :
       UNCHANGED <<pc[r], held[r]>> \/ Progress(r)' > Progress(r)]_vars

(* Every request that was received ends, although its two kinds of waits   *)
(* overlap (it waits for a thread while it holds a connection), and even   *)
(* if the pool's timeout never fires.                                      *)
EveryRequestEnds == \A r \in Requests : pc[r] = "resolve" ~> pc[r] \in Ended

-----------------------------------------------------------------------------
(* dependencies.py: "Singletons are lazy (built on first call, cached      *)
(* after)", and huggingface.py: "never reload per call".                   *)
OneInstance ==
  \A r, q \in Requests : \A a \in 1..Accessors :
    a <= Len(held[r]) /\ a <= Len(held[q]) => held[r][a] = held[q][a]

=============================================================================
