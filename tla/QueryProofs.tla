---------------------------- MODULE QueryProofs ----------------------------
(***************************************************************************)
(* Proofs about Query, for any number of requests, accessors, threads and  *)
(* connections, and any documents.                                         *)
(***************************************************************************)
EXTENDS Query, FiniteSetTheorems, TLAPS

-----------------------------------------------------------------------------
(* All of the type invariant but the bound on the length of the queue,     *)
(* which rests on OneJobPerWait.                                           *)
Typed ==
  /\ pc \in [Requests -> PC]
  /\ queue \in Seq(Requests)
  /\ running \in SUBSET Requests
  /\ connected \in SUBSET Requests
  /\ read \in [Requests -> SUBSET Document]
  /\ before \in [Requests -> SUBSET Document]
  /\ store \subseteq Document
  /\ cached \in [1..Accessors -> Requests \cup {Nobody}]
  /\ held \in [Requests -> Seq(Requests)]
  /\ \A r \in Requests :
       /\ Len(held[r]) <= Accessors
       /\ pc[r] = "build" => ~Resolved(r)

LEMMA InitTyped == Init => Typed
  BY QueryAssumption, SingletonsAssumption
  DEF Init, EmptyCaches, Typed, PC, Document

LEMMA GoToTyped ==
  ASSUME Typed, NEW r \in Requests, NEW where \in PC, GoTo(r, where)
  PROVE  /\ pc' \in [Requests -> PC]
         /\ pc'[r] = where
         /\ \A q \in Requests \ {r} : pc'[q] = pc[q]
  BY DEF Typed, GoTo

(* An accessor's call keeps the types of the caches and of what is held.   *)
LEMMA SingletonsTyped ==
  ASSUME Typed, NEW r \in Requests, ~Resolved(r), Hit(r) \/ Build(r)
  PROVE  /\ Wanted(r) \in 1..Accessors
         /\ Len(held[r]) \in Nat
         /\ held[r] \in Seq(Requests)
         /\ cached' \in [1..Accessors -> Requests \cup {Nobody}]
         /\ held' \in [Requests -> Seq(Requests)]
         /\ Len(held'[r]) = Wanted(r)
         /\ \A q \in Requests \ {r} : held'[q] = held[q]
         /\ \A q \in Requests : Len(held'[q]) <= Accessors
<1>1. held[r] \in Seq(Requests) /\ Len(held[r]) \in Nat
  BY DEF Typed
<1>2. Wanted(r) \in 1..Accessors
  BY <1>1, SingletonsAssumption DEF Resolved, Wanted
<1>3. \E i \in Requests : held' = [held EXCEPT ![r] = Append(@, i)]
  <2>1. CASE Hit(r)
    <3>1. cached[Wanted(r)] \in Requests
      BY <1>2, <2>1 DEF Hit, Typed
    <3> QED
      BY <2>1, <3>1 DEF Hit
  <2>2. CASE Build(r)
    BY <2>2 DEF Build
  <2> QED
    BY <2>1, <2>2
<1>4. cached' \in [1..Accessors -> Requests \cup {Nobody}]
  BY <1>2 DEF Hit, Build, Typed
<1>5. PICK i \in Requests : held' = [held EXCEPT ![r] = Append(@, i)]
  BY <1>3
<1>6. held'[r] = Append(held[r], i) /\ \A q \in Requests \ {r} : held'[q] = held[q]
  BY <1>5 DEF Typed
<1>7. Append(held[r], i) \in Seq(Requests) /\ Len(Append(held[r], i)) = Len(held[r]) + 1
  BY <1>1
<1>8. held' \in [Requests -> Seq(Requests)]
  BY <1>5, <1>7 DEF Typed
<1>9. Len(held'[r]) = Wanted(r)
  BY <1>6, <1>7 DEF Wanted
<1>10. \A q \in Requests : Len(held'[q]) <= Accessors
  <2>1. Wanted(r) <= Accessors
    BY <1>2
  <2>2. \A q \in Requests \ {r} : Len(held'[q]) <= Accessors
    BY <1>6 DEF Typed
  <2> QED
    BY <1>9, <2>1, <2>2
<1> QED
  BY <1>1, <1>2, <1>4, <1>6, <1>8, <1>9, <1>10

LEMMA NextTyped == Typed /\ [Next]_vars => Typed'
<1> SUFFICES ASSUME Typed, [Next]_vars PROVE Typed'
  OBVIOUS
<1> USE DEF PC, Resolving, InSession, Ended
<1>1. CASE StartJob
  <2>1. Head(queue) \in Requests /\ Tail(queue) \in Seq(Requests)
    BY <1>1 DEF StartJob, Typed
  <2> QED
    BY <1>1, <2>1 DEF StartJob, Typed, reads, singletons, Resolved, Wanted
<1>2. CASE Ingested
  <2>1. store' \subseteq Document
    <3>1. PICK a \in Attempts : \E batch \in SUBSET Documents!BatchOf(a) :
                                  store' = store \cup batch
      BY <1>2 DEF Ingested
    <3> QED
      BY <3>1 DEF Documents!BatchOf, Document, Typed
  <2> QED
    BY <1>2, <2>1 DEF Ingested, Typed, singletons, Resolved, Wanted
<1>3. ASSUME NEW r \in Requests,
             Receive(r) \/ Reject(r) \/ Step(r) \/ Raise(r) \/ PoolTimeout(r)
      PROVE  Typed'
  <2>1. CASE Receive(r)
    BY <2>1, GoToTyped DEF Receive, Typed, singletons, Resolved, Wanted
  <2>2. CASE ResolveCached(r)
    <3>1. ~Resolved(r)
      BY <2>2 DEF ResolveCached, Hit
    <3>2. \A q \in Requests : pc[q] = "build" => q # r
      BY <2>2 DEF ResolveCached
    <3> QED
      BY <2>2, <3>1, <3>2, SingletonsTyped
      DEF ResolveCached, Typed, reads, Resolved, Wanted
  <2>3. CASE StartBuild(r)
    BY <2>3, GoToTyped DEF StartBuild, Miss, Typed, reads, singletons, Resolved, Wanted
  <2>4. CASE FinishBuild(r)
    <3>1. ~Resolved(r)
      BY <2>4 DEF FinishBuild, Typed
    <3>2. /\ pc' \in [Requests -> PC] /\ pc'[r] = "resolve"
          /\ \A q \in Requests \ {r} : pc'[q] = pc[q]
      BY <2>4, GoToTyped DEF FinishBuild
    <3> QED
      BY <2>4, <3>1, <3>2, SingletonsTyped
      DEF FinishBuild, Typed, reads, Resolved, Wanted
  <2>5. CASE Reject(r)
    BY <2>5, GoToTyped DEF Reject, Typed, reads, singletons, Resolved, Wanted
  <2>6. CASE Submit(r)
    BY <2>6, GoToTyped DEF Submit, Typed, reads, singletons, Resolved, Wanted
  <2>7. CASE FinishEmbed(r)
    BY <2>7, GoToTyped DEF FinishEmbed, Typed, reads, singletons, Resolved, Wanted
  <2>8. CASE Connect(r)
    BY <2>8, GoToTyped DEF Connect, Typed, reads, singletons, Resolved, Wanted
  <2>9. CASE Select(r)
    BY <2>9, GoToTyped DEF Select, Typed, singletons, Resolved, Wanted
  <2>10. CASE FinishGenerate(r)
    BY <2>10, GoToTyped DEF FinishGenerate, Typed, reads, singletons, Resolved, Wanted
  <2>11. CASE Respond(r)
    BY <2>11, GoToTyped DEF Respond, Typed, reads, singletons, Resolved, Wanted
  <2>12. CASE Raise(r)
    BY <2>12, GoToTyped DEF Raise, Typed, reads, singletons, Resolved, Wanted
  <2>13. CASE PoolTimeout(r)
    BY <2>13, GoToTyped DEF PoolTimeout, Typed, reads, singletons, Resolved, Wanted
  <2> QED
    BY <1>3, <2>1, <2>2, <2>3, <2>4, <2>5, <2>6, <2>7, <2>8, <2>9, <2>10, <2>11,
       <2>12, <2>13
    DEF Step
<1>4. CASE UNCHANGED vars
  BY <1>4 DEF vars, reads, singletons, Typed, Resolved, Wanted
<1> QED
  BY <1>1, <1>2, <1>3, <1>4 DEF Next

-----------------------------------------------------------------------------
(* Requests that wait for a model, and the jobs in the executor's queue.   *)
Waiting == {r \in Requests : pc[r] \in {"embed", "generate"}}
Queued == {queue[k] : k \in 1..Len(queue)}
NoDuplicates == \A j, k \in 1..Len(queue) : queue[j] = queue[k] => j = k

JobInv ==
  /\ Queued \cup running = Waiting
  /\ Queued \cap running = {}
  /\ NoDuplicates

(* What a submission and a start do to the set of queued jobs.             *)
LEMMA Submitted ==
  ASSUME Typed, NoDuplicates, NEW r \in Requests, r \notin Queued,
         queue' = Append(queue, r)
  PROVE  Queued' = Queued \cup {r} /\ NoDuplicates'
<1>1. queue \in Seq(Requests) /\ Len(queue) \in Nat
  BY DEF Typed
<1>2. /\ Len(queue') = Len(queue) + 1
      /\ \A k \in 1..Len(queue) : queue'[k] = queue[k]
      /\ queue'[Len(queue) + 1] = r
  BY <1>1
<1>3. \A k \in 1..Len(queue') : k \in 1..Len(queue) \/ k = Len(queue) + 1
  BY <1>1, <1>2
<1>4. \A k \in 1..Len(queue) : queue[k] # r
  BY DEF Queued
<1>5. Queued' = Queued \cup {r}
  <2>1. \A q \in Queued' : q \in Queued \cup {r}
    BY <1>2, <1>3 DEF Queued
  <2>2. \A q \in Queued : q \in Queued'
    BY <1>1, <1>2 DEF Queued
  <2>3. r \in Queued'
    BY <1>1, <1>2 DEF Queued
  <2> QED
    BY <2>1, <2>2, <2>3
<1>6. NoDuplicates'
  BY <1>1, <1>2, <1>3, <1>4 DEF NoDuplicates
<1> QED
  BY <1>5, <1>6

LEMMA Started ==
  ASSUME Typed, NoDuplicates, queue # <<>>, queue' = Tail(queue)
  PROVE  /\ Queued = Queued' \cup {Head(queue)}
         /\ Head(queue) \notin Queued'
         /\ Head(queue) \in Requests
         /\ NoDuplicates'
<1>1. queue \in Seq(Requests) /\ Len(queue) \in Nat /\ Len(queue) >= 1
  BY DEF Typed
<1>2. /\ Len(queue') = Len(queue) - 1
      /\ \A k \in 1..Len(queue') : queue'[k] = queue[k + 1] /\ k + 1 \in 1..Len(queue)
      /\ Head(queue) = queue[1]
      /\ 1 \in 1..Len(queue)
  BY <1>1
<1>3. \A k \in 1..Len(queue) : k = 1 \/ (k - 1 \in 1..Len(queue') /\ queue'[k - 1] = queue[k])
  BY <1>1, <1>2
<1>4. Queued = Queued' \cup {Head(queue)}
  <2>1. \A q \in Queued : q \in Queued' \cup {Head(queue)}
    BY <1>2, <1>3 DEF Queued
  <2>2. \A q \in Queued' : q \in Queued
    BY <1>2 DEF Queued
  <2>3. Head(queue) \in Queued
    BY <1>2 DEF Queued
  <2> QED
    BY <2>1, <2>2, <2>3
<1>5. Head(queue) \notin Queued'
  <2>1. \A k \in 1..Len(queue') : queue[k + 1] # queue[1]
    BY <1>1, <1>2 DEF NoDuplicates
  <2> QED
    BY <1>2, <2>1 DEF Queued
<1>6. NoDuplicates'
  BY <1>1, <1>2 DEF NoDuplicates
<1>7. Head(queue) \in Requests
  BY <1>1
<1> QED
  BY <1>4, <1>5, <1>6, <1>7

(* Every step does one of four things to the jobs: it starts one, submits  *)
(* one for a request that begins to wait, returns the one of a request     *)
(* that stops waiting, or leaves them alone.                               *)
Begins(r) ==
  /\ r \notin Waiting /\ Waiting' = Waiting \cup {r}
  /\ queue' = Append(queue, r) /\ running' = running

Returns(r) ==
  /\ r \in running /\ Waiting' = Waiting \ {r}
  /\ queue' = queue /\ running' = running \ {r}

JobsUnchanged ==
  Waiting' = Waiting /\ queue' = queue /\ running' = running

LEMMA JobEffects ==
  ASSUME Typed, JobInv, [Next]_vars
  PROVE  StartJob \/ JobsUnchanged \/ \E r \in Requests : Begins(r) \/ Returns(r)
<1> USE DEF PC, Resolving, InSession, Ended
<1>0. running \subseteq Waiting
  BY DEF JobInv
<1>1. CASE Ingested
  BY <1>1 DEF Ingested, JobsUnchanged, Waiting
<1>2. CASE UNCHANGED vars
  BY <1>2 DEF vars, JobsUnchanged, Waiting
<1>3. ASSUME NEW r \in Requests,
             Receive(r) \/ Reject(r) \/ Step(r) \/ Raise(r) \/ PoolTimeout(r)
      PROVE  JobsUnchanged \/ Begins(r) \/ Returns(r)
  <2>1. CASE Receive(r)
    BY <2>1, GoToTyped DEF Receive, JobsUnchanged, Waiting
  <2>2. CASE ResolveCached(r)
    BY <2>2 DEF ResolveCached, JobsUnchanged, Waiting
  <2>3. CASE StartBuild(r)
    BY <2>3, GoToTyped DEF StartBuild, JobsUnchanged, Waiting
  <2>4. CASE FinishBuild(r)
    BY <2>4, GoToTyped DEF FinishBuild, JobsUnchanged, Waiting
  <2>5. CASE Reject(r)
    BY <2>5, GoToTyped DEF Reject, JobsUnchanged, Waiting
  <2>6. CASE Submit(r)
    BY <2>6, GoToTyped DEF Submit, Begins, Waiting
  <2>7. CASE FinishEmbed(r)
    BY <2>7, GoToTyped DEF FinishEmbed, Returns, Waiting
  <2>8. CASE Connect(r)
    BY <2>8, GoToTyped DEF Connect, JobsUnchanged, Waiting
  <2>9. CASE Select(r)
    BY <2>9, GoToTyped DEF Select, Begins, Waiting
  <2>10. CASE FinishGenerate(r)
    BY <2>10, GoToTyped DEF FinishGenerate, Returns, Waiting
  <2>11. CASE Respond(r)
    BY <2>11, GoToTyped DEF Respond, JobsUnchanged, Waiting
  <2>12. CASE Raise(r)
    <3>1. CASE pc[r] \in {"embed", "generate"} /\ r \in running
      BY <2>12, <3>1, GoToTyped DEF Raise, Returns, Waiting
    <3>2. CASE pc[r] \in {"build", "search", "select"}
      <4>1. r \notin running
        BY <1>0, <3>2 DEF Waiting
      <4> QED
        BY <2>12, <3>2, <4>1, GoToTyped DEF Raise, JobsUnchanged, Waiting
    <3> QED
      BY <2>12, <3>1, <3>2 DEF Raise
  <2>13. CASE PoolTimeout(r)
    BY <2>13, GoToTyped DEF PoolTimeout, JobsUnchanged, Waiting
  <2> QED
    BY <1>3, <2>1, <2>2, <2>3, <2>4, <2>5, <2>6, <2>7, <2>8, <2>9, <2>10, <2>11,
       <2>12, <2>13
    DEF Step
<1> QED
  BY <1>1, <1>2, <1>3 DEF Next

LEMMA NextJobs == Typed /\ JobInv /\ [Next]_vars => JobInv'
<1> SUFFICES ASSUME Typed, JobInv, [Next]_vars PROVE JobInv'
  OBVIOUS
<1> USE DEF JobInv
<1>1. CASE StartJob
  <2>1. Waiting' = Waiting
    BY <1>1 DEF StartJob, Waiting
  <2>2. /\ queue # <<>> /\ queue' = Tail(queue)
        /\ running' = running \cup {Head(queue)}
    BY <1>1 DEF StartJob
  <2> QED
    BY <2>1, <2>2, Started
<1>2. CASE JobsUnchanged
  BY <1>2 DEF JobsUnchanged, Queued, NoDuplicates
<1>3. ASSUME NEW r \in Requests, Begins(r) PROVE JobInv'
  <2>1. r \notin Queued /\ r \notin running
    BY <1>3 DEF Begins
  <2> QED
    BY <1>3, <2>1, Submitted DEF Begins
<1>4. ASSUME NEW r \in Requests, Returns(r) PROVE JobInv'
  <2>1. Queued' = Queued /\ NoDuplicates'
    BY <1>4 DEF Returns, Queued, NoDuplicates
  <2>2. r \notin Queued
    BY <1>4 DEF Returns
  <2> QED
    BY <1>4, <2>1, <2>2 DEF Returns
<1> QED
  BY <1>1, <1>2, <1>3, <1>4, JobEffects

(* A queue without duplicates is as long as its set of jobs is large.      *)
LEMMA QueueLength ==
  ASSUME Typed, NoDuplicates
  PROVE  /\ IsFiniteSet(Queued)
         /\ Cardinality(Queued) = Len(queue)
         /\ Len(queue) <= Cardinality(Requests)
<1> DEFINE f == [k \in 1..Len(queue) |-> queue[k]]
<1>1. queue \in Seq(Requests) /\ Len(queue) \in Nat
  BY DEF Typed
<1>2. f \in Bijection(1..Len(queue), Queued)
  BY DEF Bijection, Injection, Surjection, IsInjective, NoDuplicates, Queued
<1>3. ExistsBijection(1..Len(queue), Queued)
  BY <1>2 DEF ExistsBijection
<1>4. IsFiniteSet(1..Len(queue)) /\ Cardinality(1..Len(queue)) = Len(queue)
  BY <1>1, FS_Interval
<1>5. IsFiniteSet(Queued) /\ Cardinality(Queued) = Len(queue)
  BY <1>3, <1>4, FS_Bijection
<1>6. Queued \in SUBSET Requests
  BY <1>1 DEF Queued
<1>7. Cardinality(Queued) <= Cardinality(Requests)
  BY <1>6, FS_Subset, QueryAssumption
<1> QED
  BY <1>5, <1>7

LEMMA JobInvIsEnough == Typed /\ JobInv => TypeOK /\ OneJobPerWait
  BY QueueLength DEF Typed, JobInv, TypeOK, OneJobPerWait, Queued, Waiting

LEMMA InitJobs == Init => JobInv
  BY DEF Init, JobInv, Waiting, Queued, NoDuplicates

LEMMA JobsInv == Spec => [](Typed /\ JobInv)
  BY InitTyped, InitJobs, NextTyped, NextJobs, PTL DEF Spec

(* The type invariant, with its bound on the executor's queue.             *)
THEOREM QueryTyped == Spec => []TypeOK
  BY JobsInv, JobInvIsEnough, PTL

(* A request that waits for a model has exactly one job, for any number of *)
(* requests and threads: no thread is kept across the wait for a           *)
(* connection, and no job is submitted twice or lost.                      *)
THEOREM JobsMatchWaits == Spec => []OneJobPerWait
  BY JobsInv, JobInvIsEnough, PTL

-----------------------------------------------------------------------------
(* Connections: a step only changes those of the request it is a step of.  *)
LEMMA NextConnections == Typed /\ ConnectionsAreInUse /\ [Next]_vars => ConnectionsAreInUse'
<1> SUFFICES ASSUME Typed, ConnectionsAreInUse, [Next]_vars PROVE ConnectionsAreInUse'
  OBVIOUS
<1> USE DEF ConnectionsAreInUse, PC, Resolving, InSession, Ended
<1> DEFINE Holders == {q \in Requests : pc[q] \in InSession}
<1>0. IsFiniteSet(connected)
  BY FS_Subset, QueryAssumption DEF Typed
<1>1. CASE StartJob \/ Ingested \/ UNCHANGED vars
  BY <1>1 DEF StartJob, Ingested, vars
<1>2. ASSUME NEW r \in Requests,
             Receive(r) \/ Reject(r) \/ Step(r) \/ Raise(r) \/ PoolTimeout(r)
      PROVE  ConnectionsAreInUse'
  <2>1. CASE Receive(r) \/ Reject(r) \/ PoolTimeout(r)
    <3>1. connected' = connected /\ pc[r] \notin InSession
      BY <2>1 DEF Receive, Reject, PoolTimeout
    <3>2. Holders' = Holders
      BY <2>1, GoToTyped DEF Receive, Reject, PoolTimeout
    <3> QED
      BY <3>1, <3>2
  <2>2. CASE ResolveCached(r) \/ StartBuild(r) \/ FinishBuild(r) \/ Submit(r)
    <3>1. connected' = connected
      BY <2>2 DEF ResolveCached, StartBuild, FinishBuild, Submit
    <3>2. CASE ResolveCached(r)
      BY <3>1, <3>2 DEF ResolveCached
    <3>3. CASE StartBuild(r)
      BY <3>1, <3>3, GoToTyped DEF StartBuild
    <3>4. CASE FinishBuild(r)
      BY <3>1, <3>4, GoToTyped DEF FinishBuild
    <3>5. CASE Submit(r)
      BY <3>1, <3>5, GoToTyped DEF Submit
    <3> QED
      BY <2>2, <3>2, <3>3, <3>4, <3>5
  <2>3. CASE FinishEmbed(r) \/ Select(r) \/ FinishGenerate(r)
    BY <2>3, GoToTyped DEF FinishEmbed, Select, FinishGenerate
  <2>4. CASE Connect(r)
    <3>1. connected' = Holders'
      BY <2>4, GoToTyped DEF Connect
    <3>2. r \notin connected
      BY <2>4 DEF Connect
    <3>3. Cardinality(connected') = Cardinality(connected) + 1
      BY <1>0, <2>4, <3>2, FS_AddElement DEF Connect
    <3>4. Cardinality(connected') <= PoolSize
      BY <1>0, <2>4, <3>3, FS_CardinalityType, QueryAssumption DEF Connect
    <3> QED
      BY <3>1, <3>4
  <2>5. CASE Respond(r) \/ Raise(r)
    <3>1. connected' = Holders'
      BY <2>5, GoToTyped DEF Respond, Raise
    <3>2. connected' = connected \ {r}
      BY <2>5 DEF Respond, Raise
    <3>3. Cardinality(connected') <= Cardinality(connected) /\ Cardinality(connected) \in Nat
          /\ Cardinality(connected') \in Nat
      BY <1>0, <3>2, FS_Subset, FS_CardinalityType
    <3> QED
      BY <3>1, <3>3, QueryAssumption
  <2> QED
    BY <1>2, <2>1, <2>2, <2>3, <2>4, <2>5 DEF Step
<1> QED
  BY <1>1, <1>2 DEF Next

LEMMA InitConnections == Init => ConnectionsAreInUse
  BY FS_EmptySet, QueryAssumption DEF Init, ConnectionsAreInUse, InSession

(* No connection leaks out of a pool of any size, whatever raises.         *)
THEOREM ConnectionsNeverLeak == Spec => []ConnectionsAreInUse
  BY InitTyped, NextTyped, InitConnections, NextConnections, PTL DEF Spec

-----------------------------------------------------------------------------
(* Reads.  Inductive with: what was committed when a request was received  *)
(* is still stored.                                                        *)
Known == \A r \in Requests : before[r] \subseteq store

ReadInv == Known /\ ReadsAreCurrent

LEMMA NextReads == Typed /\ ReadInv /\ [Next]_vars => ReadInv'
<1> SUFFICES ASSUME Typed, ReadInv, [Next]_vars PROVE ReadInv'
  OBVIOUS
<1> USE DEF ReadInv, Known, ReadsAreCurrent, PC, Resolving, InSession, Ended
<1>1. CASE StartJob \/ UNCHANGED vars
  BY <1>1 DEF StartJob, vars, reads
<1>2. CASE Ingested
  BY <1>2 DEF Ingested, Documents!Publish
<1>3. ASSUME NEW r \in Requests,
             Receive(r) \/ Reject(r) \/ Step(r) \/ Raise(r) \/ PoolTimeout(r)
      PROVE  ReadInv'
  <2>1. CASE Receive(r)
    BY <2>1, GoToTyped DEF Receive, Typed
  <2>2. CASE ResolveCached(r) \/ StartBuild(r) \/ FinishBuild(r)
    BY <2>2, GoToTyped DEF ResolveCached, StartBuild, FinishBuild, reads
  <2>3. CASE Reject(r) \/ Submit(r) \/ FinishEmbed(r) \/ Connect(r)
    BY <2>3, GoToTyped DEF Reject, Submit, FinishEmbed, Connect, reads
  <2>4. CASE Select(r)
    BY <2>4, GoToTyped DEF Select, Typed
  <2>5. CASE FinishGenerate(r) \/ Respond(r)
    BY <2>5, GoToTyped DEF FinishGenerate, Respond, reads
  <2>6. CASE Raise(r) \/ PoolTimeout(r)
    BY <2>6, GoToTyped DEF Raise, PoolTimeout, reads
  <2> QED
    BY <1>3, <2>1, <2>2, <2>3, <2>4, <2>5, <2>6 DEF Step
<1> QED
  BY <1>1, <1>2, <1>3 DEF Next

LEMMA InitReads == Init => ReadInv
  BY DEF Init, ReadInv, Known, ReadsAreCurrent

LEMMA ReadInvHolds == Spec => [](Typed /\ ReadInv)
  BY InitTyped, NextTyped, InitReads, NextReads, PTL DEF Spec

(* An answer is drawn from what was committed before its request, and all  *)
(* of it is still stored when the answer is sent.                          *)
THEOREM ReadsStayCurrent == Spec => []ReadsAreCurrent
  BY ReadInvHolds, PTL DEF ReadInv

-----------------------------------------------------------------------------
(* Instances.                                                              *)
LEMMA NextInstances == Typed /\ InstancesAreBuilt /\ [Next]_vars => InstancesAreBuilt'
<1> SUFFICES ASSUME Typed, InstancesAreBuilt, [Next]_vars PROVE InstancesAreBuilt'
  OBVIOUS
<1>1. CASE UNCHANGED singletons
  BY <1>1 DEF singletons, InstancesAreBuilt
<1>2. ASSUME NEW r \in Requests, ResolveCached(r) \/ FinishBuild(r)
      PROVE  InstancesAreBuilt'
  <2> DEFINE w == Wanted(r)
             i == IF ResolveCached(r) THEN cached[w] ELSE r
  <2>1. ~Resolved(r) /\ (Hit(r) \/ Build(r))
    BY <1>2 DEF ResolveCached, FinishBuild, Hit, Typed
  <2>2. /\ w \in 1..Accessors
        /\ Len(held[r]) \in Nat /\ held[r] \in Seq(Requests)
        /\ \A q \in Requests \ {r} : held'[q] = held[q]
    BY <2>1, SingletonsTyped
  <2>3. held' = [held EXCEPT ![r] = Append(@, i)]
    BY <1>2 DEF ResolveCached, FinishBuild, Hit, Build
  <2>4. held'[r] = Append(held[r], i)
    BY <2>3 DEF Typed
  <2>5. i \in Requests
    BY <1>2, <2>2 DEF ResolveCached, Hit, Typed
  <2>6. /\ Len(held'[r]) = w
        /\ \A a \in 1..Len(held[r]) : held'[r][a] = held[r][a]
        /\ held'[r][w] = i
        /\ \A a \in 1..w : a \in 1..Len(held[r]) \/ a = w
    BY <2>2, <2>4, <2>5 DEF Wanted
  <2>7. /\ \A a \in 1..Accessors : cached[a] # Nobody => cached'[a] = cached[a]
        /\ \A a \in 1..Accessors : cached'[a] # cached[a] => a = w /\ cached'[a] = r
        /\ cached'[w] # Nobody
        /\ i \in {cached'[w], r}
        /\ cached'[w] \in {cached[w], i}
    BY <1>2, <2>2, <2>5, SingletonsAssumption
    DEF ResolveCached, FinishBuild, Hit, Build, Typed
  <2>8. ASSUME NEW q \in Requests, NEW a \in 1..Len(held'[q])
        PROVE  held'[q][a] \in {cached'[a], q}
    <3>1. Len(held[q]) <= Accessors /\ Len(held[q]) \in Nat /\ held[q] \in Seq(Requests)
      BY DEF Typed
    <3>2. CASE a \in 1..Len(held[q])
      <4>1. held'[q][a] = held[q][a]
        BY <2>2, <2>6, <3>2
      <4>2. held[q][a] \in {cached[a], q} /\ held[q][a] \in Requests
        BY <3>1, <3>2 DEF InstancesAreBuilt
      <4>3. a \in 1..Accessors
        BY <3>1, <3>2, SingletonsAssumption
      <4> QED
        BY <2>7, <4>1, <4>2, <4>3, SingletonsAssumption
    <3>3. CASE a \notin 1..Len(held[q])
      <4>1. q = r /\ a = w
        BY <2>2, <2>6, <2>8, <3>3
      <4> QED
        BY <2>6, <2>7, <4>1
    <3> QED
      BY <3>2, <3>3
  <2>9. ASSUME NEW a \in 1..Accessors, cached'[a] # Nobody
        PROVE  a <= Len(held'[cached'[a]]) /\ held'[cached'[a]][a] = cached'[a]
    <3>1. CASE cached'[a] = cached[a]
      <4>1. a <= Len(held[cached[a]]) /\ held[cached[a]][a] = cached[a]
        BY <2>9, <3>1 DEF InstancesAreBuilt
      <4>2. cached[a] \in Requests /\ Len(held[cached[a]]) \in Nat
        <5>1. cached[a] \in Requests
          BY <2>9, <3>1 DEF Typed
        <5>2. held[cached[a]] \in Seq(Requests)
          BY <5>1 DEF Typed
        <5> QED
          BY <5>1, <5>2
      <4>3. CASE cached[a] = r
        <5>1. a \in 1..Len(held[r]) /\ held[r][a] = r /\ Len(held[r]) \in Nat
          BY <2>2, <4>1, <4>3
        <5>2. a <= Len(held'[r]) /\ held'[r][a] = r
          BY <2>6, <5>1 DEF Wanted
        <5> QED
          BY <3>1, <4>3, <5>2
      <4>4. CASE cached[a] # r
        BY <2>2, <3>1, <4>1, <4>2, <4>4
      <4> QED
        BY <4>3, <4>4
    <3>2. CASE cached'[a] # cached[a]
      <4>1. a = w /\ cached'[a] = r
        BY <2>7, <3>2
      <4>2. i = r
        BY <2>7, <3>2, <4>1
      <4> QED
        BY <2>2, <2>6, <4>1, <4>2
    <3> QED
      BY <3>1, <3>2
  <2> QED
    BY <2>8, <2>9 DEF InstancesAreBuilt
<1>3. UNCHANGED singletons \/ \E r \in Requests : ResolveCached(r) \/ FinishBuild(r)
  BY DEF Next, Step, StartJob, Ingested, Receive, Reject, StartBuild, Miss, Submit,
         FinishEmbed, Connect, Select, FinishGenerate, Respond, Raise, PoolTimeout,
         vars, singletons
<1> QED
  BY <1>1, <1>2, <1>3

LEMMA InitInstances == Init => InstancesAreBuilt
  BY SingletonsAssumption DEF Init, EmptyCaches, InstancesAreBuilt

(* However many first calls overlap, on any number of accessors, requests  *)
(* only get the shared instance or their own, and never an unfinished one. *)
THEOREM InstancesAlwaysBuilt == Spec => []InstancesAreBuilt
  BY InitTyped, NextTyped, InitInstances, NextInstances, PTL DEF Spec

(* The shared instance of an accessor is never replaced.                   *)
THEOREM InstancesNeverReplaced == Spec => SharedInstancesStay
<1>1. ASSUME Typed, Next
      PROVE  \A a \in 1..Accessors : cached[a] # Nobody => cached'[a] = cached[a]
  <2>1. CASE UNCHANGED cached
    BY <2>1
  <2>2. ASSUME NEW r \in Requests, FinishBuild(r)
        PROVE  \A a \in 1..Accessors : cached[a] # Nobody => cached'[a] = cached[a]
    BY <1>1, <2>2 DEF FinishBuild, Build, Typed
  <2>3. UNCHANGED cached \/ \E r \in Requests : FinishBuild(r)
    BY <1>1 DEF Next, Step, StartJob, Ingested, Receive, Reject, ResolveCached, Hit,
                StartBuild, Miss, Submit, FinishEmbed, Connect, Select, FinishGenerate,
                Respond, Raise, PoolTimeout, singletons
  <2> QED
    BY <2>1, <2>2, <2>3
<1> QED
  BY <1>1, InitTyped, NextTyped, PTL DEF Spec, SharedInstancesStay

-----------------------------------------------------------------------------
(* Nobody waits for a request that waits for it.  With a free thread or a  *)
(* free connection some waiter goes on; when there is none, the jobs that  *)
(* have the threads return, and so do those of the requests that have the  *)
(* connections, unless their job is in the queue: then a thread is free or *)
(* has a job that returns.                                                 *)
LEMMA NotEmpty ==
  ASSUME NEW S \in SUBSET Requests, NEW N \in Nat \ {0}, ~(Cardinality(S) < N)
  PROVE  \E r \in Requests : r \in S
<1>1. Cardinality({}) = 0
  BY FS_EmptySet
<1>2. S # {}
  BY <1>1
<1> QED
  BY <1>2

LEMMA WaitersGoOn ==
  ASSUME Typed, JobInv, ConnectionsAreInUse
  PROVE  SomebodyCanGoOn
<1> USE DEF PC, Resolving, InSession, Ended
<1> SUFFICES ASSUME NEW q \in Requests, pc[q] \notin {"idle"} \cup Ended
             PROVE  SomebodyCanGoOn
  BY DEF SomebodyCanGoOn
<1>1. ASSUME NEW r \in Requests, r \in running PROVE SomebodyCanGoOn
  <2>1. pc[r] \in {"embed", "generate"}
    BY <1>1 DEF JobInv, Waiting
  <2> QED
    BY <1>1, <2>1 DEF SomebodyCanGoOn
<1>2. ASSUME NEW r \in Requests, pc[r] \in {"embed", "generate"} PROVE SomebodyCanGoOn
  <2>1. CASE r \in running
    BY <1>1, <2>1
  <2>2. CASE r \notin running
    <3>1. r \in Queued
      BY <1>2, <2>2 DEF JobInv, Waiting
    <3>2. queue # <<>>
      BY <3>1 DEF Queued
    <3>3. CASE Cardinality(running) < Threads
      BY <3>2, <3>3 DEF SomebodyCanGoOn
    <3>4. CASE ~(Cardinality(running) < Threads)
      <4>1. \E t \in Requests : t \in running
        BY <3>4, NotEmpty, QueryAssumption DEF Typed
      <4> QED
        BY <1>1, <4>1
    <3> QED
      BY <3>3, <3>4
  <2> QED
    BY <2>1, <2>2
<1>3. ASSUME NEW r \in Requests, pc[r] \in Resolving \cup InSession PROVE SomebodyCanGoOn
  BY <1>2, <1>3 DEF SomebodyCanGoOn
<1>4. CASE pc[q] = "search"
  <2>1. CASE Cardinality(connected) < PoolSize
    BY <1>4, <2>1 DEF SomebodyCanGoOn
  <2>2. CASE ~(Cardinality(connected) < PoolSize)
    <3>1. PICK t \in Requests : t \in connected
      BY <2>2, NotEmpty, QueryAssumption DEF Typed
    <3>2. pc[t] \in InSession
      BY <3>1 DEF ConnectionsAreInUse
    <3> QED
      BY <1>3, <3>2
  <2> QED
    BY <2>1, <2>2
<1>5. pc[q] \in PC
  BY DEF Typed
<1> QED
  BY <1>2, <1>3, <1>4, <1>5

(* Threads and connections, however many there are of each, are never held *)
(* by requests that all wait for one another.                              *)
THEOREM QueryNeverStuck == Spec => []SomebodyCanGoOn
  BY InitTyped, NextTyped, InitJobs, NextJobs, InitConnections, NextConnections,
     WaitersGoOn, PTL DEF Spec

-----------------------------------------------------------------------------
(* A step of r to a later stage, or one that returns from an accessor.     *)
LEMMA ToLaterStage ==
  ASSUME Typed, NEW r \in Requests, NEW where \in PC, GoTo(r, where),
         Stage[pc[r]] < Stage[where], UNCHANGED held
  PROVE  \A q \in Requests : UNCHANGED <<pc[q], held[q]>> \/ Progress(q)' > Progress(q)
<1>1. pc'[r] = where /\ \A q \in Requests \ {r} : pc'[q] = pc[q]
  BY GoToTyped
<1>2. pc[r] \in PC /\ Len(held[r]) \in Nat
  BY DEF Typed
<1>3. Stage[pc[r]] \in Nat /\ Stage[where] \in Nat
  BY <1>2 DEF Stage, PC, Resolving, InSession, Ended
<1>4. Progress(r)' > Progress(r)
  BY <1>1, <1>2, <1>3 DEF Progress
<1> QED
  BY <1>1, <1>4

LEMMA NextGoesForward ==
  ASSUME Typed, Next, NEW q \in Requests
  PROVE  UNCHANGED <<pc[q], held[q]>> \/ Progress(q)' > Progress(q)
<1> USE DEF PC, Resolving, InSession, Ended, Stage
<1>1. CASE StartJob \/ Ingested
  BY <1>1 DEF StartJob, Ingested, singletons
<1>2. ASSUME NEW r \in Requests,
             Receive(r) \/ Reject(r) \/ Step(r) \/ Raise(r) \/ PoolTimeout(r)
      PROVE  UNCHANGED <<pc[q], held[q]>> \/ Progress(q)' > Progress(q)
  <2>1. CASE ResolveCached(r) \/ FinishBuild(r)
    <3>1. /\ ~Resolved(r)
          /\ Hit(r) \/ Build(r)
          /\ pc'[r] = "resolve" /\ pc[r] \in {"resolve", "build"}
          /\ \A t \in Requests \ {r} : pc'[t] = pc[t]
      BY <2>1, GoToTyped DEF ResolveCached, FinishBuild, Hit, Typed
    <3>2. /\ Len(held[r]) \in Nat /\ Len(held'[r]) = Len(held[r]) + 1
          /\ \A t \in Requests \ {r} : held'[t] = held[t]
      BY <3>1, SingletonsTyped DEF Wanted
    <3>3. Progress(r)' > Progress(r)
      BY <3>1, <3>2 DEF Progress
    <3> QED
      BY <3>1, <3>2, <3>3
  <2>2. CASE ~(ResolveCached(r) \/ FinishBuild(r))
    <3>1. UNCHANGED held
      BY <1>2, <2>2 DEF Step, Receive, Reject, StartBuild, Miss, Submit, FinishEmbed,
         Connect, Select, FinishGenerate, Respond, Raise, PoolTimeout, singletons
    <3>2. PICK where \in PC : GoTo(r, where) /\ Stage[pc[r]] < Stage[where]
      BY <1>2, <2>2 DEF Step, Receive, Reject, StartBuild, Submit, FinishEmbed,
         Connect, Select, FinishGenerate, Respond, Raise, PoolTimeout
    <3> QED
      BY <3>1, <3>2, ToLaterStage
  <2> QED
    BY <2>1, <2>2
<1> QED
  BY <1>1, <1>2 DEF Next

(* No request ever repeats what it has done, whatever fails.               *)
THEOREM QueryGoesForward == Spec => RequestsGoForward
<1>1. ASSUME Typed, Next
      PROVE  \A r \in Requests : UNCHANGED <<pc[r], held[r]>> \/ Progress(r)' > Progress(r)
  BY <1>1, NextGoesForward
<1> QED
  BY <1>1, InitTyped, NextTyped, PTL DEF Spec, RequestsGoForward

-----------------------------------------------------------------------------
(* The refinement.  A step of Query opens a request, answers it, declines  *)
(* it, is an ingestion, or is one no client sees.                          *)
Status == [r \in Requests |-> IF pc[r] \in {"idle"} \cup Ended THEN pc[r] ELSE "open"]
Sources == [r \in Requests |-> IF pc[r] = "answered" THEN read[r] ELSE {}]

(* What a step of r to `where` does to what the client sees.               *)
LEMMA StatusOf ==
  ASSUME Typed, NEW r \in Requests, NEW where \in PC, GoTo(r, where), pc[r] \notin Ended
  PROVE  /\ Status' = [Status EXCEPT ![r] = IF where \in {"idle"} \cup Ended
                                           THEN where ELSE "open"]
         /\ Status[r] = IF pc[r] = "idle" THEN "idle" ELSE "open"
         /\ UNCHANGED read => Sources' = [Sources EXCEPT ![r] = IF where = "answered"
                                                               THEN read[r] ELSE {}]
         /\ Sources[r] = {}
<1>1. pc'[r] = where /\ \A q \in Requests \ {r} : pc'[q] = pc[q]
  BY GoToTyped
<1> QED
  BY <1>1 DEF Status, Sources, Ended

LEMMA StepsAreServed ==
  ASSUME Typed, ReadInv, Next
  PROVE  \/ \E r \in Requests : Service!Open(r) \/ Service!Answer(r) \/ Service!Decline(r)
         \/ Service!Grow
         \/ UNCHANGED <<Status, before, Sources, store>>
<1> USE DEF Service!Open, Service!Answer, Service!Decline, Service!Becomes
<1>1. CASE StartJob
  BY <1>1 DEF StartJob, reads, Status, Sources
<1>2. CASE Ingested
  <2>1. Service!Documents!StoreNext
    BY <1>2 DEF Ingested, Documents!Publish, Documents!BatchOf, Documents!UniqueHashes,
                Service!Documents!StoreNext, Service!Documents!Publish,
                Service!Documents!BatchOf, Service!Documents!UniqueHashes
  <2>2. UNCHANGED <<Status, before, Sources>>
    BY <1>2 DEF Ingested, Status, Sources
  <2> QED
    BY <2>1, <2>2 DEF Service!Grow, Status, Sources
<1>3. ASSUME NEW r \in Requests,
             Receive(r) \/ Reject(r) \/ Step(r) \/ Raise(r) \/ PoolTimeout(r)
      PROVE  \/ Service!Open(r) \/ Service!Answer(r) \/ Service!Decline(r)
             \/ UNCHANGED <<Status, before, Sources, store>>
  <2>1. CASE Receive(r)
    <3>1. "resolve" \in PC /\ GoTo(r, "resolve") /\ pc[r] = "idle" /\ UNCHANGED read
      BY <2>1 DEF Receive, PC, Resolving
    <3>2. Status[r] = "idle" /\ Status' = [Status EXCEPT ![r] = "open"]
      BY <3>1, StatusOf DEF Ended
    <3>3. UNCHANGED Sources
      BY <3>1, GoToTyped DEF Sources
    <3> QED
      BY <2>1, <3>2, <3>3 DEF Receive, Status, Sources
  <2>2. CASE Reject(r) \/ Raise(r) \/ PoolTimeout(r)
    <3>1. PICK where \in {"rejected", "failed"} : GoTo(r, where)
      BY <2>2 DEF Reject, Raise, PoolTimeout
    <3>2. pc[r] \notin {"idle"} \cup Ended /\ UNCHANGED reads
      BY <2>2 DEF Reject, Raise, PoolTimeout, Ended
    <3>3. Status[r] = "open" /\ Status' = [Status EXCEPT ![r] = where]
      BY <3>1, <3>2, StatusOf DEF PC, Ended
    <3>4. UNCHANGED Sources
      BY <3>1, <3>2, GoToTyped DEF Sources, PC, Ended, reads
    <3> QED
      BY <3>1, <3>2, <3>3, <3>4 DEF Status, Sources, reads
  <2>3. CASE Respond(r)
    BY <2>3, StatusOf DEF Respond, ReadInv, ReadsAreCurrent, PC, Ended, reads, Status, Sources
  <2>4. CASE ResolveCached(r)
    BY <2>4 DEF ResolveCached, reads, Status, Sources
  <2>5. CASE StartBuild(r) \/ FinishBuild(r) \/ Submit(r) \/ FinishEmbed(r) \/ Connect(r)
             \/ FinishGenerate(r)
    BY <2>5, GoToTyped DEF StartBuild, FinishBuild, Submit, FinishEmbed, Connect,
       FinishGenerate, PC, Resolving, InSession, Ended, reads, Status, Sources
  <2>6. CASE Select(r)
    BY <2>6, GoToTyped DEF Select, PC, InSession, Ended, Status, Sources, Typed
  <2> QED
    BY <1>3, <2>1, <2>2, <2>3, <2>4, <2>5, <2>6 DEF Step
<1> QED
  BY <1>1, <1>2, <1>3 DEF Next

(* The service's promise to a client holds of every instance of Query.     *)
THEOREM QueryImplementsService == Spec => ImplementsService
<1>1. Init => Service!ServiceInit
  BY DEF Init, Service!ServiceInit, Ended
<1>2. Typed /\ ReadInv /\ [Next]_vars
        => [Service!ServiceNext]_<<Status, before, Sources, store>>
  <2>1. ASSUME UNCHANGED vars PROVE UNCHANGED <<Status, before, Sources, store>>
    BY <2>1 DEF vars, reads, Status, Sources
  <2> QED
    BY <2>1, StepsAreServed DEF Service!ServiceNext, Status, Sources
<1> QED
  BY <1>1, <1>2, ReadInvHolds, PTL
  DEF Spec, ImplementsService, Service!ServiceSpec, Status, Sources

=============================================================================
