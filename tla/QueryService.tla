---------------------------- MODULE QueryService ----------------------------
(***************************************************************************)
(* What a client of POST /query may rely on: each request gets one         *)
(* response, and an answer rests on a set of committed documents that has  *)
(* all that were committed before the request, and none that is not        *)
(* committed when the response is sent.  Query implements this             *)
(* specification.                                                          *)
(***************************************************************************)
CONSTANTS
  Requests,
  Attempts, Names, Hashes  \* of the document store

VARIABLES
  status,   \* "idle", "open", then one of the outcomes
  known,    \* known[r]: the documents committed when r was received
  sources,  \* sources[r]: the documents r's answer was drawn from
  store     \* the committed documents

Documents == INSTANCE DocumentStore

ServiceInit ==
  /\ status = [r \in Requests |-> "idle"]
  /\ known = [r \in Requests |-> {}]
  /\ sources = [r \in Requests |-> {}]
  /\ store = {}

Becomes(r, what) == status' = [status EXCEPT ![r] = what]

Open(r) ==
  /\ status[r] = "idle"
  /\ Becomes(r, "open")
  /\ known' = [known EXCEPT ![r] = store]
  /\ UNCHANGED <<sources, store>>

Answer(r) ==
  /\ status[r] = "open"
  /\ Becomes(r, "answered")
  /\ \E docs \in SUBSET store :
       known[r] \subseteq docs /\ sources' = [sources EXCEPT ![r] = docs]
  /\ UNCHANGED <<known, store>>

(* 422 or 500.                                                             *)
Decline(r) ==
  /\ status[r] = "open"
  /\ Becomes(r, "rejected") \/ Becomes(r, "failed")
  /\ UNCHANGED <<known, sources, store>>

Grow == Documents!StoreNext /\ UNCHANGED <<status, known, sources>>

ServiceNext ==
  \/ \E r \in Requests : Open(r) \/ Answer(r) \/ Decline(r)
  \/ Grow

ServiceSpec ==
  ServiceInit /\ [][ServiceNext]_<<status, known, sources, store>>

=============================================================================
