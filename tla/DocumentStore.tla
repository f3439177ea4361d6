--------------------------- MODULE DocumentStore ---------------------------
(***************************************************************************)
(* What the ingestion pipeline promises of the `documents` table, seen by  *)
(* a reader that only sees committed rows: the table only grows, by whole  *)
(* batches, one batch per ingestion attempt at most, and no two documents  *)
(* ever have the same content hash.  Ingestion implements this             *)
(* specification.                                                          *)
(***************************************************************************)
CONSTANTS
  Attempts,  \* the ingestion attempts
  Names,     \* what tells the documents of one attempt apart
  Hashes     \* the values of content_hash

VARIABLE
  store      \* the committed documents: a set of [id, hash] records

BatchOf(a) == [id: {a} \X Names, hash: Hashes]

UniqueHashes(docs) == \A d, e \in docs : d.hash = e.hash => d = e

StoreInit == store = {}

(***************************************************************************)
(* Attempt a makes its batch visible in one step.  Nothing of it was       *)
(* visible before, nothing is taken away, and the hashes stay distinct.    *)
(***************************************************************************)
Publish(a) ==
  /\ store \cap BatchOf(a) = {}
  /\ store \subseteq store'
  /\ store' \ store \subseteq BatchOf(a)
  /\ UniqueHashes(store')

StoreNext == \E a \in Attempts : Publish(a)

StoreSpec == StoreInit /\ [][StoreNext]_store

=============================================================================
