------------------------------ MODULE MCQuery ------------------------------
(***************************************************************************)
(* Instances of Query for TLC.                                             *)
(***************************************************************************)
EXTENDS Query

CONSTANTS r1, r2, r3

MCRequests == {r1, r2, r3}
MCTwoRequests == {r1, r2}
MCOne == {1}
MCHashes == 1..2

=============================================================================
