---------------------------- MODULE MCIngestion ----------------------------
(***************************************************************************)
(* Instances of Ingestion for TLC.  Paths are numbers, in sorted() order;  *)
(* path 2 is in both directories, so that the two runs can meet, and wait  *)
(* for each other, on its content and on copies of it in paths 1 and 3.    *)
(***************************************************************************)
EXTENDS Ingestion, TLC

CONSTANTS seed, eval, tuned, a, b, bad

MCRuns == {seed, eval}
MCSeeds == {seed}
MCPaths == 1..3
MCPdfs == {2}
MCDir == [r \in MCRuns |-> IF r = seed THEN {1, 2} ELSE {2, 3}]
MCContents == {a, b, bad}
MCSeedDir == [r \in MCSeeds |-> {1, 2}]

\* a third run, with settings the chunker refuses, over the whole directory
MCThreeRuns == {seed, eval, tuned}
MCThreeDir == [r \in MCThreeRuns |-> IF r = tuned THEN MCPaths ELSE MCDir[r]]
MCTuned == {tuned}

MCBad == {bad}
MCNobody == {}

\* a and b are interchangeable; sound for safety, not used with liveness
MCSymmetry == Permutations({a, b})

=============================================================================
