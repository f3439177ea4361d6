---------------------------- MODULE MCEvaluation ----------------------------
(***************************************************************************)
(* Instances of Evaluation for TLC: two documents, two chunker settings,   *)
(* and a dataset with a row of each category and one of a mistyped one.    *)
(***************************************************************************)
EXTENDS Evaluation

CONSTANTS d1, d2, n1, n2, coarse, fine, w1, w2, w3

MCDocs == {d1, d2}
MCNames == {n1, n2}
MCNameOf == [d \in MCDocs |-> IF d = d1 THEN n1 ELSE n2]
MCIndices == 0..1
MCShown == [n \in MCNames |-> n]
MCScores == 1..2
MCSettings == {coarse, fine}
MCNoSettings == {}
MCPieces == [s \in MCSettings |-> IF s = coarse THEN 1 ELSE 2]
MCWords == {w1, w2, w3}
MCDataset ==
  << [category |-> "answerable", sources |-> {n1}, expected |-> {w1, w2, w3}],
     [category |-> "answerable", sources |-> {}, expected |-> {}],
     [category |-> "unanswerable", sources |-> {}, expected |-> {}],
     [category |-> "unanswerble", sources |-> {}, expected |-> {}] >>
MCOneRow == << [category |-> "unanswerable", sources |-> {}, expected |-> {}] >>

=============================================================================
