------------------------------ MODULE MCAnswer ------------------------------
(***************************************************************************)
(* Instances of Answer for TLC: two documents of the same name, one whose  *)
(* name looks different in the prompt ("r&d.md" becomes "r&amp;d.md"), and *)
(* one whose name no marker can have ("notes (old).md").                   *)
(***************************************************************************)
EXTENDS Answer

CONSTANTS d1, d2, d3, d4, plain, special, escaped, bracketed

MCDocs == {d1, d2, d3, d4}
MCNameOf ==
  [d \in MCDocs |-> CASE d = d3 -> special [] d = d4 -> bracketed [] OTHER -> plain]
MCIndices == 0..1
MCLabels == {plain, special, escaped, bracketed}
MCShown == [n \in MCLabels \ {escaped} |-> IF n = special THEN escaped ELSE n]
MCMatchable == MCLabels \ {bracketed}
MCScores == 1..2

=============================================================================
