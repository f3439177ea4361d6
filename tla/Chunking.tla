------------------------------ MODULE Chunking ------------------------------
(***************************************************************************)
(* What `chunk` promises its caller of the words of a text, who knows      *)
(* nothing of units and loops: settings that make no sense are refused,    *)
(* and otherwise the text comes back as ranges of whole words with nothing *)
(* lost, nothing out of order, little repeated and hardly anything too     *)
(* long.  Chunker implements this specification.                           *)
(***************************************************************************)
EXTENDS Integers, Sequences

VARIABLES
  text,    \* where each word of the text begins and ends
  config,  \* chunk_size and chunk_overlap
  status,  \* "working", then "refused" or "done"
  result   \* the chunks: the words [first, last] of each, and its length

allWords == 1..Len(text.to)

PartOf == [first: allWords, last: allWords, length: Int]

(* A chunk is words of the text, with less between them at most; only a    *)
(* single word may be longer than chunk_size.                              *)
Part(c) ==
  /\ c.first <= c.last
  /\ c.length <= text.to[c.last] - text.from[c.first]
  /\ c.length <= config.size \/ c.first = c.last

(* The words of the text are read in the order they have in it.            *)
InOrder(s) ==
  \A j, k \in 1..Len(s) : j < k => s[j].first < s[k].first /\ s[j].last <= s[k].last

(* Each word is in one chunk at least and in three at most.                *)
NothingLost(s) == \A x \in allWords : \E k \in 1..Len(s) : x \in s[k].first..s[k].last
LittleRepeated(s) == \A k \in 1..(Len(s) - 3) : s[k].last < s[k + 3].first

ChunkingInit ==
  /\ text.from \in Seq(Nat) /\ text.to \in Seq(Nat)
  /\ config \in [size: Int, overlap: Int]
  /\ status = "working"
  /\ result = <<>>

(* An overlap of more than half of chunk_size is refused, one of less than *)
(* half is not.  At exactly half the constructor and docs/ARCHITECTURE.md  *)
(* disagree (> here, >= there); a caller can rely on neither.              *)
Permitted == config.size > 0 /\ config.overlap \in 0..(config.size \div 2)
Guaranteed == config.size > 0 /\ config.overlap \in 0..(config.size \div 2 - 1)

Refuse ==
  /\ status = "working" /\ ~Guaranteed
  /\ status' = "refused"
  /\ UNCHANGED <<text, config, result>>

Return ==
  /\ status = "working" /\ Permitted
  /\ status' = "done"
  /\ result' \in Seq(PartOf)
  /\ \A k \in 1..Len(result') : Part(result'[k])
  /\ InOrder(result') /\ NothingLost(result') /\ LittleRepeated(result')
  /\ UNCHANGED <<text, config>>

ChunkingSpec == ChunkingInit /\ [][Refuse \/ Return]_<<text, config, status, result>>

=============================================================================
