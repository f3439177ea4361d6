----------------------------- MODULE MCChunker -----------------------------
(***************************************************************************)
(* Every text of up to MaxWords words of up to MaxLen characters, with     *)
(* every kind of whitespace between them, chunked with every setting       *)
(* around the constructor's bounds; and texts of more, shorter words.      *)
(* Two characters separate paragraphs and sentences, one separates words.  *)
(***************************************************************************)
EXTENDS Chunker

CONSTANTS MaxWords, MaxLen, MaxShort, MaxSingle, MaxSize

Gap(kind) == IF kind = "word" THEN 1 ELSE 2

RECURSIVE From(_, _, _)
From(lens, kind, k) ==
  IF k = 1 THEN 0 ELSE From(lens, kind, k - 1) + lens[k - 1] + Gap(kind[k - 1])

TextOf(n, lens, kind) ==
  [from |-> [k \in 1..n |-> From(lens, kind, k)],
   to   |-> [k \in 1..n |-> From(lens, kind, k) + lens[k]],
   kind |-> [k \in 1..n |-> IF k = n THEN "paragraph" ELSE kind[k]]]

TextsOf(n, len, kinds) ==
  {TextOf(n, lens, kind) : lens \in [1..n -> 1..len], kind \in [1..(n - 1) -> kinds]}

MCTexts ==
  UNION {TextsOf(n, MaxLen, Kinds) : n \in 0..MaxWords}
    \cup TextsOf(MaxShort, 2, {"word", "paragraph"})
    \cup TextsOf(MaxSingle, 1, {"word"})

MCSettings == [size: 0..MaxSize, overlap: -1..MaxSize]
=============================================================================
