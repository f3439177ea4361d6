---------------------------- MODULE AnswerProofs ----------------------------
(***************************************************************************)
(* Proofs about Answer, for any corpus, any retrieval and any text.        *)
(***************************************************************************)
EXTENDS Answer, SequenceTheorems, NaturalExtremes, TLAPS

-----------------------------------------------------------------------------
LEMMA SeqUpToIsSeq ==
  ASSUME NEW n \in Nat, NEW S, NEW s \in SeqUpTo(n, S)
  PROVE  s \in Seq(S)
<1>1. PICK k \in 0..n : s \in [1..k -> S]
  BY DEF SeqUpTo
<1> QED
  BY <1>1, IsASeq

(* What the extractor looks up for a key is a retrieved chunk with it.     *)
LEMMA FoundIsRetrieved ==
  ASSUME TypeOK, NEW key, Matches(key) # {}
  PROVE  \E k \in 1..Len(retrieved) : Found(key) = retrieved[k] /\ Key(retrieved[k]) = key
<1> DEFINE Last(k) == k \in Matches(key) /\ \A j \in Matches(key) : j <= k
<1>1. Len(retrieved) \in Nat /\ Matches(key) \in SUBSET (1..Len(retrieved))
  BY DEF TypeOK, Matches
<1>2. \E k \in Matches(key) : \A j \in Matches(key) : j <= k
  BY <1>1, GreatestNat
<1>3. PICK k : k = CHOOSE i \in Matches(key) : \A j \in Matches(key) : j <= i
  OBVIOUS
<1>4. k \in Matches(key)
  BY <1>2, <1>3
<1> QED
  BY <1>3, <1>4 DEF Found, Matches

-----------------------------------------------------------------------------
(* Types.  Inductive with: the extractor has not begun before the text is  *)
(* there, so that its loop is never beyond a text's markers.               *)
Unstarted == pc \notin {"extract", "done"} => m = 1 /\ citations = <<>> /\ seen = {}

Typed == TypeOK /\ Unstarted

LEMMA FreshTyped ==
  ASSUME Fresh, corpus \in SUBSET Chunk,
         pc \in {"idle", "search", "generate", "extract", "done"}
  PROVE  Typed
<1>1. NoText \in Text /\ Len(NoText.markers) = 0
  <2>1. <<>> \in Seq(Marker) /\ Len(<<>>) = 0
    BY EmptySeq
  <2> QED
    BY <2>1 DEF NoText, Text
<1>2. m \in 1..(Len(answer.markers) + 1)
  BY <1>1 DEF Fresh
<1>3. retrieved \in Seq(RetrievedChunk) /\ citations \in Seq(Chunk)
  BY EmptySeq DEF Fresh
<1> QED
  BY <1>1, <1>2, <1>3 DEF Fresh, Typed, TypeOK, Unstarted

LEMMA InitTypes == Init => Typed
  BY FreshTyped DEF Init

LEMMA NextTypes == Typed /\ Next => Typed'
<1> SUFFICES ASSUME Typed, Next PROVE Typed'
  OBVIOUS
<1> USE DEF Typed, Unstarted
<1>1. CASE Search
  <2>1. retrieved' \in Seq(Candidates)
    BY <1>1, AnswerAssumption, SeqUpToIsSeq DEF Search
  <2>2. retrieved' \in Seq(RetrievedChunk)
    BY <2>1, SeqMonotonic DEF Candidates
  <2> QED
    BY <1>1, <2>2 DEF Search, TypeOK, signals
<1>2. CASE Generate
  <2>1. PICK t \in Writable : answer' = t
    BY <1>2 DEF Generate
  <2>2. t.markers \in Seq(Marker) /\ t \in Text
    BY <2>1, AnswerAssumption, SeqUpToIsSeq DEF Writable, Text
  <2>3. m' = 1 /\ Len(answer'.markers) \in Nat
    BY <1>2, <2>1, <2>2 DEF Generate
  <2> QED
    BY <1>2, <2>1, <2>2, <2>3 DEF Generate, TypeOK, signals
<1>3. CASE Drop \/ Repeat \/ Signal
  <2>1. answer.markers \in Seq(Marker) /\ Len(answer.markers) \in Nat
    BY DEF TypeOK, Text
  <2>2. m' \in 1..(Len(answer.markers) + 1)
    BY <1>3, <2>1 DEF Drop, Repeat, Signal, Extracting, TypeOK
  <2>3. answer.phrase \in BOOLEAN
    BY DEF TypeOK, Text
  <2>4. CASE Drop \/ Repeat
    BY <2>2, <2>4 DEF Drop, Repeat, Extracting, TypeOK, signals
  <2>5. CASE Signal
    BY <2>2, <2>3, <2>5 DEF Signal, TypeOK
  <2> QED
    BY <1>3, <2>4, <2>5
<1>4. CASE Cite
  <2>1. answer.markers \in Seq(Marker) /\ Len(answer.markers) \in Nat
    BY DEF TypeOK, Text
  <2>2. marker \in Marker /\ m' \in 1..(Len(answer.markers) + 1)
    BY <1>4, <2>1 DEF Cite, Extracting, marker, TypeOK
  <2>3. PICK k \in 1..Len(retrieved) : Found(marker) = retrieved[k]
    BY <1>4, FoundIsRetrieved DEF Cite
  <2>4. Found(marker) \in RetrievedChunk
    BY <2>3 DEF TypeOK
  <2>5. [doc |-> Found(marker).doc, index |-> Found(marker).index] \in Chunk
    BY <2>4 DEF RetrievedChunk, Chunk
  <2>6. citations' \in Seq(Chunk)
    BY <1>4, <2>5, AppendProperties DEF Cite, TypeOK
  <2> QED
    BY <1>4, <2>2, <2>6 DEF Cite, Extracting, TypeOK, signals
<1> QED
  BY <1>1, <1>2, <1>3, <1>4 DEF Next

LEMMA StutterTypes == Typed /\ UNCHANGED vars => Typed'
  BY DEF Typed, Unstarted, TypeOK, vars, signals

LEMMA TypedHolds == Spec => []Typed
  BY InitTypes, NextTypes, StutterTypes, PTL DEF Spec

(* The variables keep their types, for texts with any number of markers.   *)
THEOREM AnswerTyped == Spec => []TypeOK
  BY TypedHolds, PTL DEF Typed

-----------------------------------------------------------------------------
(* The extractor's loop, after the markers before m.                       *)
(* What is cited is what is seen, a retrieved chunk each.                  *)
CitedIsSeen ==
  /\ \A key \in seen : \E k \in 1..Len(citations) : Key(citations[k]) = key
  /\ \A k \in 1..Len(citations) :
       /\ Key(citations[k]) \in seen
       /\ \E j \in 1..Len(retrieved) :
            retrieved[j].doc = citations[k].doc /\ retrieved[j].index = citations[k].index

(* What is seen was named, and what was named and could be found is seen.  *)
NamedIsSeen ==
  /\ \A key \in seen : \E j \in 1..(m - 1) : answer.markers[j] = key
  /\ \A j \in 1..(m - 1) :
       answer.markers[j][1] \in Matchable /\ Matches(answer.markers[j]) # {}
         => answer.markers[j] \in seen

(* An earlier citation was named before a later one was first named.       *)
InOrder(cited, markers, n) ==
  \A j, k \in 1..Len(cited) :
    j < k => \E i \in 1..n :
               /\ markers[i] = Key(cited[j])
               /\ \A h \in 1..i : markers[h] # Key(cited[k])

NamedBefore == InOrder(citations, answer.markers, m - 1)

AllMarkers == pc = "done" => m > Len(answer.markers)

ExtractInv == CitedIsSeen /\ NamedIsSeen /\ NamedBefore /\ AllMarkers

(* None of it is about a question that has no text yet.                    *)
LEMMA UnstartedExtract ==
  ASSUME Typed, pc \notin {"extract", "done"}
  PROVE  ExtractInv
<1>1. m = 1 /\ citations = <<>> /\ seen = {} /\ Len(citations) = 0
  BY EmptySeq DEF Typed, Unstarted
<1> QED
  BY <1>1 DEF ExtractInv, CitedIsSeen, NamedIsSeen, NamedBefore, InOrder, AllMarkers

(* A step of the loop that passes over a marker, which is seen or cannot   *)
(* be found.                                                               *)
LEMMA PassExtract ==
  ASSUME Typed, ExtractInv, Extracting, m' = m + 1,
         UNCHANGED <<pc, retrieved, answer, citations, seen>>,
         marker \in seen \/ marker[1] \notin Matchable \/ Matches(marker) = {}
  PROVE  ExtractInv'
<1>1. m \in Nat /\ m \in 1..(m' - 1) /\ 1..(m - 1) \subseteq 1..(m' - 1)
  BY DEF Typed, TypeOK
<1>2. \A j \in 1..(m' - 1) : j \in 1..(m - 1) \/ j = m
  BY <1>1
<1>3. \A key : Matches(key)' = Matches(key)
  BY DEF Matches, Key
<1>4. CitedIsSeen'
  BY DEF ExtractInv, CitedIsSeen, Key
<1>5. NamedIsSeen'
  BY <1>1, <1>2, <1>3 DEF ExtractInv, NamedIsSeen, marker
<1>6. NamedBefore'
  <2>1. ASSUME NEW j \in 1..Len(citations), NEW k \in 1..Len(citations), j < k
        PROVE  \E i \in 1..(m' - 1) : /\ answer.markers[i] = Key(citations[j])
                                      /\ \A h \in 1..i : answer.markers[h] # Key(citations[k])
    BY <1>1, <2>1 DEF ExtractInv, NamedBefore, InOrder
  <2>2. InOrder(citations, answer.markers, m' - 1)
    BY <2>1 DEF InOrder
  <2> QED
    BY <2>2 DEF NamedBefore
<1> QED
  BY <1>4, <1>5, <1>6 DEF ExtractInv, AllMarkers, Extracting

LEMMA CiteExtract ==
  ASSUME Typed, ExtractInv, Cite
  PROVE  ExtractInv'
<1> DEFINE c == [doc |-> Found(marker).doc, index |-> Found(marker).index]
           n == Len(citations)
<1>1. m \in Nat /\ m \in 1..(m' - 1) /\ 1..(m - 1) \subseteq 1..(m' - 1)
      /\ \A j \in 1..(m' - 1) : j \in 1..(m - 1) \/ j = m
  BY DEF Typed, TypeOK, Cite
<1>2. PICK f \in 1..Len(retrieved) : Found(marker) = retrieved[f] /\ Key(retrieved[f]) = marker
  BY FoundIsRetrieved DEF Cite, Typed
<1>3. Key(c) = marker
  BY <1>2 DEF Key
<1>4. c \in Chunk
  <2>1. Found(marker) \in RetrievedChunk
    BY <1>2 DEF Typed, TypeOK
  <2> QED
    BY <2>1 DEF RetrievedChunk, Chunk
<1>5. /\ n \in Nat /\ Len(citations') = n + 1
      /\ \A k \in 1..n : citations'[k] = citations[k]
      /\ citations'[n + 1] = c
  BY <1>4, AppendProperties DEF Cite, Typed, TypeOK
<1>6. /\ 1..Len(citations') = 1..n \cup {n + 1}
      /\ \A k \in 1..n : Key(citations'[k]) = Key(citations[k])
      /\ Key(citations'[n + 1]) = marker
  BY <1>3, <1>5 DEF Key
<1>7. CitedIsSeen'
  <2>1. \A key \in seen' : \E k \in 1..Len(citations') : Key(citations'[k]) = key
    BY <1>6 DEF Cite, ExtractInv, CitedIsSeen
  <2>2. \A k \in 1..Len(citations') : Key(citations'[k]) \in seen'
    BY <1>6 DEF Cite, ExtractInv, CitedIsSeen
  <2>3. ASSUME NEW k \in 1..Len(citations')
        PROVE  \E j \in 1..Len(retrieved) :
                 retrieved[j].doc = citations'[k].doc /\ retrieved[j].index = citations'[k].index
    <3>1. CASE k \in 1..n
      <4>1. citations'[k] = citations[k] /\ k \in 1..Len(citations)
        BY <1>5, <3>1
      <4> QED
        BY <4>1 DEF ExtractInv, CitedIsSeen
    <3>2. CASE k = n + 1
      BY <1>2, <1>5, <3>2
    <3> QED
      BY <1>6, <3>1, <3>2
  <2> QED
    BY <2>1, <2>2, <2>3 DEF CitedIsSeen, Cite
<1>8. NamedIsSeen'
  <2>1. \A key : Matches(key)' = Matches(key)
    BY DEF Matches, Key, Cite
  <2> QED
    BY <1>1, <2>1 DEF ExtractInv, NamedIsSeen, marker, Cite
<1>9. NamedBefore'
  <2>1. \A h \in 1..(m - 1) : answer.markers[h] # marker
    BY DEF ExtractInv, NamedIsSeen, Cite
  <2>2. ASSUME NEW j \in 1..Len(citations'), NEW k \in 1..Len(citations'), j < k
        PROVE  \E i \in 1..(m' - 1) : /\ answer.markers[i] = Key(citations'[j])
                                      /\ \A h \in 1..i : answer.markers[h] # Key(citations'[k])
    <3>1. j \in 1..n
      BY <1>5, <2>2
    <3>2. CASE k \in 1..n
      <4>1. PICK i \in 1..(m - 1) : /\ answer.markers[i] = Key(citations[j])
                                    /\ \A h \in 1..i : answer.markers[h] # Key(citations[k])
        BY <2>2, <3>1, <3>2 DEF ExtractInv, NamedBefore, InOrder
      <4> QED
        BY <1>1, <1>6, <3>1, <3>2, <4>1
    <3>3. CASE k = n + 1
      <4>1. PICK i \in 1..(m - 1) : answer.markers[i] = Key(citations[j])
        BY <3>1 DEF ExtractInv, CitedIsSeen, NamedIsSeen
      <4>2. \A h \in 1..i : h \in 1..(m - 1)
        BY <1>1
      <4> QED
        BY <1>1, <1>6, <2>1, <3>1, <3>3, <4>1, <4>2
    <3> QED
      BY <1>6, <3>2, <3>3
  <2>3. InOrder(citations', answer.markers, m' - 1)
    BY <2>2 DEF InOrder
  <2>4. UNCHANGED answer
    BY DEF Cite
  <2> QED
    BY <2>3, <2>4 DEF NamedBefore
<1> QED
  BY <1>7, <1>8, <1>9 DEF ExtractInv, AllMarkers, Cite, Extracting

LEMMA NextExtract == Typed /\ ExtractInv /\ Next => ExtractInv'
<1> SUFFICES ASSUME Typed, ExtractInv, Next PROVE ExtractInv'
  OBVIOUS
<1>1. CASE Search \/ Generate
  <2>1. /\ m' = 1 /\ citations' = <<>> /\ seen' = {} /\ Len(citations') = 0
        /\ pc' # "done"
    BY <1>1, EmptySeq DEF Search, Generate, Typed, Unstarted
  <2> QED
    BY <2>1 DEF ExtractInv, CitedIsSeen, NamedIsSeen, NamedBefore, InOrder, AllMarkers
<1>2. CASE Signal
  <2>1. UNCHANGED <<retrieved, answer, m, citations, seen>> /\ m > Len(answer.markers)
    BY <1>2 DEF Signal
  <2>2. CitedIsSeen'
    BY <2>1 DEF ExtractInv, CitedIsSeen, Key
  <2>3. NamedIsSeen'
    BY <2>1 DEF ExtractInv, NamedIsSeen, Matches, Key
  <2>4. NamedBefore'
    BY <2>1 DEF ExtractInv, NamedBefore
  <2> QED
    BY <2>1, <2>2, <2>3, <2>4 DEF ExtractInv, AllMarkers
<1>3. CASE Drop \/ Repeat
  BY <1>3, PassExtract DEF Drop, Repeat
<1> QED
  BY <1>1, <1>2, <1>3, CiteExtract DEF Next

LEMMA StutterExtract == Typed /\ ExtractInv /\ UNCHANGED vars => ExtractInv'
  BY DEF ExtractInv, CitedIsSeen, NamedIsSeen, NamedBefore, AllMarkers, Matches, Key,
         vars, signals

LEMMA InitExtract == Init => ExtractInv
  BY InitTypes, UnstartedExtract DEF Init

LEMMA ExtractHolds == Spec => [](Typed /\ ExtractInv)
  BY TypedHolds, InitExtract, NextExtract, StutterExtract, PTL DEF Spec

-----------------------------------------------------------------------------
LEMMA ExtractImpliesRetrieved == Typed /\ ExtractInv => CitationsAreRetrieved
<1> SUFFICES ASSUME Typed, ExtractInv, NEW k \in 1..Len(citations)
             PROVE  \E j \in 1..Len(answer.markers) :
                      answer.markers[j] = <<NameOf[citations[k].doc], citations[k].index>>
  BY DEF CitationsAreRetrieved, ExtractInv, CitedIsSeen
<1>1. PICK j \in 1..(m - 1) : answer.markers[j] = Key(citations[k])
  BY DEF ExtractInv, CitedIsSeen, NamedIsSeen
<1>2. j \in 1..Len(answer.markers)
  BY DEF Typed, TypeOK, Text
<1> QED
  BY <1>1, <1>2 DEF Key

(* No text makes the extractor cite what was not retrieved, or not named.  *)
THEOREM CitationsAlwaysRetrieved == Spec => []CitationsAreRetrieved
  BY ExtractHolds, ExtractImpliesRetrieved, PTL

(* FirstNamed finds the first marker that names a chunk, if there is one.  *)
LEMMA FirstNamedIsLeast ==
  ASSUME Typed, NEW c, NEW i \in 1..Len(answer.markers), answer.markers[i] = Key(c)
  PROVE  /\ FirstNamed(c) \in 1..Len(answer.markers)
         /\ answer.markers[FirstNamed(c)] = Key(c)
         /\ FirstNamed(c) <= i
<1> DEFINE S == {j \in 1..Len(answer.markers) : answer.markers[j] = Key(c)}
<1>1. Len(answer.markers) \in Nat
  BY DEF Typed, TypeOK, Text
<1>2. S \in SUBSET Nat /\ i \in S
  BY <1>1
<1>3. PICK x \in S : \A y \in S : x <= y
  BY <1>2, LeastNat
<1>4. \A k \in 1..(x - 1) : answer.markers[k] # answer.markers[x]
  BY <1>1, <1>3
<1>5. \E j \in 1..Len(answer.markers) :
        /\ answer.markers[j] = <<NameOf[c.doc], c.index>>
        /\ \A k \in 1..(j - 1) : answer.markers[k] # answer.markers[j]
  BY <1>3, <1>4 DEF Key
<1>6. /\ FirstNamed(c) \in 1..Len(answer.markers)
      /\ answer.markers[FirstNamed(c)] = <<NameOf[c.doc], c.index>>
      /\ \A k \in 1..(FirstNamed(c) - 1) : answer.markers[k] # answer.markers[FirstNamed(c)]
  BY <1>5 DEF FirstNamed
<1> QED
  BY <1>1, <1>6 DEF Key

LEMMA ExtractImpliesOrder == Typed /\ ExtractInv => CitationsInOrder
<1> SUFFICES ASSUME Typed, ExtractInv,
                    NEW j \in 1..Len(citations), NEW k \in 1..Len(citations), j < k
             PROVE  FirstNamed(citations[j]) < FirstNamed(citations[k])
  BY DEF CitationsInOrder
<1> DEFINE first == FirstNamed(citations[j])
           second == FirstNamed(citations[k])
<1>1. PICK i \in 1..(m - 1) : /\ answer.markers[i] = Key(citations[j])
                              /\ \A h \in 1..i : answer.markers[h] # Key(citations[k])
  BY DEF ExtractInv, NamedBefore, InOrder
<1>2. PICK g \in 1..(m - 1) : answer.markers[g] = Key(citations[k])
  BY DEF ExtractInv, CitedIsSeen, NamedIsSeen
<1>3. i \in 1..Len(answer.markers) /\ g \in 1..Len(answer.markers)
      /\ Len(answer.markers) \in Nat
  BY DEF Typed, TypeOK, Text
<1>4. first \in 1..Len(answer.markers) /\ first <= i
  BY <1>1, <1>3, FirstNamedIsLeast
<1>5. second \in 1..Len(answer.markers) /\ answer.markers[second] = Key(citations[k])
  BY <1>2, <1>3, FirstNamedIsLeast
<1>6. ~(second <= i)
  BY <1>1, <1>3, <1>5
<1> QED
  BY <1>3, <1>4, <1>5, <1>6

(* One citation for each source, in the order of the text, however many    *)
(* markers the text has.                                                   *)
THEOREM CitationsAlwaysInOrder == Spec => []CitationsInOrder
  BY ExtractHolds, ExtractImpliesOrder, PTL

LEMMA ExtractImpliesNamed == Typed /\ ExtractInv => NamedIsCited
<1> SUFFICES ASSUME Typed, ExtractInv, pc = "done",
                    NEW j \in 1..Len(answer.markers), NamesRetrieved(j)
             PROVE  \E k \in 1..Len(citations) : Key(citations[k]) = answer.markers[j]
  BY DEF NamedIsCited
<1>1. j \in 1..(m - 1)
  BY DEF Typed, TypeOK, Text, ExtractInv, AllMarkers
<1>2. answer.markers[j][1] \in Matchable /\ Matches(answer.markers[j]) # {}
  BY DEF NamesRetrieved, Matches
<1>3. answer.markers[j] \in seen
  BY <1>1, <1>2 DEF ExtractInv, NamedIsSeen
<1> QED
  BY <1>3 DEF ExtractInv, CitedIsSeen

(* No source is left out, for any retrieval and any text.                  *)
THEOREM NamedIsAlwaysCited == Spec => []NamedIsCited
  BY ExtractHolds, ExtractImpliesNamed, PTL

-----------------------------------------------------------------------------
(* The signals.  Inductive with: at the end they are of the text and of    *)
(* the citations; and every name that is cited can be matched.             *)
Signals ==
  pc = "done" =>
    /\ abstained = answer.phrase
    /\ citations_missing = (~answer.blank /\ citations = <<>> /\ ~answer.phrase)

SeenMatchable == \A key \in seen : key[1] \in Matchable

SignalInv == Signals /\ SeenMatchable

LEMMA SignalsHold == Spec => []SignalInv
<1>1. Init => SignalInv
  BY DEF Init, Fresh, SignalInv, Signals, SeenMatchable
<1>2. SignalInv /\ [Next]_vars => SignalInv'
  BY DEF Next, Search, Generate, Drop, Repeat, Cite, Signal, Extracting, vars, signals,
         SignalInv, Signals, SeenMatchable
<1> QED
  BY <1>1, <1>2, PTL DEF Spec

LEMMA NothingCited ==
  ASSUME Typed, ExtractInv, SignalInv, pc = "done"
  PROVE  citations = <<>> <=> \A j \in 1..Len(answer.markers) : ~NamesRetrieved(j)
<1>1. citations \in Seq(Chunk) /\ Len(citations) \in Nat
  BY DEF Typed, TypeOK
<1>2. ASSUME NEW j \in 1..Len(answer.markers), NamesRetrieved(j) PROVE citations # <<>>
  BY <1>2, ExtractImpliesNamed DEF NamedIsCited
<1>3. ASSUME citations # <<>> PROVE \E j \in 1..Len(answer.markers) : NamesRetrieved(j)
  <2>1. 1 \in 1..Len(citations)
    BY <1>1, <1>3
  <2>2. Key(citations[1]) \in seen
    BY <2>1 DEF ExtractInv, CitedIsSeen
  <2>3. PICK j \in 1..(m - 1) : answer.markers[j] = Key(citations[1])
    BY <2>2 DEF ExtractInv, NamedIsSeen
  <2>4. j \in 1..Len(answer.markers)
    BY DEF Typed, TypeOK, Text
  <2>5. answer.markers[j][1] \in Matchable
    BY <2>2, <2>3 DEF SignalInv, SeenMatchable
  <2>6. PICK k \in 1..Len(retrieved) : Key(retrieved[k]) = Key(citations[1])
    BY <2>1 DEF ExtractInv, CitedIsSeen, Key
  <2> QED
    BY <2>3, <2>4, <2>5, <2>6 DEF NamesRetrieved
<1> QED
  BY <1>2, <1>3

(* The signal is of what the text names, for any retrieval and any text    *)
(* that is not blank and does not abstain.                                 *)
THEOREM MissingAlwaysMeansUnnamed == Spec => []MissingMeansUnnamed
<1>1. Typed /\ ExtractInv /\ SignalInv => MissingMeansUnnamed
  <2> SUFFICES ASSUME Typed, ExtractInv, SignalInv, pc = "done", ~answer.blank, ~answer.phrase
               PROVE  citations_missing
                        <=> \A j \in 1..Len(answer.markers) : ~NamesRetrieved(j)
    BY DEF MissingMeansUnnamed
  <2>1. citations_missing = (~answer.blank /\ citations = <<>> /\ ~answer.phrase)
    BY DEF SignalInv, Signals
  <2> QED
    BY <2>1, NothingCited
<1> QED
  BY <1>1, ExtractHolds, SignalsHold, PTL

-----------------------------------------------------------------------------
LEMMA ExtractImpliesShown == Typed /\ ExtractInv => ShownIsCited
<1> SUFFICES ASSUME Typed, ExtractInv, pc = "done",
                    NEW j \in 1..Len(retrieved), PlainlyShown(j),
                    NEW i \in 1..Len(answer.markers),
                    answer.markers[i] = <<LabelOf(retrieved[j]), retrieved[j].index>>
             PROVE  \E k \in 1..Len(citations) : /\ citations[k].doc = retrieved[j].doc
                                                 /\ citations[k].index = retrieved[j].index
  BY DEF ShownIsCited
<1> DEFINE key == Key(retrieved[j])
<1>1. answer.markers[i] = key /\ key[1] \in Matchable
  BY DEF PlainlyShown, Key
<1>2. j \in Matches(key)
  BY DEF Matches
<1>3. i \in 1..(m - 1)
  BY DEF Typed, TypeOK, Text, ExtractInv, AllMarkers
<1>4. key \in seen
  BY <1>1, <1>2, <1>3 DEF ExtractInv, NamedIsSeen
<1>5. PICK k \in 1..Len(citations) : Key(citations[k]) = key
  BY <1>4 DEF ExtractInv, CitedIsSeen
<1>6. PICK h \in 1..Len(retrieved) :
        retrieved[h].doc = citations[k].doc /\ retrieved[h].index = citations[k].index
  BY DEF ExtractInv, CitedIsSeen
<1>7. Key(retrieved[h]) = key
  BY <1>5, <1>6 DEF Key
<1>8. h = j
  BY <1>7 DEF PlainlyShown, Key
<1> QED
  BY <1>6, <1>8

(* A chunk that the prompt shows plainly and the text names is cited, for  *)
(* any names, any escaping and any expression.                             *)
THEOREM ShownIsAlwaysCited == Spec => []ShownIsCited
  BY ExtractHolds, ExtractImpliesShown, PTL

=============================================================================
