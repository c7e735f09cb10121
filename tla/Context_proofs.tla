---------------------------- MODULE Context_proofs ----------------------------
(***************************************************************************)
(* Proofs about context governance: for every text, every chunk size and   *)
(* every overlap.                                                          *)
(*                                                                         *)
(* The invariant follows the loop that cuts the text: every stretch of at  *)
(* most OVERLAP + 1 characters that begins before the next chunk lies      *)
(* within a chunk.  What is governed later is no longer cut.               *)
(***************************************************************************)
EXTENDS ContextGovernance, Lemmas

Chunk == [from : Nat, to : Nat]

ArgumentsInv ==
    /\ text \in Texts
    /\ chunkSize \in ChunkSizes
    /\ mode \in {"REDACT", "BLOCK", "AUDIT"}
    /\ ceiling \in Ceilings

ChunkOK(c) ==
    /\ c \in Chunk
    /\ c.from <= c.to /\ c.to <= text.length
    /\ c.from = c.to => chunkSize = 0
    /\ c.to - c.from <= chunkSize

\* A governed chunk was treated as the signals in it ask for.
GovernedOK(d) ==
    /\ ChunkOK(d.chunk)
    /\ d.treatment = Treatment(InChunk(d.chunk))
    /\ mode = "BLOCK" => Classify(InChunk(d.chunk)) <= ceiling

\* Short stretches that begin before that place are in a chunk.
CoveredTo(place) ==
    \A from \in 0..text.length, n \in 1..(OVERLAP + 1) :
        from < place /\ from + n <= text.length =>
            \E c \in Cut : c.from <= from /\ from + n <= c.to

CoverInv ==
    chunkSize > OVERLAP =>
        /\ pc = "split" => CoveredTo(i)
        /\ pc \in {"govern", "done"} => CoveredTo(text.length)

IInv ==
    /\ ArgumentsInv
    /\ pc \in {"split", "govern", "done", "raised"}
    /\ i \in 0..text.length
    /\ pc = "split" => i = 0 \/ i < text.length
    /\ pc = "split" => classified = {}
    /\ pc = "done" => rawChunks = {}
    /\ maxSensitivity \in SensitivityLevel
    /\ \A c \in rawChunks : ChunkOK(c)
    /\ \A d \in classified : GovernedOK(d)
    /\ CoverInv

LEMMA InitIInv == Init => IInv
BY ContextAssumption
   DEF Init, IInv, ArgumentsInv, CoverInv, CoveredTo, SensitivityLevel,
       PUBLIC, SECRET

----------------------------------------------------------------------------
(* The steps                                                               *)

LEMMA ArgumentTypes ==
    ASSUME ArgumentsInv
    PROVE  /\ text.length \in Nat
           /\ chunkSize \in Nat
           /\ OVERLAP \in Nat
           /\ ceiling \in SensitivityLevel
           /\ text.signals \in SUBSET Signal
           /\ \A s \in text.signals : s.from < s.to /\ s.to <= text.length
BY ContextAssumption DEF ArgumentsInv

\* The loop moves on by no more than a chunk.
LEMMA StepBounds ==
    ASSUME ArgumentsInv
    PROVE  /\ Step(chunkSize) \in 0..chunkSize
           /\ chunkSize > OVERLAP => Step(chunkSize) = chunkSize - OVERLAP
<1>1. chunkSize \in Nat /\ OVERLAP \in Nat
  BY ArgumentTypes
<1>2. CASE chunkSize <= OVERLAP
  BY <1>1, <1>2 DEF Step
<1>3. CASE chunkSize > OVERLAP
  <2>1. chunkSize - OVERLAP \in Int /\ chunkSize - OVERLAP >= 1
    BY <1>1, <1>3
  <2>2. Max({chunkSize - OVERLAP, 1}) = chunkSize - OVERLAP
    BY <2>1, MaxOfTwo
  <2> QED BY <1>1, <1>3, <2>2 DEF Step
<1> QED BY <1>1, <1>2, <1>3

\* What is said of chunks does not change while the arguments stay.
LEMMA ChunksStay ==
    ASSUME UNCHANGED arguments
    PROVE  /\ ArgumentsInv => ArgumentsInv'
           /\ \A c : ChunkOK(c) => ChunkOK(c)'
           /\ \A d : GovernedOK(d) => GovernedOK(d)'
BY DEF arguments, ArgumentsInv, ChunkOK, GovernedOK, Treatment, Redact, InChunk

\* What is covered stays so while no chunk is lost.
LEMMA CoverStays ==
    ASSUME UNCHANGED arguments, Cut \subseteq Cut', NEW place, CoveredTo(place)
    PROVE  CoveredTo(place)'
BY DEF arguments, CoveredTo

LEMMA SplitNothingKeeps == IInv /\ SplitNothing => IInv'
<1> SUFFICES ASSUME IInv, SplitNothing PROVE IInv'
  OBVIOUS
<1>1. /\ pc = "split" /\ text.length <= chunkSize /\ pc' = "govern"
      /\ rawChunks' = IF text.length = 0 THEN {}
                      ELSE {Stretch(0, text.length)}
      /\ UNCHANGED <<arguments, i, classified, maxSensitivity>>
  BY DEF SplitNothing
<1>2. text' = text /\ chunkSize' = chunkSize
  BY <1>1 DEF arguments
<1>3. text.length \in Nat /\ ArgumentsInv /\ OVERLAP \in Nat
  BY ArgumentTypes DEF IInv
<1>4. text.length # 0 => ChunkOK(Stretch(0, text.length))
  BY <1>1, <1>3 DEF ChunkOK, Stretch, Chunk
<1>5. \A c \in rawChunks' : ChunkOK(c)'
  BY <1>1, <1>4, ChunksStay
<1>6. CoveredTo(text.length)'
  <2> SUFFICES ASSUME NEW from \in 0..text.length, NEW n \in 1..(OVERLAP + 1),
                      from < text.length, from + n <= text.length
               PROVE  \E c \in Cut' : c.from <= from /\ from + n <= c.to
    BY <1>2 DEF CoveredTo
  <2>1. Stretch(0, text.length) \in Cut'
    BY <1>1, <1>3 DEF Cut
  <2> QED BY <2>1 DEF Stretch
<1> QED BY <1>1, <1>2, <1>3, <1>5, <1>6, ChunksStay DEF IInv, CoverInv

LEMMA SplitOneKeeps == IInv /\ SplitOne => IInv'
<1> SUFFICES ASSUME IInv, SplitOne PROVE IInv'
  OBVIOUS
<1> DEFINE end == Min({i + chunkSize, text.length})
           chunk == Stretch(i, end)
<1>1. /\ pc = "split" /\ text.length > chunkSize
      /\ rawChunks' = rawChunks \cup {chunk}
      /\ IF end >= text.length
         THEN pc' = "govern" /\ i' = i
         ELSE pc' = pc /\ i' = i + Step(chunkSize)
      /\ UNCHANGED <<arguments, classified, maxSensitivity>>
  BY DEF SplitOne
<1>2. text' = text /\ chunkSize' = chunkSize
  BY <1>1 DEF arguments
<1>3. /\ text.length \in Nat /\ ArgumentsInv /\ OVERLAP \in Nat
      /\ chunkSize \in Nat /\ i \in Nat
  BY ArgumentTypes DEF IInv
<1>4. end = IF i + chunkSize <= text.length THEN i + chunkSize ELSE text.length
  BY <1>3, MinOfTwo
<1>5. i < text.length
  BY <1>1, <1>3 DEF IInv
<1>6. /\ end \in Nat /\ i <= end /\ end <= text.length /\ end - i <= chunkSize
      /\ end < text.length => end = i + chunkSize
      /\ i = end => chunkSize = 0
  BY <1>3, <1>4, <1>5
<1>7. chunk.from = i /\ chunk.to = end /\ chunk \in Chunk
  BY <1>3, <1>6 DEF Stretch, Chunk
<1> HIDE DEF end, chunk
<1>8. ChunkOK(chunk)
  BY <1>6, <1>7 DEF ChunkOK
<1>9. \A c \in rawChunks' : ChunkOK(c)'
  BY <1>1, <1>8, ChunksStay DEF IInv
<1>10. Cut \subseteq Cut' /\ chunk \in Cut'
  BY <1>1 DEF Cut
<1>11. /\ i' \in 0..text.length
       /\ pc' = "split" => i' < text.length /\ i' = i + Step(chunkSize)
       /\ pc' \in {"split", "govern"}
  BY <1>1, <1>3, <1>5, <1>6, StepBounds DEF IInv
\* The new chunk covers what begins in it up to the next one.
<1>12. ASSUME chunkSize > OVERLAP,
              NEW place \in Nat,
              place <= i + chunkSize - OVERLAP \/ end = text.length
       PROVE  CoveredTo(place)'
  <2> SUFFICES ASSUME NEW from \in 0..text.length, NEW n \in 1..(OVERLAP + 1),
                      from < place, from + n <= text.length
               PROVE  \E c \in Cut' : c.from <= from /\ from + n <= c.to
    BY <1>2 DEF CoveredTo
  <2>1. CASE from < i
    <3>1. CoveredTo(i)
      BY <1>1, <1>12 DEF IInv, CoverInv
    <3> QED BY <2>1, <3>1, <1>10 DEF CoveredTo
  <2>2. CASE from >= i
    <3>1. from + n <= end
      BY <1>3, <1>6, <1>12, <2>2
    <3> QED BY <1>7, <1>10, <2>2, <3>1
  <2> QED BY <1>3, <2>1, <2>2
<1>13. CoverInv'
  <2> SUFFICES ASSUME chunkSize > OVERLAP
               PROVE  /\ pc' = "split" => CoveredTo(i)'
                      /\ pc' \in {"govern", "done"} => CoveredTo(text.length)'
    BY <1>2 DEF CoverInv
  <2>1. CASE end >= text.length
    <3>1. end = text.length /\ pc' = "govern"
      BY <1>1, <1>3, <1>6, <2>1
    <3>2. CoveredTo(text.length)'
      BY <1>2, <1>3, <1>12, <3>1 DEF CoveredTo
    <3> QED BY <3>1, <3>2
  <2>2. CASE ~(end >= text.length)
    <3>1. pc' = "split" /\ i' = i + chunkSize - OVERLAP /\ i' \in Nat
      BY <1>1, <1>3, <2>2, StepBounds
    <3>2. ASSUME NEW place, place = i'
          PROVE  CoveredTo(place)'
      BY <1>12, <2>2, <3>1, <3>2
    <3>3. CoveredTo(i)'
      BY <3>2 DEF CoveredTo
    <3> QED BY <3>1, <3>3
  <2> QED BY <2>1, <2>2
<1> QED BY <1>1, <1>2, <1>3, <1>9, <1>11, <1>13, ChunksStay DEF IInv

\* The chunk that is governed next is one of those that wait.
LEMMA NextChunkWaits ==
    ASSUME IInv, rawChunks # {}
    PROVE  NextChunk \in rawChunks
<1> DEFINE from == [c \in rawChunks |-> c.from]
<1>1. \A c \in rawChunks : from[c] \in Nat
  BY DEF IInv, ChunkOK, Chunk
<1>2. PICK c \in rawChunks : \A d \in rawChunks : from[c] <= from[d]
  <2> HIDE DEF from
  <2> QED BY <1>1, LeastExists
<1>3. \E x \in rawChunks : \A d \in rawChunks : x.from <= d.from
  BY <1>2
<1> QED BY <1>3 DEF NextChunk

LEMMA GovernChunkKeeps == IInv /\ GovernChunk => IInv'
<1> SUFFICES ASSUME IInv, GovernChunk PROVE IInv'
  OBVIOUS
<1> DEFINE chunk == NextChunk
           signals == InChunk(chunk)
           d == [chunk |-> chunk, treatment |-> Treatment(signals)]
<1>1. /\ pc = "govern" /\ rawChunks # {}
      /\ ~(mode = "BLOCK" /\ Classify(signals) > ceiling)
      /\ rawChunks' = rawChunks \ {chunk}
      /\ classified' = classified \cup {d}
      /\ maxSensitivity' = Max({maxSensitivity, Classify(signals)})
      /\ UNCHANGED <<arguments, pc, i>>
  BY DEF GovernChunk
<1>2. text' = text /\ chunkSize' = chunkSize
  BY <1>1 DEF arguments
<1>3. chunk \in rawChunks /\ ChunkOK(chunk)
  BY <1>1, NextChunkWaits DEF IInv
<1>4. d.chunk = chunk /\ d.treatment = Treatment(signals)
  OBVIOUS
<1>5. Classify(signals) \in SensitivityLevel /\ ceiling \in SensitivityLevel
  BY ClassifyFacts, ArgumentTypes
     DEF IInv, SensitivityLevel, PUBLIC, INTERNAL, RESTRICTED, SECRET
<1>6. mode = "BLOCK" => Classify(signals) <= ceiling
  BY <1>1, <1>5 DEF SensitivityLevel, PUBLIC, SECRET
<1> HIDE DEF d
<1>7. GovernedOK(d)
  BY <1>3, <1>4, <1>6 DEF GovernedOK
<1>8. \A x \in classified' : GovernedOK(x)'
  BY <1>1, <1>7, ChunksStay DEF IInv
<1>9. \A c \in rawChunks' : ChunkOK(c)'
  BY <1>1, ChunksStay DEF IInv
<1>10. maxSensitivity' \in SensitivityLevel
  <2>1. Max({maxSensitivity, Classify(signals)})
            \in {maxSensitivity, Classify(signals)}
    BY <1>5, MaxOfLevels DEF IInv
  <2> QED BY <1>1, <1>5, <2>1 DEF IInv
<1>11. Cut \subseteq Cut'
  BY <1>1, <1>4 DEF Cut
<1>12. CoverInv'
  BY <1>1, <1>2, <1>11, CoverStays DEF IInv, CoverInv
<1>13. ArgumentsInv' /\ i' \in 0..text'.length
  BY <1>1, <1>2, ChunksStay DEF IInv
<1> QED BY <1>1, <1>8, <1>9, <1>10, <1>12, <1>13 DEF IInv

LEMMA EndsKeep == IInv /\ (Block \/ Return) => IInv'
<1> SUFFICES ASSUME IInv, Block \/ Return PROVE IInv'
  OBVIOUS
<1>1. /\ pc = "govern" /\ pc' \in {"raised", "done"}
      /\ pc' = "done" => rawChunks = {} /\ classified' = classified
      /\ classified' \subseteq classified
      /\ UNCHANGED <<arguments, i, rawChunks, maxSensitivity>>
  BY DEF Block, Return
<1>2. text' = text /\ chunkSize' = chunkSize
  BY <1>1 DEF arguments
<1>3. /\ ArgumentsInv'
      /\ \A c \in rawChunks' : ChunkOK(c)'
      /\ \A d \in classified' : GovernedOK(d)'
  BY <1>1, ChunksStay DEF IInv
<1>4. CoverInv'
  BY <1>1, <1>2, CoverStays DEF IInv, CoverInv, Cut
<1> QED BY <1>1, <1>2, <1>3, <1>4 DEF IInv

LEMMA NextIInv == IInv /\ [Next]_vars => IInv'
<1> SUFFICES ASSUME IInv, [Next]_vars PROVE IInv'
  OBVIOUS
<1>1. CASE UNCHANGED vars
  <2>1. UNCHANGED <<arguments, pc, i, rawChunks, classified, maxSensitivity>>
        /\ text' = text /\ chunkSize' = chunkSize
    BY <1>1 DEF vars, arguments
  <2>2. CoverInv'
    BY <2>1, CoverStays DEF IInv, CoverInv, Cut
  <2> QED BY <2>1, <2>2, ChunksStay DEF IInv
<1> QED BY <1>1, SplitNothingKeeps, SplitOneKeeps, GovernChunkKeeps, EndsKeep
        DEF Next

\* The inductive invariant of a call of govern.
THEOREM ContextInvariant == Spec => []IInv
BY InitIInv, NextIInv, PTL DEF Spec

----------------------------------------------------------------------------
(* What follows from it                                                    *)

\* Chunks lie in the text, and are not longer than chunk_size (ContextTypeOK).
THEOREM ContextTyped == Spec => []ContextTypeOK
<1>1. IInv => ContextTypeOK
  <2> SUFFICES ASSUME IInv PROVE ContextTypeOK
    OBVIOUS
  <2>1. \A c \in rawChunks \cup {d.chunk : d \in classified} : ChunkOK(c)
    BY DEF IInv, GovernedOK
  <2>2. \A c \in rawChunks \cup {d.chunk : d \in classified} :
            /\ 0 <= c.from /\ c.from <= c.to /\ c.to <= text.length
            /\ c.from = c.to => chunkSize = 0
            /\ c.to - c.from <= chunkSize
    BY <2>1 DEF ChunkOK, Chunk
  <2> QED BY <2>2 DEF IInv, ContextTypeOK
<1> QED BY <1>1, ContextInvariant, PTL

\* The windows overlap, for every text, chunk size and overlap: a stretch of
\* at most OVERLAP + 1 characters is whole in some chunk unless the chunks are
\* no longer than the overlap (_split_into_chunks).
THEOREM WindowsDoOverlap == Spec => []WindowsOverlap
<1>1. IInv => WindowsOverlap
  <2> SUFFICES ASSUME IInv, pc \in {"govern", "done"}, chunkSize > OVERLAP,
                      NEW from \in 0..(text.length - 1),
                      NEW n \in 1..(OVERLAP + 1), from + n <= text.length
               PROVE  \E c \in Cut : c.from <= from /\ from + n <= c.to
    BY DEF WindowsOverlap
  <2>1. CoveredTo(text.length)
    BY DEF IInv, CoverInv
  <2>2. from \in 0..text.length /\ from < text.length
    BY ArgumentTypes DEF IInv
  <2> QED BY <2>1, <2>2 DEF CoveredTo
<1> QED BY <1>1, ContextInvariant, PTL

\* A signal of a chunk that is not shadowed in it counts for its level, and one
\* that is not PII, or whose placeholder is a keyword, for its level after
\* redaction, too.
LEMMA ChunkShows ==
    ASSUME IInv, NEW chunk, NEW s \in InChunk(chunk),
           AboveCeiling(s), ~Shadowed(s, chunk)
    PROVE  /\ Classify(InChunk(chunk)) > ceiling
           /\ ~IsPii(s) \/ s.kind = "salary" =>
                  ClassifyRedacted(InChunk(chunk)) > ceiling
<1> DEFINE signals == InChunk(chunk)
           rest    == signals \ Redacted(signals)
<1>1. /\ text.signals \in SUBSET Signal /\ signals \subseteq text.signals
      /\ ceiling \in SensitivityLevel
  BY ArgumentTypes DEF IInv, InChunk
<1>2. s.kind # "vin_lookalike" /\ LevelOf(s) > ceiling
  BY DEF AboveCeiling
<1>3. s.kind = "vin" =>
          \A t \in signals : t.kind = "vin_lookalike" => s.from <= t.from
  BY <1>1 DEF Shadowed, Signal
<1>4. LevelOf(s) \in INTERNAL..RESTRICTED
  BY DEF LevelOf, INTERNAL, CONFIDENTIAL, RESTRICTED
<1>5. Classify(signals) > ceiling
  <2> HIDE DEF signals
  <2>1. s \in signals
    BY DEF signals
  <2>2. LevelOf(s) <= Classify(signals)
    BY <1>1, <1>2, <1>3, <2>1, SignalCounts
  <2> QED BY <1>1, <1>2, <1>4, <2>2, ClassifyFacts
          DEF SensitivityLevel, PUBLIC, INTERNAL, RESTRICTED, SECRET
<1>6. ASSUME ~IsPii(s) \/ s.kind = "salary"
      PROVE  ClassifyRedacted(signals) > ceiling
  <2>1. CASE \E t \in signals : t.kind = "salary"
    <3>1. ClassifyRedacted(signals) = RESTRICTED
      BY <2>1 DEF ClassifyRedacted
    <3> QED BY <1>1, <1>2, <1>4, <3>1
            DEF SensitivityLevel, PUBLIC, INTERNAL, RESTRICTED, SECRET
  <2>2. CASE ~\E t \in signals : t.kind = "salary"
    <3>1. ClassifyRedacted(signals) = Classify(rest)
      BY <2>2 DEF ClassifyRedacted
    <3>2. ~IsPii(s)
      BY <1>6, <2>2
    <3>3. s \in rest /\ rest \in SUBSET Signal /\ s.kind # "vin"
      BY <1>1, <1>2, <3>2 DEF Redacted, IsPii
    <3> HIDE DEF rest, signals
    <3>4. LevelOf(s) <= Classify(rest)
      BY <1>2, <3>3, SignalCounts
    <3> QED BY <1>1, <1>2, <1>4, <3>1, <3>4, ClassifyFacts
            DEF SensitivityLevel, PUBLIC, INTERNAL, RESTRICTED, SECRET
  <2> QED BY <2>1, <2>2
<1> QED BY <1>5, <1>6

\* No whole signal passes, for every text, chunk size and overlap: one above
\* the ceiling is in some chunk if it fits the windows, and each chunk that
\* holds it was redacted so that it is gone, or hides it behind a look-alike;
\* what BLOCK lets through has only the latter (govern).
THEOREM NoWholeSignalPasses == Spec => []NoSignalPasses
<1>1. IInv => NoSignalPasses
  <2> SUFFICES ASSUME IInv, pc = "done", mode # "AUDIT",
                      NEW s \in text.signals, AboveCeiling(s)
               PROVE
        /\ chunkSize > OVERLAP /\ s.to - s.from <= OVERLAP + 1 =>
              Showing(s) # {}
        /\ \A d \in Showing(s) :
              \/ Shadowed(s, d.chunk)
              \/ mode = "REDACT" /\ Removed(s, d.treatment)
    BY DEF NoSignalPasses
  <2>1. /\ s \in Signal /\ s.from < s.to /\ s.to <= text.length
        /\ text.length \in Nat /\ OVERLAP \in Nat /\ chunkSize \in Nat
        /\ ceiling \in SensitivityLevel
    BY ArgumentTypes DEF IInv
  <2>2. s.from \in Nat /\ s.to \in Nat
    BY <2>1 DEF Signal
  <2>3. ASSUME chunkSize > OVERLAP, s.to - s.from <= OVERLAP + 1
        PROVE  Showing(s) # {}
    <3>1. CoveredTo(text.length)
      BY <2>3 DEF IInv, CoverInv
    <3>2. PICK n \in 1..(OVERLAP + 1) : s.from + n = s.to
      BY <2>1, <2>2, <2>3
    <3>3. s.from < text.length /\ s.from + n <= text.length
      BY <2>1, <2>2, <3>2
    <3>4. PICK c \in Cut : c.from <= s.from /\ s.from + n <= c.to
      BY <2>1, <2>2, <3>1, <3>3 DEF CoveredTo
    <3>5. PICK d \in classified : c = d.chunk
      BY <3>4 DEF IInv, Cut
    <3> QED BY <3>2, <3>4, <3>5 DEF Showing, Holds
  <2>4. ASSUME NEW d \in Showing(s), ~Shadowed(s, d.chunk)
        PROVE  mode = "REDACT" /\ Removed(s, d.treatment)
    <3>1. d \in classified /\ s \in InChunk(d.chunk)
      BY DEF Showing, InChunk
    <3>2. /\ Classify(InChunk(d.chunk)) > ceiling
          /\ ~IsPii(s) \/ s.kind = "salary" =>
                 ClassifyRedacted(InChunk(d.chunk)) > ceiling
      BY <2>4, <3>1, ChunkShows
    <3>3. /\ Classify(InChunk(d.chunk)) \in Nat
          /\ ClassifyRedacted(InChunk(d.chunk)) \in Nat /\ ceiling \in Nat
      BY <2>1, ClassifyFacts
         DEF ClassifyRedacted, SensitivityLevel, PUBLIC, INTERNAL, RESTRICTED,
             SECRET
    <3>4. mode = "REDACT"
      BY <3>1, <3>2, <3>3 DEF IInv, ArgumentsInv, GovernedOK
    <3>5. d.treatment = Redact(InChunk(d.chunk))
      BY <3>1, <3>2, <3>4 DEF IInv, GovernedOK, Treatment
    <3>6. CASE d.treatment = "withheld"
      BY <3>4, <3>6 DEF Removed
    <3>7. CASE d.treatment # "withheld"
      <4>1. /\ d.treatment = "pii_removed"
            /\ ClassifyRedacted(InChunk(d.chunk)) <= ceiling
        BY <3>5, <3>7 DEF Redact
      <4> QED BY <3>2, <3>3, <3>4, <4>1 DEF Removed
    <3> QED BY <3>6, <3>7
  <2> QED BY <2>3, <2>4
<1> QED BY <1>1, ContextInvariant, PTL

=============================================================================
