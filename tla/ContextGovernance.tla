------------------------- MODULE ContextGovernance -------------------------
(***************************************************************************)
(* ContextGovernanceMiddleware.govern (context_governance/middleware.py):  *)
(* a text is split into overlapping chunks, each chunk is classified, and  *)
(* one above the ceiling of the receiving agent is redacted, stops the     *)
(* transfer or is only logged.  A text is its length and the signals in    *)
(* it: the stretches of characters that some pattern or keyword of the     *)
(* classifier matches.  A chunk shows a signal it holds in full.           *)
(***************************************************************************)
EXTENDS Classifier

CONSTANTS
    OVERLAP,
    ChunkSizes,       \* the chunk_size arguments; the constructor takes 0, too
    Texts,            \* the texts governed
    Ceilings          \* max_sensitivity of the receiving agents

ASSUME ContextAssumption ==
    /\ OVERLAP \in Nat
    /\ ChunkSizes \subseteq Nat
    /\ Texts \subseteq [length : Nat, signals : SUBSET Signal]
    /\ \A x \in Texts : \A s \in x.signals : s.from < s.to /\ s.to <= x.length
    /\ Ceilings \subseteq SensitivityLevel

VARIABLES
    text, chunkSize, mode, ceiling,   \* the arguments of the call
    pc,               \* "split", "govern", "done" or "raised"
    i,                \* where the next chunk begins
    rawChunks,        \* the chunks not yet governed, as stretches
    classified,       \* the chunks governed, with what is made of their text
    maxSensitivity

vars == <<text, chunkSize, mode, ceiling, pc, i, rawChunks, classified,
          maxSensitivity>>
arguments == <<text, chunkSize, mode, ceiling>>

----------------------------------------------------------------------------
(* The signals that the classifier sees in a chunk                         *)

Holds(chunk, signal) == chunk.from <= signal.from /\ signal.to <= chunk.to

InChunk(chunk) == {s \in text.signals : Holds(chunk, s)}

----------------------------------------------------------------------------
(* _split_into_chunks                                                      *)

\* Mutant: no fallback for a chunk size that the overlap uses up.
StepWithoutFallback(size) == size - OVERLAP

\* Mutant: the windows meet and do not overlap.
StepOfWholeChunk(size) == size

Step(size) ==
    IF size <= OVERLAP THEN size ELSE Max({size - OVERLAP, 1})

Stretch(from, to) == [from |-> from, to |-> to]

SplitNothing ==
    /\ pc = "split"
    /\ text.length <= chunkSize
    /\ rawChunks' = IF text.length = 0 THEN {} ELSE {Stretch(0, text.length)}
    /\ pc' = "govern"
    /\ UNCHANGED <<arguments, i, classified, maxSensitivity>>

SplitOne ==
    LET end == Min({i + chunkSize, text.length}) IN
    /\ pc = "split"
    /\ text.length > chunkSize
    /\ rawChunks' = rawChunks \cup {Stretch(i, end)}
    /\ IF end >= text.length
       THEN pc' = "govern" /\ i' = i
       ELSE pc' = pc /\ i' = i + Step(chunkSize)
    /\ UNCHANGED <<arguments, classified, maxSensitivity>>

----------------------------------------------------------------------------
(* govern                                                                  *)

NextChunk ==
    CHOOSE c \in rawChunks : \A d \in rawChunks : c.from <= d.from

\* Mutant: a redacted chunk is not classified again.
PassAfterRedaction(signals) == "pii_removed"

\* What REDACT makes of a chunk above the ceiling.
Redact(signals) ==
    IF DetectPii(signals) /\ ClassifyRedacted(signals) <= ceiling
    THEN "pii_removed" ELSE "withheld"

\* What becomes of a chunk that is not blocked.
Treatment(signals) ==
    IF Classify(signals) > ceiling /\ mode = "REDACT"
    THEN Redact(signals) ELSE "passed"

GovernChunk ==
    LET chunk   == NextChunk
        signals == InChunk(chunk)
    IN  /\ pc = "govern"
        /\ rawChunks # {}
        /\ ~(mode = "BLOCK" /\ Classify(signals) > ceiling)
        /\ rawChunks' = rawChunks \ {chunk}
        /\ classified' = classified \cup
               {[chunk |-> chunk, treatment |-> Treatment(signals)]}
        /\ maxSensitivity' = Max({maxSensitivity, Classify(signals)})
        /\ UNCHANGED <<arguments, pc, i>>

\* ContextSensitivityViolation: the chunks governed so far are lost.
Block ==
    /\ pc = "govern"
    /\ rawChunks # {}
    /\ mode = "BLOCK"
    /\ Classify(InChunk(NextChunk)) > ceiling
    /\ pc' = "raised"
    /\ classified' = {}
    /\ UNCHANGED <<arguments, i, rawChunks, maxSensitivity>>

Return ==
    /\ pc = "govern"
    /\ rawChunks = {}
    /\ pc' = "done"
    /\ UNCHANGED <<arguments, i, rawChunks, classified, maxSensitivity>>

----------------------------------------------------------------------------

Init ==
    /\ text \in Texts
    /\ chunkSize \in ChunkSizes
    /\ mode \in {"REDACT", "BLOCK", "AUDIT"}
    /\ ceiling \in Ceilings
    /\ pc = "split"
    /\ i = 0
    /\ rawChunks = {}
    /\ classified = {}
    /\ maxSensitivity = PUBLIC

Next == SplitNothing \/ SplitOne \/ GovernChunk \/ Block \/ Return

\* The interpreter carries on with a call once it has begun.
Spec == Init /\ [][Next]_vars /\ WF_vars(Next)

----------------------------------------------------------------------------
(* Properties                                                              *)

\* Type invariant: chunks lie in the text, are not longer than chunk_size and
\* are not governed before all of them are cut.
ContextTypeOK ==
    /\ pc \in {"split", "govern", "done", "raised"}
    /\ i \in 0..text.length
    /\ \A c \in rawChunks \cup {d.chunk : d \in classified} :
          /\ 0 <= c.from /\ c.from <= c.to /\ c.to <= text.length
          /\ c.from = c.to => chunkSize = 0
          /\ c.to - c.from <= chunkSize
    /\ pc = "split" => classified = {}
    /\ maxSensitivity \in SensitivityLevel

Cut == rawChunks \cup {d.chunk : d \in classified}

\* Windows: when chunks are longer than the overlap, every stretch of at most
\* OVERLAP + 1 characters that begins before the next chunk is in one chunk,
\* so a pattern of that length is seen whole (_split_into_chunks, "prevent
\* PII patterns from being split across chunk boundaries").
WindowsOverlap ==
    pc \in {"govern", "done"} /\ chunkSize > OVERLAP =>
        \A from \in 0..(text.length - 1), n \in 1..(OVERLAP + 1) :
            from + n <= text.length =>
                \E c \in Cut : c.from <= from /\ from + n <= c.to

\* A real VIN behind a look-alike of the same chunk is not seen in that chunk.
Shadowed(signal, chunk) ==
    /\ signal.kind = "vin"
    /\ \E t \in InChunk(chunk) :
          t.kind = "vin_lookalike" /\ t.from < signal.from

AboveCeiling(signal) ==
    signal.kind # "vin_lookalike" /\ LevelOf(signal) > ceiling

\* The governed chunks that hold a signal in full.
Showing(signal) == {d \in classified : Holds(d.chunk, signal)}

\* Not to be found in what is made of a chunk: a keyword stays when PII is
\* removed, and the placeholder of a salary is a keyword again.
Removed(signal, treatment) ==
    \/ treatment = "withheld"
    \/ treatment = "pii_removed" /\ IsPii(signal) /\ signal.kind # "salary"

\* No whole signal passes: of a signal above the ceiling, every governed chunk
\* that holds it was redacted so that it is gone, or hides it behind a
\* look-alike of that same chunk; BLOCK lets no other such chunk through, and
\* with windows longer than the overlap some chunk holds every signal of up to
\* OVERLAP + 1 characters, wherever it is in the text (govern).
NoSignalPasses ==
    pc = "done" /\ mode # "AUDIT" =>
        \A s \in {t \in text.signals : AboveCeiling(t)} :
            /\ chunkSize > OVERLAP /\ s.to - s.from <= OVERLAP + 1 =>
                  Showing(s) # {}
            /\ \A d \in Showing(s) :
                  \/ Shadowed(s, d.chunk)
                  \/ mode = "REDACT" /\ Removed(s, d.treatment)

\* A call ends, and not only for chunks longer than the overlap: the loop makes
\* progress for every chunk size but 0, which the constructor accepts and with
\* which a call on a text that is not empty goes on cutting empty chunks.
GovernEnds ==
    /\ chunkSize > 0 \/ text.length = 0 => <>(pc \in {"done", "raised"})
    /\ chunkSize = 0 /\ text.length > 0 => [](pc = "split")

=============================================================================
