----------------------------- MODULE Classifier -----------------------------
(***************************************************************************)
(* The classifier of context_governance/middleware.py: heuristic_classify, *)
(* detect_pii and redact_pii over a text that is abstracted to its         *)
(* signals, the stretches of characters that some pattern or keyword       *)
(* matches.                                                                *)
(***************************************************************************)
EXTENDS Sensitivity, FiniteSetsExt

\* "email" stands for the PII patterns that make a chunk CONFIDENTIAL, "ssn"
\* for those that make it RESTRICTED, "salary" for those of them whose
\* placeholder, [REDACTED:SALARY] or [REDACTED:BIRTH_DATE], is a keyword again.
\* A "vin_lookalike" matches the VIN pattern but has no digit or no letter.
Kinds == {"email", "ssn", "salary", "vin", "vin_lookalike",
          "confidential_keyword", "restricted_keyword"}

\* Characters are numbered from 0; a stretch is the characters from..to - 1.
Signal == [kind : Kinds, from : Nat, to : Nat]

----------------------------------------------------------------------------

\* The VIN pattern is tried once: its first match decides.
VinPattern(signals) == {s \in signals : s.kind \in {"vin", "vin_lookalike"}}

FirstVinMatch(signals) ==
    {s \in VinPattern(signals) :
        s.kind = "vin" /\ \A t \in VinPattern(signals) : s.from <= t.from}

Matches(signals) == (signals \ VinPattern(signals)) \cup FirstVinMatch(signals)

IsPii(signal) == signal.kind \in {"email", "ssn", "salary", "vin"}

LevelOf(signal) ==
    IF signal.kind \in {"ssn", "salary", "restricted_keyword"} THEN RESTRICTED
    ELSE CONFIDENTIAL

\* The default is INTERNAL.
Classify(signals) == Max({INTERNAL} \cup {LevelOf(s) : s \in Matches(signals)})

DetectPii(signals) == \E s \in Matches(signals) : IsPii(s)

\* redact_pii replaces every match of every PII pattern.
Redacted(signals) == {s \in signals : IsPii(s) \/ s.kind = "vin_lookalike"}

\* The text after redact_pii, classified again.
ClassifyRedacted(signals) ==
    IF \E s \in signals : s.kind = "salary" THEN RESTRICTED
    ELSE Classify(signals \ Redacted(signals))

=============================================================================
