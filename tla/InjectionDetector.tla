-------------------------- MODULE InjectionDetector --------------------------
(***************************************************************************)
(* PromptInjectionDetector (injection_detection/detector.py) and the       *)
(* validator of InjectionAssessment (core/models.py).  A text is the       *)
(* number of patterns of each of the four layers that are found in it.     *)
(***************************************************************************)
EXTENDS Integers

NONE     == 0
LOW      == 1
MEDIUM   == 2
HIGH     == 3
CRITICAL == 4
InjectionRisk == NONE..CRITICAL

\* The sizes of the four pattern lists.
Hits == [critical : 0..10, boundary : 0..6, tool : 0..7, delimiter : 0..3]

HIGH_THRESHOLD == 2

AtMost(g, h) == \A layer \in DOMAIN g : g[layer] <= h[layer]

\* The risk of a layer of which one hit is a suspicion.
LayerRisk(hits) ==
    IF hits >= HIGH_THRESHOLD THEN HIGH
    ELSE IF hits >= 1 THEN MEDIUM
    ELSE NONE

\* _max_risk
MaxRisk(current, candidate) ==
    IF candidate > current THEN candidate ELSE current

\* Mutant: a delimiter sets the risk and does not raise it.
RiskSetByDelimiter(hits) ==
    IF hits.delimiter > 0 THEN HIGH
    ELSE MaxRisk(MaxRisk(IF hits.critical > 0 THEN CRITICAL ELSE NONE,
                         LayerRisk(hits.boundary)),
                 LayerRisk(hits.tool))

\* The layers in their order.
RiskLevel(hits) ==
    MaxRisk(MaxRisk(MaxRisk(IF hits.critical > 0 THEN CRITICAL ELSE NONE,
                            LayerRisk(hits.boundary)),
                    LayerRisk(hits.tool)),
            IF hits.delimiter > 0 THEN HIGH ELSE NONE)

\* Mutant: the assessment is not validated.
BlockedAsAsked(risk, blockOn) == risk >= blockOn

\* should_block as assess computes it, and as the validator of the assessment
\* forces it.
ShouldBlock(risk, blockOn) == risk >= blockOn \/ risk >= HIGH

Assess(hits, blockOn) ==
    [risk_level   |-> RiskLevel(hits),
     should_block |-> ShouldBlock(RiskLevel(hits), blockOn)]

=============================================================================
