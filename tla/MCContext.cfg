SPECIFICATION Spec
CONSTANTS
    OVERLAP = 2
    ChunkSizes = {0, 1, 2, 3, 5, 9}
    Lengths = {3, 7}
    UsedKinds = {"ssn", "salary", "vin", "vin_lookalike", "confidential_keyword"}
    SignalLengths = {2, 3, 4}
    Texts <- MCApartTexts
    Ceilings = {1, 2}
INVARIANTS
    ContextTypeOK
    WindowsOverlap
    NoSignalPasses
PROPERTIES
    GovernEnds
CHECK_DEADLOCK FALSE
