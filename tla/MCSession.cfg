SPECIFICATION Spec
CONSTANTS
    retrieval = retrieval
    analysis = analysis
    summary = summary
    result = result
    report = report
    model = model
    rate = rate
    NoRequest = NoRequest
    AgentIds <- MCAgentIds
    OutputTypes <- MCTypes
    Fields <- MCFields
    Levels <- MCLevels
    Products <- MCProducts
    Requests <- MCRequests
    MaxOutputs = 2
    MaxReads = 2
INVARIANTS
    SessionTypeOK
    OutputsKept
    NeedToKnow
    NoDownwardFlow
CHECK_DEADLOCK FALSE
