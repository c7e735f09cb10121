SPECIFICATION Spec
CONSTANTS
    analyst = analyst
    admin = admin
    bot = bot
    brandA = brandA
    brandB = brandB
    delta = delta
    vin = vin
    note = note
    label = label
    read = read
    own = own
    either = either
    r1 = r1
    r2 = r2
    r3 = r3
    NoTemplate = NoTemplate
    UserIds <- MCUserIds
    AgentIds <- MCAgentIds
    AssetIds = {}
    Brands <- MCBrands
    Sources <- MCSources
    Columns <- MCColumns
    Rights <- MCRights
    Templates <- MCTemplates
    BrokenTemplates = {}
    Rows <- MCRows
    Users <- MCUsers
    Agents <- MCAgents
    TheAssets <- MCAssets
    Queries <- MCQueries
    Table <- MCTable
    TemplateCondition <- MCTemplateCondition
    BlockOn = {2, 4}
    Ceilings = {1, 2}
INVARIANTS
    
    
    PiiStaysBehind
    InjectionStopped
    EvidenceAccumulates
    ReceiverCeiling
CHECK_DEADLOCK FALSE
