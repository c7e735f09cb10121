SPECIFICATION Spec
CONSTANTS
    analyst = analyst
    bot = bot
    cost = cost
    parts = parts
    brandA = brandA
    brandB = brandB
    delta = delta
    vin = vin
    read = read
    own = own
    t1 = t1
    t2 = t2
    t3 = t3
    NoTemplate = NoTemplate
    UserIds <- MCUserIds
    AgentIds <- MCAgentIds
    AssetIds <- MCAssetIds
    Brands <- MCBrands
    Sources <- MCSources
    Columns <- MCColumns
    Rights <- MCRights
    Templates <- MCTemplates
    BrokenTemplates = {}
    Registrations <- MCRegistrations
    ConsentRecords <- MCConsentRecords
    Users <- MCUsers
    Agents <- MCAgents
    AssetLists <- MCAssetLists
    MaxWrites = 4
    Threads = {a, b}
    Tokens = {t1, t2, t3}
    Expiry <- MCExpiry
    MaxCacheSize = 1
    MaxRuns = 4
    LastTick = 2
INVARIANTS
    RequestsTypeOK
    VersionOfTheTime
    RequestJustified
    CallsTypeOK
    OverrunBounded
    ReplayNeedsARace
CHECK_DEADLOCK FALSE
