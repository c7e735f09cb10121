SPECIFICATION Spec
CONSTANTS
    c1 = c1
    c2 = c2
    ours = ours
    theirs = theirs
    k1 = k1
    k2 = k2
    ab = ab
    a = a
    c = c
    bc = bc
    hash = hash
    cost = cost
    delta = delta
    select = select
    padded = padded
    count = count
    NoTemplate = NoTemplate
    NoVersion = NoVersion
    UserIds <- MCUserIds
    AgentIds <- MCAgentIds
    AssetIds <- MCAssetIds
    Brands = {}
    Sources <- MCSources
    Columns = {}
    Rights = {}
    Templates = {}
    BrokenTemplates = {}
    Registrations <- MCRegistrations
    ConsentRecords = {}
    Callers <- MCCallers
    Caches <- MCCaches
    FernetKey <- MCFernetKey
    Identities <- MCIdentities
    Duties <- MCDuties
    IdHash <- MCIdHash
    Queries <- MCQueries
    QueryHash <- MCQueryHash
    Levels <- MCLevels
    Ttl <- MCTtl
    Horizon = 2
    MaxCalls = 3
INVARIANTS
    CacheTypeOK
    HitAnswersTheCall
    ResultIsCurrent
    TtlHonoured
CHECK_DEADLOCK FALSE
