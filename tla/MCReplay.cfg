SPECIFICATION Spec
CONSTANTS
    analyst = analyst
    bot = bot
    other = other
    parts = parts
    postgres = postgres
    read = read
    s1 = s1
    s2 = s2
    select = select
    spaced = spaced
    NoTemplate = NoTemplate
    UserIds <- MCUserIds
    AgentIds <- MCAgentIds
    AssetIds <- MCAssetIds
    Brands = {}
    Sources <- MCSources
    Columns = {}
    Rights <- MCRights
    Templates = {}
    BrokenTemplates = {}
    Registrations <- MCRegistrations
    ConsentRecords = {}
    Sessions <- MCSessions
    Agents <- MCAgents
    Queries <- MCQueries
    Canonical <- MCCanonical
    AssetLists <- MCAssetLists
    TokenIds = {t1, t2, t3}
    ProofTtl = 1
    TicksPerSecond = 2
    Horizon = 3
    MaxReplayCacheSize = 2
    MaxExecutions = 4
INVARIANTS
    LifetimeWindow
    ReplayCacheBounded
    ReplayMemory
PROPERTIES
    ImplementsLifecycle
CHECK_DEADLOCK FALSE
