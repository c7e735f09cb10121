SPECIFICATION OrchestratedSpec
CONSTANTS
    analyst = analyst
    auditor = auditor
    bot = bot
    cost = cost
    parts = parts
    brandA = brandA
    brandB = brandB
    brandC = brandC
    delta = delta
    vin = vin
    mail = mail
    read = read
    byUser = byUser
    byScope = byScope
    misspelt = misspelt
    s1 = s1
    s2 = s2
    select = select
    NoTemplate = NoTemplate
    NoDecision = NoDecision
    UserIds <- MCUserIds
    AgentIds <- MCAgentIds
    AssetIds <- MCAssetIds
    Brands <- MCBrands
    Sources <- MCSources
    Columns <- MCColumns
    Rights <- MCRights
    Templates <- MCTemplates
    BrokenTemplates <- MCBroken
    Registrations <- MCRegistrations
    ConsentRecords <- MCConsentRecords
    Sessions <- MCAnalystSessions
    Agents <- MCAgents
    Queries <- MCQueries
    Canonical <- MCCanonical
    AssetLists <- MCAssetLists
    TokenIds = {t1}
    ProofTtl = 1
    TicksPerSecond = 1
    Horizon = 1
    MaxReplayCacheSize = 1
    MaxExecutions = 1
INVARIANTS
    TypeOK
    VersionJustifiesGrant
    BrandIsolation
    PiiMasked
    GateAgreesWithResolver
CHECK_DEADLOCK FALSE
