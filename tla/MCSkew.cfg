SPECIFICATION Spec
CONSTANTS
    analyst = analyst
    bot = bot
    brandA = brandA
    brandB = brandB
    delta = delta
    vin = vin
    read = read
    assetA = assetA
    assetOpen = assetOpen
    team = team
    reader = reader
    admin = admin
    odd = odd
    NoTemplate = NoTemplate
    UserIds <- MCUserIds
    AgentIds <- MCAgentIds
    AssetIds <- MCAssetIds
    Brands <- MCBrands
    Sources <- MCSources
    Columns <- MCColumns
    Rights <- MCRights
    Templates = {}
    BrokenTemplates = {}
    KeyIds = {k1, k2}
    FirstKey = k1
    TestKey = TestKey
    NoClient = NoClient
    NoKeys = NoKeys
    Tenant = "ours"
    Audience = "us"
    Shapes <- MCShapes
    JWKS_CACHE_TTL = 1
    ClockSkew = 1
    TokenTtl = 3
    Horizon = 2
    TokensPerKey = 1
    BrandGroupMap <- MCBrandGroupMap
    ClearanceRoleMap <- MCClearanceRoleMap
    NoLevel = 9
    Groups <- MCGroups
    Roles <- MCRoles
    NoOverride = NoOverride
    NoUser = NoUser
    Overrides <- MCOverrides
    Agents <- MCAgents
    TheAssets <- MCTheAssets
    MaxSessions = 1
INVARIANTS
    SkewTolerated
CHECK_DEADLOCK FALSE
