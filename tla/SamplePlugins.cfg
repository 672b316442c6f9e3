CONSTANTS
    Streams = {1, 2}
    CookieNames <- MCCookieNames
    SessionIds = {"17", "42"}
    Extras <- MCExtras
    OriginReplies <- MCOriginReplies
    CookieConfigs <- MCCookieConfigs
    MaxClock = 3
    Width = 4
    TokenValiditySeconds = 1
    ClockSkew = 1
    CookieRequests <- MCCookieRequests
    TokenRequests <- MCTokenRequests
    UrlRequests <- MCUrlRequests
    DenylistConfigs <- MCDenylistConfigs
    UserTokens <- MCUserTokens
    Bodies <- MCBodies
    HeaderValues <- MCHeaderValues
    AdConfigs <- MCAdConfigs
    TokenConfigs <- MCTokenConfigs
    kMaxBodySize = 6
    Requests <- MCRequests
    Replies <- MCReplies
    Regions = {"", "FR"}
    Mappings <- MCMappings
    MaxHops = 4
SPECIFICATION SampleSpec
INVARIANTS
    DeletedStaysOut
    ConfiguredCookieWins
    ForwardedIsCovered
    DenylistExact
    BodyIntact
    InsertionsInPlace
    PiiMasked
    ContentLengthTrue
    ErrorPageIsOwn
    RedirectsEnd
    PluginValueOnly
PROPERTY SessionKept
CHECK_DEADLOCK FALSE
