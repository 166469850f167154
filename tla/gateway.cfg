SPECIFICATION GatewayLiveSpec
CONSTANTS
    EnableRateLimit = TRUE
    DefaultBackoff = 0
    BlockedBackoff = 0
    RetryAfter = {}
    Streams = 2
    DisableQuote = FALSE
    TimeSeries = FALSE
    PartialQueue = FALSE
    Currency = {c1}
    Symbol = {s1, s2}
    Traded = {}
    Partial = FALSE
    RetryLogon = {TRUE}
INVARIANTS
    SliceAskedOnce
    MasterWaitsForDownloads
PROPERTIES
    SymbolsFollowed
    WebSocketIsStream
