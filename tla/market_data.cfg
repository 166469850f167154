SPECIFICATION MarketDataLiveSpec
CONSTANTS
    Symbol = {s1, s2}
    MaxSize = 1
    RequestTimeout = 1
    PingFreq = 1
    TestMarketDataDisconnect = {0, 1}
    PublishMarketByPrice = TRUE
    TerminateOnReject = FALSE
    SendMayFail = TRUE
    MaxWire = 2
INVARIANTS
    BookInSync
    AskedOnce
    SliceReachesExchange
    TimeoutOnlyAfterSilence
PROPERTIES
    ProbeAnsweredOrClosed
    MarketDataComesUp
    LatchResolved
    ImplementsStream
