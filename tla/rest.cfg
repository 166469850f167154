SPECIFICATION RestLiveSpec
CONSTANTS
    Symbol = {s1}
    EnableRateLimit = TRUE
    DefaultBackoff = 1
    BlockedBackoff = 2
    RetryAfter = {0, 3}
INVARIANTS
    BlockHolds
PROPERTY
    DownloadAnswered
