SPECIFICATION DropCopySpec
CONSTANTS
    Currency = {c1}
    Traded = {s1}
    Partial = FALSE
    RetryLogon = {TRUE}
INVARIANT
    DownloadedTradesManaged
