SPECIFICATION SessionLiveSpec
CONSTANTS
    RequestTimeout = 4
    PingFreq = 2
    TestOrderLogon = 1
    TestOrderDisconnect = {0, 5}
    MaxReports = 2
    UnsolicitedReports = FALSE
    SendMayFail = TRUE
INVARIANTS
    SessionTypeOK
    ReadyAgrees
    NothingSurvivesDisconnect
    DownloadComplete
    TimeoutOnlyAfterSilence
PROPERTIES
    ProbeAnsweredOrClosed
    SessionComesUp
    GapClosesSession
    SessionIsStream
