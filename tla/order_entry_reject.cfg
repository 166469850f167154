SPECIFICATION Spec
CONSTANTS
    RequestTimeout = 1
    PingFreq = 1
    TestOrderLogon = 0
    TestOrderDisconnect = {0}
    MaxReports = 1
    UnsolicitedReports = FALSE
    SendMayFail = FALSE
    RequestId = {r1, r2}
    MaxEpoch = 2
    MaxSeqNum = 6
SYMMETRY Symmetry
INVARIANT
    RejectNamesItsRequest
