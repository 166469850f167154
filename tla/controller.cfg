SPECIFICATION ControllerLiveSpec
CONSTANTS
    Symbol = {s1, s2, s3}
    Discarded = {s3}
    MaxSubscriptions = 2
INVARIANTS
    EachSymbolOnce
    TopOfBookWorks
PROPERTY
    EverySymbolFollowed
