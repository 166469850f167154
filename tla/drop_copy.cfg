SPECIFICATION DropCopyLiveSpec
CONSTANTS
    Currency = {c1, c2}
    Traded = {s1}
    Partial = TRUE
    RetryLogon = {TRUE, FALSE}
INVARIANTS
    CurrenciesAskedOnce
    NothingSentTwice
PROPERTY
    PortfolioFollowed
