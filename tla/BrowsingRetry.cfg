\* A client that was told to try again later does.
SPECIFICATION BrowsingFairSpec
CONSTANTS
    Addr = {a}
    Game = {g}
    Disabled = {}
    NoGame = NoGame
    Key = {zero}
    ZeroKey = zero
    NoKey = NoKey
    Port = {source, other}
    SourcePort = source
    Nobody = Nobody
    PingTime = 0
    Client = {c1}
    Asked <- Subscriptions
    Filters = {FALSE}
    NoOne = NoOne
    NotCalled = NotCalled
PROPERTIES TryAgainLater
