\* One client that asks in every way and for either game, again and again,
\* while a server of either game comes, changes and goes.
SPECIFICATION BrowsingSpec
CONSTANTS
    Addr = {a}
    Game = {g, h}
    Disabled = {}
    NoGame = NoGame
    Key = {zero}
    ZeroKey = zero
    NoKey = NoKey
    Port = {source, other}
    SourcePort = source
    Nobody = Nobody
    PingTime = 0
    Client = {c1}
    Asked <- Everything
    Filters = {FALSE, TRUE}
    NoOne = NoOne
    NotCalled = NotCalled
INVARIANTS BrowsingTypeOK 
PROPERTIES GhostsHaveACause
