\* Two servers, a game that is served and one that is not: what the registry
\* promises its readers, and that it forgets the silent.
SPECIFICATION FairSpec
CONSTANTS
    Addr = {a1, a2}
    Game = {g, closed}
    Disabled = {closed}
    NoGame = NoGame
    Key = {zero, k}
    ZeroKey = zero
    NoKey = NoKey
    Port = {source, other}
    SourcePort = source
    Nobody = Nobody
    PingTime = 1
INVARIANTS TypeOK
PROPERTIES ImplementsRegistry SilentServersGo
