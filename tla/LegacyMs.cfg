\* A client that proves its game and asks for lists, or does not, while two
\* servers of a game that is served or of one that is not come and go.
SPECIFICATION LegacySpec
CONSTANTS
    Addr = {a1, a2}
    Game = {g, closed}
    Disabled = {closed}
    NoGame = NoGame
    Key = {zero}
    ZeroKey = zero
    NoKey = NoKey
    Port = {source, other}
    SourcePort = source
    Nobody = Nobody
    PingTime = 0
    Slot = {c}
    NoSlot = NoSlot
    NoWalk = NoWalk
SYMMETRY Servers
INVARIANTS LegacyTypeOK
PROPERTIES AnswersLackNothing DisabledAreOldStyle
