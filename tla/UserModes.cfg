SPECIFICATION UserModesSpec
CONSTANTS
    p1 = p1
    h1 = h1
    h2 = h2
    c1 = c1
    c2 = c2
    w1 = w1
    w2 = w2
    Host = {h1, h2}
    NoHost = NoHost
    Profile = {p1}
    NoProfile = NoProfile
    Mask <- MCMask
    NoOper = NoOper
    Uses <- MCUses
    Sd = {1, 2}
    Panel = {w1, w2}
    NoCall = NoCall
    MaxId = 2
    MaxWire = 2
    Slot = {c1, c2}
    NoSlot = NoSlot
    MaxLocal = 1
    MaxPerIp = 1
    MaxLines = 2
INVARIANTS UserModesTypeOK ModesInStep NoTwins OpersInStep RightsAreCurrent ProfileIsItsOwn BannedAreGone
