\* Channel properties against clients who join and leave and set modes.
SPECIFICATION Spec
CONSTANTS
    Slot = {c1, c2}
    NoSlot = NoSlot
    Block = {b1}
    NoBlock = NoBlock
    Entry = {}
    Name = {"#a"}
    NoName = "none"
    Fold <- Apart
    LimitValue = {1}
    Host = {"h"}
    Game = {1}
    Mask = {}
    DbMode = {}
    PropSet <- Properties
    Letter = {"p", "s", "v"}
    Extra = {"none", "key"}
    MaxChans = 1
    MaxLines = 1
SYMMETRY Clients
INVARIANTS PrivateOrSecret LocalModesHaveChannels
