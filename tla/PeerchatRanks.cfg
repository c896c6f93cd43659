\* One channel; who may raise, bring down and kick whom.
SPECIFICATION Spec
CONSTANTS
    Slot = {c1, c2}
    NoSlot = NoSlot
    Block = {b1}
    NoBlock = NoBlock
    Entry = {}
    Name = {"#a"}
    NoName = "none"
    Fold <- Apart
    LimitValue = {}
    Host = {"h"}
    Game = {}
    Mask <- Operators
    DbMode <- Owners
    PropSet <- Reserved
    Letter = {"o", "v", "h", "O"}
    Extra = {"none"}
    MaxChans = 1
    MaxLines = 1
SYMMETRY Clients
PROPERTIES OwnersStand RanksAreGiven
