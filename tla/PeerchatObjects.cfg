\* Two clients and two channels in two places each, with invitations.
SPECIFICATION Spec
CONSTANTS
    Slot = {c1, c2}
    NoSlot = NoSlot
    Block = {b1, b2}
    NoBlock = NoBlock
    Entry = {e1, e2}
    Name = {"#a", "#A", "#b"}
    NoName = "none"
    Fold <- Spelled
    LimitValue = {}
    Host = {"h"}
    Game = {}
    Mask = {}
    DbMode <- Halfops
    PropSet = {}
    Letter = {"i"}
    Extra = {"none", "n"}
    MaxChans = 0
    MaxLines = 2
SYMMETRY Objects
INVARIANTS TypeOK OnlyTheRevivedLinger OnlyTheFirstDangles OneChannelPerName
PROPERTIES ClientsDesertNothing DoorsAreKept OneTooManyAtMost
