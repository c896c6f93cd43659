SPECIFICATION Spec
CONSTANTS
    Slot = {a, b}
    NoClient = NoClient
    Profile = {p1, p2}
    TheProfile = p1
    NoProfile = NoProfile
    Junk = Junk
    Named = {p1}
    Status = {st}
    Unset = Unset
    Offline = Offline
    Untold = Untold
    Text = {hi}
    Uses <- Parts
    MaxCopies = 2
    MaxRows = 1
SYMMETRY SlotSymmetry
INVARIANTS TypeOK HeardIsCurrent
PROPERTIES SavedUntilReceived
