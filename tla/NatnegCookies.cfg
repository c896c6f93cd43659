\* Two peers on one socket; cookie 0 is what an object that sent no INIT has.
SPECIFICATION Spec
CONSTANTS
    Peer = {p1, p2}
    NumInstances = 2
    Cookie = {0, 1}
    Index = {0, 1}
    PingTime = 2
    DeadbeatTime = 1
    ResendTime = 0
SYMMETRY Peers
INVARIANTS TypeOK FirstSocketOnly
PROPERTIES VerdictStands OnlyOppositesMeet
