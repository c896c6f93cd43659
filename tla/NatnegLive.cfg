\* The loop and the clock are fair: verdicts and their repetition.
SPECIFICATION FairSpec
CONSTANTS
    Peer = {p1, p2}
    NumInstances = 1
    Cookie = {1}
    Index = {0, 1}
    PingTime = 1
    DeadbeatTime = 0
    ResendTime = 0
PROPERTIES EverybodyIsAnswered LostConnectIsRepeated
