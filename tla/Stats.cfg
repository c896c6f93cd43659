\* Two players, two games, a connection that comes, plays and goes again.
SPECIFICATION Spec
CONSTANTS
    Game = {"g1", "g2"}
    Scripted = {"g1", "g2"}
    Player = {"p1", "p2"}
    NoProfile = NoProfile
    Key = {hs}
    ScoreKey <- Scores
    IncsKey = hs
    MaxVal = 2
    NoRow = NoRow
    Slot = {a}
    NoSlot = NoSlot
    NoGame = NoGame
    SetData <- Own
    Uses <- Parts
INVARIANTS TypeOK
PROPERTIES AnnouncedGamesAreSaved SetByWhomItBelongsTo HighScoresStand
