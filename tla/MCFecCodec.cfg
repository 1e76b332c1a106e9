SPECIFICATION MCSpec
CONSTANTS
    Ladder <- SmallLadder
    Steps <- SmallSteps
    OffBelow = 10
    OnAbove = 20
    MaxTotal = 4
    CompletedCap = 1
    MaxGroups = 1
    Losses = {0, 20, 50}
    Forced <- SmallForced
    MaxPackets = 4
    MaxEvents = 2
INVARIANTS EmittedOnce GroupsCoherent
PROPERTIES NoParityIntoCongestion GroupLeaves
CHECK_DEADLOCK FALSE
