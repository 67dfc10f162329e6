SPECIFICATION Scenes
CONSTANTS
    None = None
    Follow = Follow
    Floor = 0
    WindowTarget = 1
    Low = 2
    High = 3
    Targets <- OneTarget
    Hands <- OneHand
    Override = 1
    Refresh = 0
    Recent = 1
    HoldTime = 1
    OpenDelay = 0
    CloseDelay = 0
    Grace = 0
    Early = 1
    Period = 2
    Contacts <- Shut
    Faults <- Restarts
INVARIANTS
    ScenesTypeOK
PROPERTIES
    OnlyHandsAreHeld
    TakesNothingFromTheHand
    EndedHoldsStayEnded
