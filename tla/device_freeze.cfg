CONSTANTS
    c1 = c1
    c2 = c2
    None = None
    pointer = pointer
    keyboard = keyboard
    Clients <- MCClients
    PassiveGrabs <- MCPassiveGrabs
    GrabWindows <- MCGrabWindows
    Depth = 2
    Listener = c2
    noXkbExtension = FALSE
    MaxEvents = 3
SPECIFICATION FairSpec
INVARIANTS FreezesAccounted NothingHeldBack ReplayIsLatest GoneHasNoGrab KeysMatch
PROPERTIES InOrder CloseEnds
CHECK_DEADLOCK FALSE
