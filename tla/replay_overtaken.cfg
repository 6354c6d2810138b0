CONSTANTS
    c1 = c1
    c2 = c2
    None = None
    pointer = pointer
    keyboard = keyboard
    Clients <- MCClients
    PassiveGrabs <- MCPassiveGrabs
    GrabWindows <- MCGrabWindows
    Depth = 2
    Listener = c2
    noXkbExtension = FALSE
    MaxEvents = 3
SPECIFICATION Spec
INVARIANTS KeptIsLast
CHECK_DEADLOCK FALSE
