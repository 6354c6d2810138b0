CONSTANTS
    MAXCLIENTS = 3
    MaxFd = 2
    SmartScheduleDisable = TRUE
    Kinds = {"GrabServer", "UngrabServer", "KillClient", "Impervious", "Pervious"}
    WordBits = 2
    MAX_TIMES_PER = 2
    MaxPending = 2
    Faults = {}
SPECIFICATION FairSpec
INVARIANTS OnlyGrabberServed NeverReadsClosed BufferedRemembered
PROPERTIES SocketsDrained
