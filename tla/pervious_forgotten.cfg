CONSTANTS
    MAXCLIENTS = 3
    MaxFd = 2
    SmartScheduleDisable = FALSE
    Kinds = {"GrabServer", "UngrabServer", "Impervious", "Pervious", "Sleep"}
    WordBits = 2
    MAX_TIMES_PER = 2
    MaxPending = 1
    Faults = {}
SPECIFICATION Spec
INVARIANTS NobodyForgotten
