CONSTANTS
    MAXCLIENTS = 3
    MaxFd = 2
    SmartScheduleDisable = FALSE
    Kinds = {"Other", "GrabServer", "UngrabServer", "KillClient", "Sleep", "KillTemporary", "SetCloseDownMode"}
    WordBits = 2
    MAX_TIMES_PER = 2
    MaxPending = 1
    Faults = {"HangUp", "WriteFails", "Refused", "TimeOut"}
SPECIFICATION Spec
INVARIANTS SetsAgree NobodyForgotten AsleepNotServed CountsRunning ResetsAlone LeastFreeSlot
PROPERTIES ImplementsServerGrab
