CONSTANTS
    MaxConns = 2
    NFds = 2
    MaxBytes = 4
    Counts = {1}
    Align = 2
    BUFSIZE = 2
    BUFWATERMARK = 2
    SockSize = 1
    MaxDown = 1
    Faults = {"PeerCloses", "NoMemory", "EMSGSIZE"}
SPECIFICATION FairSpec
INVARIANTS StreamInv OutputScheduled FdsBelong
PROPERTIES Delivered
