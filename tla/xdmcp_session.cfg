CONSTANTS
    RTX_LIMIT = 2
    KA_RTX_LIMIT = 1
    MaxSessions = 2
    MaxFaults = 2
    OtherAfter = {1}
    Failures = {"OpenFails", "SendFails", "ProtoTimeout"}
SPECIFICATION FairSpec
INVARIANTS SessionConnected NoStraySession
PROPERTIES StartedOnce DisagreementEnds Served
CHECK_DEADLOCK FALSE
