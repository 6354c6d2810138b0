CONSTANTS
    c1 = c1
    c2 = c2
    a1 = a1
    k1 = k1
    SERVERTIME = SERVERTIME
    None = None
    Clients = {c1, c2}
    Alarms = {a1}
    Counters = {}
    MinValue <- MCMinValue
    MaxValue = 3
    Values <- MCValues
    AwaitLists <- MCTimeLists
    AlarmSettings <- MCTimeSettings
    MaxTime = 2
SPECIFICATION FairSpec
PROPERTIES AwaitReleased
CHECK_DEADLOCK FALSE
