CONSTANTS
    MaxClients = 3
    NCells = 4
    MaxSleeps = 2
    MaxQueued = 4
    Events = {"KillClient", "WriteFails", "FontReply", "LbxGrab"}
SPECIFICATION FairSpec
INVARIANTS ListInv PointersLive NoStaleClient
PROPERTIES Drained
