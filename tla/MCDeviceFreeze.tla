--------------------------- MODULE MCDeviceFreeze ---------------------------
(***************************************************************************)
(* The instance of DeviceFreeze that is model-checked: two clients with    *)
(* three passive grabs, two of the button on different windows and one of  *)
(* the key.                                                                *)
(***************************************************************************)
EXTENDS DeviceFreeze

CONSTANTS c1, c2

MCClients == {c1, c2}
PG(c, d, w, this, other) ==
    [client |-> c, device |-> d, window |-> w, thisMode |-> this, otherMode |-> other]
MCPassiveGrabs ==
    {PG(c1, pointer, 1, "Sync", "Async"), PG(c2, pointer, 2, "Sync", "Sync"),
     PG(c1, keyboard, 2, "Async", "Sync")}
MCGrabWindows == {1}
=============================================================================
