------------------------------- MODULE ServerGrab -------------------------------
(***************************************************************************)
(* What GrabServer promises to clients that no extension exempts: while    *)
(* one client holds the server, no request of another is served.  The      *)
(* server serves one request at a time.                                    *)
(***************************************************************************)
CONSTANTS Clients, Nobody

VARIABLES
    holders,    \* the clients that were granted the server and keep it
    served      \* the client whose request is being executed, or Nobody

vars == <<holders, served>>

Init == holders = {} /\ served = Nobody

Serve(c) ==
    /\ served = Nobody /\ holders \subseteq {c}
    /\ served' = c
    /\ UNCHANGED holders

(* A request ends: it grabbed the server, it let it go, it closed a client *)
(* (perhaps its own), or it did none of that.                              *)
Grab == served # Nobody /\ served' = Nobody /\ holders' = holders \cup {served}
Ungrab == served # Nobody /\ served' = Nobody /\ holders' = holders \ {served}
Kill(c) == served # Nobody /\ served' = Nobody /\ holders' = holders \ {c}
Return == served # Nobody /\ served' = Nobody /\ UNCHANGED holders

(* A connection closes between two requests.                               *)
Close(c) == served = Nobody /\ holders' = holders \ {c} /\ UNCHANGED served

Next ==
    \/ Grab \/ Ungrab \/ Return
    \/ \E c \in Clients : Serve(c) \/ Kill(c) \/ Close(c)

Spec == Init /\ [][Next]_vars
================================================================================
