------------------------------ MODULE ClientMasks ------------------------------
(***************************************************************************)
(* The descriptor sets by which os/connection.c decides whose requests the *)
(* server may read, and the five operations that change them.  A value m   *)
(* of Masks is the file's static state; each operator is the function of   *)
(* the same name, from the sets before the call to the sets after it.      *)
(* AllSockets also holds the listeners and the devices: only its client    *)
(* descriptors are kept here.                                              *)
(***************************************************************************)
EXTENDS Integers

CONSTANTS
    MAXCLIENTS,   \* clients[] has the indices 0 .. MAXCLIENTS-1; 0 is the server
    MaxFd         \* descriptors 1 .. MaxFd can be given to connections

ASSUME ClientsAssumption == MAXCLIENTS \in Nat /\ MAXCLIENTS >= 2
ASSUME FdAssumption == MaxFd \in Nat /\ MaxFd >= 1

Clients == 1 .. MAXCLIENTS - 1
Fd == 1 .. MaxFd

Masks == [
    all : SUBSET Fd,             \* AllClients
    socks : SUBSET Fd,           \* AllSockets
    cwi : SUBSET Fd,             \* ClientsWithInput
    savedAll : SUBSET Fd,        \* SavedAllClients
    savedSocks : SUBSET Fd,      \* SavedAllSockets
    savedCwi : SUBSET Fd,        \* SavedClientsWithInput
    ignored : SUBSET Fd,         \* IgnoredClientsWithInput
    impervious : SUBSET Fd,      \* GrabImperviousClients
    grab : Clients \cup {0}]     \* GrabInProgress

InitMasks == [
    all |-> {}, socks |-> {}, cwi |-> {},
    savedAll |-> {}, savedSocks |-> {}, savedCwi |-> {},
    ignored |-> {}, impervious |-> {}, grab |-> 0]

With(S, fd, present) == IF present THEN S \cup {fd} ELSE S \ {fd}

AddConnectionHeard(m, fd) ==              \* mutant of AddConnection
    [m EXCEPT !.all = @ \cup {fd}, !.socks = @ \cup {fd}]

(* The end of AllocNewConnection.                                          *)
AddConnection(m, fd) ==
    IF m.grab # 0
    THEN [m EXCEPT !.savedAll = @ \cup {fd}, !.savedSocks = @ \cup {fd}]
    ELSE [m EXCEPT !.all = @ \cup {fd}, !.socks = @ \cup {fd}]

CloseDownFileDescriptorKeepsSaved(m, fd) ==   \* mutant of CloseDownFileDescriptor
    [m EXCEPT !.all = @ \ {fd}, !.socks = @ \ {fd}, !.cwi = @ \ {fd},
              !.impervious = @ \ {fd}]

(* IgnoredClientsWithInput keeps the descriptor.                           *)
CloseDownFileDescriptor(m, fd) ==
    LET main == [m EXCEPT !.all = @ \ {fd}, !.socks = @ \ {fd}, !.cwi = @ \ {fd},
                          !.impervious = @ \ {fd}]
    IN  IF m.grab = 0
        THEN main
        ELSE [main EXCEPT !.savedAll = @ \ {fd}, !.savedSocks = @ \ {fd},
                          !.savedCwi = @ \ {fd}]

OnlyListenToOneClient(m, c, fd) ==
    IF m.grab # 0
    THEN m
    ELSE LET heard == (m.all \cap m.impervious) \cup {fd}
         IN  [m EXCEPT !.savedCwi = (m.cwi \ {fd}) \ m.impervious,
                       !.savedSocks = m.socks,
                       !.savedAll = m.all,
                       !.cwi = m.cwi \cap (m.impervious \cup {fd}),
                       !.socks = (m.socks \ m.all) \cup heard,
                       !.all = heard,
                       !.grab = c]

ListenToNoMore(m) == [m EXCEPT !.grab = 0]    \* mutant of ListenToAllClients

ListenToAllClients(m) ==
    IF m.grab = 0
    THEN m
    ELSE [m EXCEPT !.socks = @ \cup m.savedSocks,
                   !.all = @ \cup m.savedAll,
                   !.cwi = @ \cup m.savedCwi,
                   !.grab = 0]

IgnoreClientByGrab(m, fd) ==              \* mutant of IgnoreClient
    IF m.grab = 0
    THEN [m EXCEPT !.ignored = With(@, fd, fd \in m.cwi),
                   !.cwi = @ \ {fd}, !.socks = @ \ {fd}, !.all = @ \ {fd}]
    ELSE [m EXCEPT !.ignored = With(@, fd, fd \in m.savedCwi),
                   !.savedCwi = @ \ {fd}, !.savedSocks = @ \ {fd}, !.savedAll = @ \ {fd}]

(* LastSelectMask is left out of both: it is read only between the select  *)
(* that fills it and the use of its result.                                *)
IgnoreClient(m, fd) ==
    IF m.grab = 0 \/ fd \in m.all
    THEN [m EXCEPT !.ignored = With(@, fd, fd \in m.cwi),
                   !.cwi = @ \ {fd}, !.socks = @ \ {fd}, !.all = @ \ {fd}]
    ELSE [m EXCEPT !.ignored = With(@, fd, fd \in m.savedCwi),
                   !.savedCwi = @ \ {fd}, !.savedSocks = @ \ {fd}, !.savedAll = @ \ {fd}]

AttendClientDropsInput(m, c, fd) ==       \* mutant of AttendClient
    IF m.grab \in {0, c} \/ fd \in m.impervious
    THEN [m EXCEPT !.all = @ \cup {fd}, !.socks = @ \cup {fd}]
    ELSE [m EXCEPT !.savedAll = @ \cup {fd}, !.savedSocks = @ \cup {fd}]

AttendClient(m, c, fd) ==
    LET input == {fd} \cap m.ignored
    IN  IF m.grab \in {0, c} \/ fd \in m.impervious
        THEN [m EXCEPT !.all = @ \cup {fd}, !.socks = @ \cup {fd},
                       !.cwi = @ \cup input]
        ELSE [m EXCEPT !.savedAll = @ \cup {fd}, !.savedSocks = @ \cup {fd},
                       !.savedCwi = @ \cup input]

MakeClientGrabImpervious(m, fd) == [m EXCEPT !.impervious = @ \cup {fd}]

Suspends(m, c) == m.grab \notin {0, c}

MakeClientGrabPervious(m, c, fd) ==
    LET pervious == [m EXCEPT !.impervious = @ \ {fd}]
    IN  IF Suspends(m, c)
        THEN [pervious EXCEPT !.savedCwi = @ \cup ({fd} \cap m.cwi),
                              !.cwi = @ \ {fd},
                              !.socks = @ \ {fd}, !.all = @ \ {fd}]
        ELSE pervious
================================================================================
