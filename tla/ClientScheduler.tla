---------------------------- MODULE ClientScheduler ----------------------------
(***************************************************************************)
(* The life of the server's clients: Dispatch and the requests that change *)
(* who is served (dix/dispatch.c), WaitForSomething (os/WaitFor.c), the    *)
(* establishment and the closing of connections (os/connection.c), the     *)
(* input side of os/io.c and the sleep queue of dix/dixutils.c.            *)
(*                                                                         *)
(* The server is one thread and an action is one of its steps: a return    *)
(* from select, the reading of a request, the execution of one, the        *)
(* closing of a client.  Peers send and hang up while it waits or is about *)
(* to read, the only places where it looks at a socket.  Requests are told *)
(* apart only when they are executed.                                      *)
(***************************************************************************)
EXTENDS ClientMasks, FiniteSets

CONSTANTS
    SmartScheduleDisable, \* TRUE with -dumbSched
    Kinds,         \* the requests clients make, out of RequestKinds
    WordBits,      \* bits in a word of grabWaiters[] (32 in the code)
    MAX_TIMES_PER, \* requests in a turn without the smart scheduler (10)
    MaxPending,    \* bound: requests of a client in its socket, or in its buffer
    Faults         \* what can go wrong, out of AllFaults

RequestKinds == {"Other", "GrabServer", "UngrabServer", "Impervious", "Pervious",
                 "Sleep", "KillClient", "KillTemporary", "SetCloseDownMode"}

(* A peer hangs up; the server writes to one that did; a client is not     *)
(* authorized; a client does not finish its set-up in time.                *)
AllFaults == {"HangUp", "WriteFails", "Refused", "TimeOut"}

ASSUME SchedulerAssumption ==
    /\ SmartScheduleDisable \in BOOLEAN
    /\ Faults \subseteq AllFaults
    /\ Kinds \subseteq RequestKinds
    /\ WordBits \in Nat \ {0}
    /\ MAX_TIMES_PER \in Nat \ {0}
    /\ MaxPending \in Nat \ {0}

VARIABLES
    clients,           \* clients[], with what the OS layer keeps of each
    conn,              \* ConnectionTranslation[]: the client of a descriptor
    m,                 \* the descriptor sets
    grabState, grabClient, grabWaiters,
    nClients, nextFreeClientID,
    dispatchException, \* whether DE_RESET is up
    workQueue,         \* the clients whose sleep procedure is queued, and
                       \* 0 for EstablishNewConnections
    checking,          \* CheckConnections: the copy of AllClients it goes through
    pc, ready,         \* where the server is; clientReady[] below nready
    cur,               \* the client being served, or the last one closed
    yield,             \* isItTimeToYield
    times,             \* timesThisConnection
    holds              \* history: who was granted the server and has not let go

slotVars == <<clients, conn, nextFreeClientID, nClients, dispatchException>>
grabVars == <<grabState, grabClient, grabWaiters, holds>>
schedVars == <<pc, ready, cur, yield, times>>
vars == <<slotVars, m, grabVars, workQueue, checking, schedVars>>

CloseDownModes == {"DestroyAll", "RetainPermanent", "RetainTemporary"}
GrabStates == {"GrabNone", "GrabKickout", "GrabActive"}

(* The fields of a client: a descriptor of 0 is a NULL osPrivate, open a   *)
(* non-NULL trans_conn, exception a nonzero noClientException; retry says  *)
(* that the first request of the buffer is a GrabServer that was put back. *)
(* sent and hungup are the peer's side of the connection.                  *)
ClientRec == [
    state : {"Gone", "Initial", "Running", "Retained"},
    mode : CloseDownModes, fd : Fd \cup {0}, open : BOOLEAN, exception : BOOLEAN,
    asleep : BOOLEAN, buffered : 0 .. MaxPending, retry : BOOLEAN,
    sent : 0 .. MaxPending, hungup : BOOLEAN]

NoClient == [
    state |-> "Gone", mode |-> "DestroyAll", fd |-> 0, open |-> FALSE,
    exception |-> FALSE, asleep |-> FALSE, buffered |-> 0, retry |-> FALSE,
    sent |-> 0, hungup |-> FALSE]

(* Top of WaitForSomething's loop; CheckConnections; the two loops of      *)
(* EstablishNewConnections; Dispatch between two clients, about to read a  *)
(* request, about to execute one, about to close the client served;        *)
(* KillAllClients.                                                         *)
Places == {"wait", "check", "stragglers", "accept", "round", "run", "execute",
           "close", "reset"}

Live == {c \in Clients : clients[c].fd # 0}
Ignored(c) == clients[c].asleep \/ c \in grabWaiters

Init ==
    /\ clients = [c \in Clients |-> NoClient]
    /\ conn = [fd \in Fd |-> 0]
    /\ m = InitMasks
    /\ grabState = "GrabNone" /\ grabClient = 0 /\ grabWaiters = {}
    /\ nClients = 0 /\ nextFreeClientID = 1
    /\ dispatchException = FALSE
    /\ workQueue = {} /\ checking = {}
    /\ pc = "wait" /\ ready = {} /\ cur = 0 /\ yield = FALSE /\ times = 0
    /\ holds = {}

-----------------------------------------------------------------------------
(* UngrabServer and CloseDownClient.                                       *)

(* The waiter UngrabServer wakes: the lowest in the highest nonzero word   *)
(* of grabWaiters[]; 0 when there is none.                                 *)
IsFirstWaiter(w) ==
    IF grabWaiters = {}
    THEN w = 0
    ELSE /\ w \in grabWaiters
         /\ \A v \in grabWaiters : \/ v \div WordBits < w \div WordBits
                                   \/ v \div WordBits = w \div WordBits /\ w <= v

(* The descriptor sets after UngrabServer has woken w.                     *)
Ungrabbed(w) ==
    LET heard == ListenToAllClients(m)
    IN  IF w = 0 THEN heard ELSE AttendClient(heard, w, clients[w].fd)

CountsAny(state) == TRUE                  \* mutant of CountsConnection
CountsConnection(state) == state # "Initial"

ResetsEarly(state, n) == state = "Running" /\ n <= 1     \* mutant of MayReset
MayReset(state, n) == state = "Running" /\ n = 0

First(i, j) == i                          \* mutant of Least
Least(i, j) == IF j < i THEN j ELSE i

(* What a closed client's slot holds.  A client that retains its resources *)
(* keeps the slot; closed again, it is destroyed.                          *)
ClosedSlot(k, really) ==
    IF really THEN NoClient
    ELSE [k EXCEPT !.state = "Retained", !.fd = 0, !.open = FALSE, !.asleep = FALSE,
                   !.buffered = 0, !.retry = FALSE, !.sent = 0, !.hungup = FALSE]

(* mode is the client's, which KillAllClients overrides.  The sleep        *)
(* procedure of a sleeping client is run by ProcessWorkQueueZombies, and   *)
(* ends the sleep without attending the client.                            *)
CloseDownClient(c, mode) ==
    LET k == clients[c]
        gone == k.fd = 0
        really == gone \/ mode = "DestroyAll"
        ungrabs == ~gone /\ grabState # "GrabNone" /\ grabClient = c
    IN  \E w \in Clients \cup {0} :
        /\ IF ungrabs THEN IsFirstWaiter(w) ELSE w = 0
        /\ grabState' = IF ungrabs THEN "GrabNone" ELSE grabState
        /\ grabWaiters' = IF gone THEN grabWaiters ELSE grabWaiters \ {w, c}
        /\ m' = IF gone THEN m
                ELSE CloseDownFileDescriptor(IF ungrabs THEN Ungrabbed(w) ELSE m, k.fd)
        /\ conn' = IF gone THEN conn ELSE [conn EXCEPT ![k.fd] = 0]
        /\ workQueue' = workQueue \ {c}
        /\ nClients' = IF ~gone /\ CountsConnection(k.state) THEN nClients - 1 ELSE nClients
        /\ dispatchException' = \/ dispatchException
                                \/ really /\ MayReset(k.state, nClients')
        /\ clients' = [clients EXCEPT ![c] = ClosedSlot(k, really)]
        /\ nextFreeClientID' = IF really THEN Least(nextFreeClientID, c)
                               ELSE nextFreeClientID
        /\ holds' = holds \ {c}
        /\ UNCHANGED <<grabClient, checking>>

-----------------------------------------------------------------------------
(* The peers.                                                              *)

(* What a peer does counts when the server next looks at its socket.       *)
Watched(c) == (pc = "wait" /\ workQueue = {}) \/ (pc = "run" /\ cur = c)

Send(c) ==
    LET k == clients[c] IN
    /\ Watched(c) /\ k.open /\ ~k.hungup /\ k.sent < MaxPending
    /\ clients' = [clients EXCEPT ![c].sent = @ + 1]
    /\ UNCHANGED <<conn, nextFreeClientID, nClients, dispatchException, m, grabVars,
                   workQueue, checking, schedVars>>

HangUp(c) ==
    LET k == clients[c] IN
    /\ "HangUp" \in Faults
    /\ Watched(c) /\ k.open /\ ~k.hungup
    /\ clients' = [clients EXCEPT ![c].hungup = TRUE]
    /\ UNCHANGED <<conn, nextFreeClientID, nClients, dispatchException, m, grabVars,
                   workQueue, checking, schedVars>>

(* FlushClient fails: it closes the connection but leaves the descriptor   *)
(* in every set, and only marks the client.  The server writes before it   *)
(* waits, from any request, and from the closing of another client.        *)
WriteFails(c) ==
    LET k == clients[c] IN
    /\ "WriteFails" \in Faults /\ k.open /\ k.hungup
    /\ pc \in {"wait", "execute"} \/ (pc \in {"stragglers", "accept"} /\ cur # 0)
    /\ clients' = [clients EXCEPT ![c].open = FALSE, ![c].exception = TRUE]
    /\ UNCHANGED <<conn, nextFreeClientID, nClients, dispatchException, m, grabVars,
                   workQueue, checking, schedVars>>

-----------------------------------------------------------------------------
(* WaitForSomething.                                                       *)

(* ProcessWorkQueue runs the queue until it is empty, here in any order.   *)
WorkEstablish ==
    /\ pc = "wait" /\ 0 \in workQueue
    /\ workQueue' = workQueue \ {0}
    /\ pc' = "stragglers" /\ cur' = 0
    /\ UNCHANGED <<slotVars, m, grabVars, checking, ready, yield, times>>

(* The procedure of a sleeping client finds its answer: ClientWakeup.      *)
WorkWakeup(c) ==
    /\ pc = "wait" /\ c \in workQueue
    /\ workQueue' = workQueue \ {c}
    /\ clients' = [clients EXCEPT ![c].asleep = FALSE]
    /\ m' = AttendClient(m, c, clients[c].fd)
    /\ UNCHANGED <<conn, nextFreeClientID, nClients, dispatchException, grabVars,
                   checking, schedVars>>

(* WaitForSomething returns no client and Dispatch leaves its loop.        *)
WaitStops ==
    /\ pc = "wait" /\ workQueue = {} /\ dispatchException
    /\ pc' = "reset"
    /\ UNCHANGED <<slotVars, m, grabVars, workQueue, checking, ready, cur, yield, times>>

SelectMask == IF m.cwi = {} THEN m.socks ELSE m.socks \ m.cwi

HasNews(fd) ==
    LET k == clients[conn[fd]]
    IN  conn[fd] # 0 /\ (k.sent > 0 \/ k.hungup)
IsBad(fd) == conn[fd] # 0 => ~clients[conn[fd]].open

(* Smart: the client SmartScheduleClient picks, here any of those ready.   *)
Return(readable) ==
    LET found == {conn[fd] : fd \in readable}
    IN  IF SmartScheduleDisable \/ found = {}
        THEN ready' = found
        ELSE \E c \in found : ready' = {c}

(* Without the smart scheduler, buffers are drained before select is       *)
(* called again.                                                           *)
ReturnBuffered ==
    /\ pc = "wait" /\ workQueue = {} /\ ~dispatchException
    /\ SmartScheduleDisable /\ m.cwi # {}
    /\ Return(m.cwi)
    /\ pc' = "round"
    /\ UNCHANGED <<slotVars, m, grabVars, workQueue, checking, cur, yield, times>>

(* select returns: sockets with news, perhaps a new connection, perhaps    *)
(* the answer a sleeping client waits for, whose wakeup handler calls      *)
(* ClientSignal.  With no news the poll of the smart scheduler returns     *)
(* the clients that have requests in their buffers.                        *)
Select(newConnection, answered) ==
    LET news == {fd \in SelectMask : HasNews(fd)}
        some == news # {} \/ newConnection \/ answered # {}
        readable == IF some THEN (news \cup m.cwi) \cap m.all ELSE m.cwi
    IN
    /\ pc = "wait" /\ workQueue = {} /\ ~dispatchException
    /\ SmartScheduleDisable => m.cwi = {}
    /\ ~ \E fd \in SelectMask : IsBad(fd)
    /\ some \/ m.cwi # {}
    /\ Return(readable)
    /\ workQueue' = answered \cup (IF newConnection THEN {0} ELSE {})
    /\ pc' = IF readable = {} THEN "wait" ELSE "round"
    /\ UNCHANGED <<slotVars, m, grabVars, checking, cur, yield, times>>

(* select fails with EBADF.  CheckConnections goes through a copy of       *)
(* AllClients: it does not look at the clients that a close-down lets be   *)
(* heard again meanwhile (the next select that fails finds those).         *)
SelectFails ==
    /\ pc = "wait" /\ workQueue = {} /\ ~dispatchException
    /\ SmartScheduleDisable => m.cwi = {}
    /\ \E fd \in SelectMask : IsBad(fd)
    /\ pc' = "check" /\ checking' = m.all
    /\ UNCHANGED <<slotVars, m, grabVars, workQueue, ready, cur, yield, times>>

CheckConnections ==
    /\ pc = "check"
    /\ IF \E fd \in checking \cap m.all : IsBad(fd)
       THEN /\ \E fd \in checking \cap m.all :
                   /\ IsBad(fd)
                   /\ CloseDownClient(conn[fd], clients[conn[fd]].mode)
            /\ UNCHANGED schedVars
       ELSE /\ pc' = "wait" /\ checking' = {}
            /\ UNCHANGED <<slotVars, m, grabVars, workQueue, ready, cur, yield, times>>

-----------------------------------------------------------------------------
(* EstablishNewConnections.                                                *)

(* A client that did not authenticate within TimeOutValue (at any later    *)
(* time, here) or that is marked with an exception.                        *)
IsMarked(c) == clients[c].exception /\ clients[c].fd # 0
MayBeStraggler(c) ==
    IsMarked(c) \/ ("TimeOut" \in Faults /\ clients[c].state = "Initial")

KillStraggler(c) ==
    /\ pc = "stragglers" /\ c > cur /\ MayBeStraggler(c)
    /\ \A d \in Clients : cur < d /\ d < c => ~IsMarked(d)
    /\ CloseDownClient(c, clients[c].mode)
    /\ cur' = c
    /\ UNCHANGED <<pc, ready, yield, times>>

StragglersDone ==
    /\ pc = "stragglers"
    /\ \A c \in Clients : c > cur => ~IsMarked(c)
    /\ pc' = "accept"
    /\ UNCHANGED <<slotVars, m, grabVars, workQueue, checking, ready, cur, yield, times>>

(* accept returns the lowest descriptor the kernel has free.               *)
OpenFds == {clients[c].fd : c \in {d \in Clients : clients[d].open}}
IsNextFd(fd) == fd \notin OpenFds /\ \A other \in Fd \ OpenFds : fd <= other

(* The translation still names a client whose connection FlushClient has   *)
(* closed.                                                                 *)
AcceptReused(fd) ==
    /\ pc = "accept" /\ IsNextFd(fd) /\ conn[fd] # 0
    /\ CloseDownClient(conn[fd], clients[conn[fd]].mode)
    /\ cur' = conn[fd]
    /\ UNCHANGED <<pc, ready, yield, times>>

(* The loop of NextAvailableClient that moves nextFreeClientID from i.     *)
LeastAbove(i, j, slots) ==
    /\ i <= j /\ j \in Clients => slots[j].state = "Gone"
    /\ \A h \in Clients : i <= h /\ h < j => slots[h].state # "Gone"

(* AllocNewConnection.  NextAvailableClient takes the slot at              *)
(* nextFreeClientID and moves the index past the slots in use.             *)
Accept(fd) ==
    LET i == nextFreeClientID
        taken == [clients EXCEPT ![i] =
                     [NoClient EXCEPT !.state = "Initial", !.fd = fd, !.open = TRUE]]
    IN
    /\ pc = "accept" /\ IsNextFd(fd) /\ conn[fd] = 0
    /\ i < MAXCLIENTS
    /\ clients' = taken
    /\ nextFreeClientID' \in {j \in i .. MAXCLIENTS : LeastAbove(i, j, taken)}
    /\ conn' = [conn EXCEPT ![fd] = i]
    /\ m' = AddConnection(m, fd)
    /\ pc' = "wait" /\ times' = 0
    /\ UNCHANGED <<nClients, dispatchException, grabVars, workQueue, checking, ready, cur, yield>>

(* No descriptor, or no slot: ErrorConnMax.                                *)
AcceptFails ==
    /\ pc = "accept"
    /\ \/ Fd \subseteq OpenFds
       \/ nextFreeClientID = MAXCLIENTS /\ \E fd \in Fd : IsNextFd(fd) /\ conn[fd] = 0
    /\ pc' = "wait"
    /\ UNCHANGED <<slotVars, m, grabVars, workQueue, checking, ready, cur, yield, times>>

-----------------------------------------------------------------------------
(* Dispatch.                                                               *)

RoundDone ==
    /\ pc = "round"
    /\ ready = {} \/ dispatchException
    /\ pc' = IF dispatchException THEN "reset" ELSE "wait"
    /\ ready' = {}
    /\ UNCHANGED <<slotVars, m, grabVars, workQueue, checking, cur, yield, times>>

NoneEmptied(c) == FALSE                   \* mutant of Emptied
Emptied(c) == clients[c].state = "Gone"

NeverKicksOut == FALSE                    \* mutant of KicksOut
KicksOut == grabState = "GrabKickout"

(* clientReady[] is filled in the order of the descriptors and used from   *)
(* its end.  What was the descriptor of a client closed meanwhile is not   *)
(* kept here: its turn may come at any time.                               *)
IsNextReady(c) ==
    clients[c].fd = 0 \/ \A d \in ready : clients[d].fd <= clients[c].fd

(* The next client of the round: one whose slot was emptied meanwhile is   *)
(* passed over, and the first client after a grab of the server is not     *)
(* served but ends the round.                                              *)
NextClient(c) ==
    /\ pc = "round" /\ ~dispatchException
    /\ c \in ready /\ IsNextReady(c)
    /\ IF Emptied(c)
       THEN /\ ready' = ready \ {c}
            /\ UNCHANGED <<pc, cur, yield, grabState>>
       ELSE IF KicksOut
       THEN /\ grabState' = "GrabActive"
            /\ ready' = {} /\ pc' = "wait"
            /\ UNCHANGED <<cur, yield>>
       ELSE /\ pc' = "run" /\ cur' = c /\ yield' = FALSE
            /\ ready' = ready \ {c}
            /\ UNCHANGED grabState
    /\ UNCHANGED <<slotVars, m, grabClient, grabWaiters, holds, workQueue, checking, times>>

(* The turn ends: the client yielded, or its slice is over.                *)
TurnDone ==
    /\ pc = "run"
    /\ yield \/ ~SmartScheduleDisable
    /\ pc' = "round"
    /\ UNCHANGED <<slotVars, m, grabVars, workQueue, checking, ready, cur, yield, times>>

(* ReadRequestFromClient reads the socket only when the buffer holds no    *)
(* whole request.  It goes through osPrivate: with a descriptor of 0 the   *)
(* server is dead, and no action is enabled.                               *)
ReadNothing ==
    LET k == clients[cur] IN
    /\ pc = "run" /\ ~yield /\ k.fd # 0
    /\ k.buffered = 0 /\ k.open /\ k.sent = 0 /\ ~k.hungup
    /\ m' = [m EXCEPT !.cwi = @ \ {k.fd}]
    /\ yield' = TRUE /\ times' = 0
    /\ pc' = "round"
    /\ UNCHANGED <<slotVars, grabVars, workQueue, checking, ready, cur>>

ReadFails ==
    LET k == clients[cur] IN
    /\ pc = "run" /\ ~yield /\ k.fd # 0
    /\ k.buffered = 0 /\ (~k.open \/ (k.sent = 0 /\ k.hungup))
    /\ times' = 0
    /\ pc' = "close"
    /\ UNCHANGED <<slotVars, m, grabVars, workQueue, checking, ready, cur, yield>>

ReadsAhead(k) == k.sent > 0               \* mutant of FromSocket
FromSocket(k) == k.buffered = 0

(* The last request of the buffer ends the turn of a client that is not    *)
(* scheduled smartly, and so does its MAX_TIMES_PERth.                     *)
ReadRequest ==
    LET k == clients[cur]
        left == (IF FromSocket(k) THEN k.sent ELSE k.buffered) - 1
        turns == IF left = 0 THEN 1 ELSE times + 1
    IN
    /\ pc = "run" /\ ~yield /\ k.fd # 0
    /\ k.buffered > 0 \/ (k.open /\ k.sent > 0)
    /\ clients' = [clients EXCEPT ![cur].buffered = left,
                                  ![cur].sent = IF FromSocket(k) THEN 0 ELSE @]
    /\ m' = [m EXCEPT !.cwi = With(@, k.fd, left > 0)]
    /\ yield' = (SmartScheduleDisable /\ (left = 0 \/ turns >= MAX_TIMES_PER))
    /\ times' = IF ~SmartScheduleDisable THEN times
                ELSE IF turns >= MAX_TIMES_PER THEN 0 ELSE turns
    /\ pc' = "execute"
    /\ UNCHANGED <<conn, nextFreeClientID, nClients, dispatchException, grabVars,
                   workQueue, checking, ready, cur>>

Close ==
    /\ pc = "close"
    /\ CloseDownClient(cur, clients[cur].mode)
    /\ pc' = "round"
    /\ UNCHANGED <<ready, cur, yield, times>>

-----------------------------------------------------------------------------
(* The requests.  A client marked with an exception is closed when the     *)
(* request it was marked in returns.                                       *)

Executes(kind) ==
    /\ pc = "execute" /\ clients[cur].state = "Running"
    /\ clients[cur].retry <=> kind = "retry"
    /\ kind # "retry" => kind \in Kinds

Returned == pc' = IF clients[cur].exception THEN "close" ELSE "run"

(* ProcInitialConnection and ProcEstablishConnection, in one: the client   *)
(* is refused, or authorized (conn_time = 0) and counted by SendConnSetup. *)
SetUp ==
    /\ pc = "execute" /\ clients[cur].state = "Initial"
    /\ \/ /\ "Refused" \in Faults
          /\ clients' = [clients EXCEPT ![cur].exception = TRUE]
          /\ pc' = "close"
          /\ UNCHANGED nClients
       \/ /\ clients' = [clients EXCEPT ![cur].state = "Running"]
          /\ nClients' = nClients + 1
          /\ Returned
    /\ UNCHANGED <<conn, nextFreeClientID, dispatchException, m, grabVars, workQueue, checking,
                   ready, cur, yield, times>>

(* Any request that changes nothing of all this.                           *)
Other ==
    /\ Executes("Other")
    /\ Returned
    /\ UNCHANGED <<slotVars, m, grabVars, workQueue, checking, ready, cur, yield, times>>

GrabbedByOther == grabState # "GrabNone" /\ cur # grabClient

ProcGrabServer ==
    /\ Executes("GrabServer") \/ Executes("retry")
    /\ ~GrabbedByOther
    /\ m' = OnlyListenToOneClient(m, cur, clients[cur].fd)
    /\ grabState' = "GrabKickout" /\ grabClient' = cur
    /\ holds' = holds \cup {cur}
    /\ clients' = [clients EXCEPT ![cur].retry = FALSE]
    /\ Returned
    /\ UNCHANGED <<conn, nextFreeClientID, nClients, dispatchException, grabWaiters,
                   workQueue, checking, ready, cur, yield, times>>


(* ResetCurrentRequest puts the request back, for when the client is       *)
(* attended again.                                                         *)
ResetCurrentRequest(fd) ==
    IF fd \in m.all THEN [m EXCEPT !.cwi = @ \cup {fd}]
                    ELSE [m EXCEPT !.ignored = @ \cup {fd}]

ProcGrabServerWaits ==
    LET k == clients[cur] IN
    /\ Executes("GrabServer") \/ Executes("retry")
    /\ GrabbedByOther
    /\ clients' = [clients EXCEPT ![cur].buffered = @ + 1, ![cur].retry = TRUE]
    /\ grabWaiters' = grabWaiters \cup {cur}
    /\ m' = IgnoreClient(ResetCurrentRequest(k.fd), k.fd)
    /\ yield' = TRUE /\ times' = 0
    /\ Returned
    /\ UNCHANGED <<conn, nextFreeClientID, nClients, dispatchException, grabState,
                   grabClient, holds, workQueue, checking, ready, cur>>

(* The code does not ask who sent it.                                      *)
ProcUngrabServer ==
    /\ Executes("UngrabServer")
    /\ \E w \in Clients \cup {0} :
        /\ IsFirstWaiter(w)
        /\ grabState' = "GrabNone"
        /\ m' = Ungrabbed(w)
        /\ grabWaiters' = grabWaiters \ {w}
    /\ holds' = holds \ {cur}
    /\ Returned
    /\ UNCHANGED <<slotVars, grabClient, workQueue, checking, ready, cur, yield, times>>

(* XTestGrabControl.                                                       *)
GrabControlImpervious ==
    /\ Executes("Impervious")
    /\ m' = MakeClientGrabImpervious(m, clients[cur].fd)
    /\ Returned
    /\ UNCHANGED <<slotVars, grabVars, workQueue, checking, ready, cur, yield, times>>

GrabControlPervious ==
    /\ Executes("Pervious")
    /\ m' = MakeClientGrabPervious(m, cur, clients[cur].fd)
    /\ yield' = (yield \/ Suspends(m, cur))
    /\ Returned
    /\ UNCHANGED <<slotVars, grabVars, workQueue, checking, ready, cur, times>>

(* A request that has to wait for an answer, OpenFont of a font server's   *)
(* font: ClientSleep.  (Whether a client sleeps twice is not told apart.)  *)
Sleep ==
    /\ Executes("Sleep")
    /\ clients' = [clients EXCEPT ![cur].asleep = TRUE]
    /\ m' = IgnoreClient(m, clients[cur].fd)
    /\ yield' = TRUE
    /\ Returned
    /\ UNCHANGED <<conn, nextFreeClientID, nClients, dispatchException, grabVars,
                   workQueue, checking, ready, cur, times>>

Yields(c) == yield \/ c = cur

(* KillClient on a resource of c.  Dispatch does not look at the client    *)
(* served when it was the one killed, or if it is to yield anyway.         *)
ProcKillClient(c) ==
    /\ Executes("KillClient")
    /\ clients[c].state \in {"Running", "Retained"}
    /\ CloseDownClient(c, clients[c].mode)
    /\ yield' = Yields(c)
    /\ pc' = IF Yields(c) \/ ~clients[cur].exception THEN "run" ELSE "close"
    /\ UNCHANGED <<ready, cur, times>>

(* KillClient(AllTemporary): CloseDownRetainedResources.                   *)
KillTemporary ==
    LET dead == {c \in Clients : clients[c].state = "Retained"
                                 /\ clients[c].mode = "RetainTemporary"} IN
    /\ Executes("KillTemporary")
    /\ clients' = [c \in Clients |-> IF c \in dead THEN NoClient ELSE clients[c]]
    /\ nextFreeClientID' \in {j \in dead \cup {nextFreeClientID} :
                                \A c \in dead \cup {nextFreeClientID} : j <= c}
    /\ Returned
    /\ UNCHANGED <<conn, nClients, dispatchException, m, grabVars, workQueue, checking, ready,
                   cur, yield, times>>

ProcChangeCloseDownMode(mode) ==
    /\ Executes("SetCloseDownMode")
    /\ clients' = [clients EXCEPT ![cur].mode = mode]
    /\ Returned
    /\ UNCHANGED <<conn, nextFreeClientID, nClients, dispatchException, m, grabVars,
                   workQueue, checking, ready, cur, yield, times>>

-----------------------------------------------------------------------------
(* The reset.                                                              *)

(* KillAllClients closes the lowest slot in use.                           *)
KillAllClients(c) ==
    /\ pc = "reset" /\ clients[c].state # "Gone"
    /\ \A d \in Clients : d < c => clients[d].state = "Gone"
    /\ CloseDownClient(c, "DestroyAll")
    /\ UNCHANGED schedVars

(* Dispatch is entered again.                                              *)
Reset ==
    /\ pc = "reset" /\ \A c \in Clients : clients[c].state = "Gone"
    /\ dispatchException' = FALSE
    /\ nextFreeClientID' = 1 /\ nClients' = 0
    /\ pc' = "wait"
    /\ UNCHANGED <<clients, conn, m, grabVars, workQueue, checking, ready, cur, yield, times>>

-----------------------------------------------------------------------------
Environment == \E c \in Clients : Send(c) \/ HangUp(c) \/ WriteFails(c)

Wait ==
    \/ WorkEstablish \/ (\E c \in Clients : WorkWakeup(c))
    \/ WaitStops \/ ReturnBuffered \/ SelectFails \/ CheckConnections
    \/ \E newConnection \in BOOLEAN :
           \E answered \in SUBSET {c \in Clients : clients[c].asleep} :
               Select(newConnection, answered)

Establish ==
    \/ \E c \in Clients : KillStraggler(c)
    \/ StragglersDone \/ AcceptFails
    \/ \E fd \in Fd : AcceptReused(fd) \/ Accept(fd)

Serve ==
    \/ RoundDone \/ (\E c \in Clients : NextClient(c)) \/ TurnDone
    \/ ReadNothing \/ ReadFails \/ ReadRequest \/ Close

Execute ==
    \/ SetUp \/ Other
    \/ ProcGrabServer \/ ProcGrabServerWaits \/ ProcUngrabServer
    \/ GrabControlImpervious \/ GrabControlPervious \/ Sleep
    \/ (\E c \in Clients : ProcKillClient(c)) \/ KillTemporary
    \/ \E mode \in CloseDownModes : ProcChangeCloseDownMode(mode)

Restart == Reset \/ \E c \in Clients : KillAllClients(c)

Server == Wait \/ Establish \/ Serve \/ Execute \/ Restart

Next == Environment \/ Server

Spec == Init /\ [][Next]_vars

(* The server's thread runs whenever select or its own loops let it.       *)
FairSpec == Spec /\ WF_vars(Server)

-----------------------------------------------------------------------------
(* Every variable has its type; a client count below zero would not.       *)
TypeOK ==
    /\ clients \in [Clients -> ClientRec]
    /\ conn \in [Fd -> Clients \cup {0}]
    /\ m \in Masks
    /\ grabState \in GrabStates
    /\ grabClient \in Clients \cup {0}
    /\ grabWaiters \subseteq Clients
    /\ nClients \in Nat
    /\ nextFreeClientID \in 1 .. MAXCLIENTS
    /\ dispatchException \in BOOLEAN
    /\ workQueue \subseteq Clients \cup {0}
    /\ checking \subseteq Fd
    /\ pc \in Places
    /\ ready \subseteq Clients
    /\ cur \in Clients \cup {0}
    /\ yield \in BOOLEAN
    /\ times \in 0 .. MAX_TIMES_PER
    /\ holds \subseteq Clients

Known == {fd \in Fd : conn[fd] # 0}
Saved(S) == IF m.grab = 0 THEN {} ELSE S

(* A live client and ConnectionTranslation[] name each other: no           *)
(* descriptor the kernel has given out again leads to the client that had  *)
(* it before.                                                              *)
TranslationAgrees ==
    /\ \A c \in Live : conn[clients[c].fd] = c
    /\ \A fd \in Known : clients[conn[fd]].fd = fd

(* A closed descriptor is in no set select or Dispatch uses, although      *)
(* CloseDownFileDescriptor clears the saved sets only while the server is  *)
(* grabbed, and although FlushClient closes a descriptor and leaves it in  *)
(* all of them; and what is selected on is what is served.                 *)
SetsAgree ==
    /\ TranslationAgrees
    /\ m.all \cup m.cwi \cup m.impervious \subseteq Known
    /\ Saved(m.savedAll \cup m.savedCwi) \subseteq Known
    /\ m.socks = m.all
    /\ Saved(m.savedSocks) = Saved(m.savedAll)

(* The two halves of a server grab, grabState and grabClient in            *)
(* dix/dispatch.c and GrabInProgress in os/connection.c, agree, the        *)
(* grabbing client is connected, and nobody but it and the impervious      *)
(* clients is listened to.                                                 *)
GrabAgrees ==
    /\ m.grab = 0 <=> grabState = "GrabNone"
    /\ m.grab # 0 =>
        /\ m.grab = grabClient /\ grabClient \in Live
        /\ m.all \subseteq m.impervious \cup {clients[grabClient].fd}

(* Whoever is served while the server is grabbed holds the grab or is      *)
(* impervious, though the round was collected before the grab              *)
(* (GrabKickout), and though clients connect, are woken and change their   *)
(* perviousness during it.                                                 *)
OnlyGrabberServed ==
    pc = "execute" /\ grabState # "GrabNone" =>
        cur = grabClient \/ clients[cur].fd \in m.impervious

(* A connected client that is neither asleep nor waiting for the grab is   *)
(* listened to, or will be when the grab ends.                             *)
NobodyForgotten ==
    \A c \in Live : ~Ignored(c) => clients[c].fd \in m.all \cup Saved(m.savedAll)

(* A whole request in the input buffer of a client is remembered in        *)
(* ClientsWithInput, in its saved copy or in IgnoredClientsWithInput:      *)
(* select will not report it, so a forgotten one is not served until the   *)
(* client sends more.                                                      *)
BufferedRemembered ==
    \A c \in Live : clients[c].buffered > 0 =>
        clients[c].fd \in IF Ignored(c) THEN m.ignored
                          ELSE m.cwi \cup Saved(m.savedCwi)

(* After ClientSleep no request of the client is processed until           *)
(* ClientWakeup is called.                                                 *)
AsleepNotServed == pc = "execute" => ~clients[cur].asleep

(* When nobody holds the server but clients wait for it, one that was      *)
(* woken still has its GrabServer to execute, so that the waiters will be  *)
(* woken in their turn.  It does not hold: that one may be killed first.   *)
WaitersHandedOn ==
    grabState = "GrabNone" /\ grabWaiters # {} =>
        \E c \in Live \ grabWaiters : clients[c].retry

Running == {c \in Clients : clients[c].state = "Running"}
(* nClients counts the connections that completed their set-up, however    *)
(* they ended: refused, broken, killed, or retained and killed later.      *)
CountsRunning == nClients = Cardinality(Running)
(* The server is reset only when no client is connected and running.       *)
ResetsAlone == dispatchException => Running = {}

(* nextFreeClientID is the lowest free index of clients[], so that a slot  *)
(* that was freed is never lost and one in use is never given out.         *)
LeastFreeSlot == LeastAbove(1, nextFreeClientID, clients)
(* Dispatch never reads from a client whose connection has been closed,    *)
(* although a client of the round can be killed before its turn.           *)
NeverReadsClosed == pc = "run" /\ ~yield => cur \in Live

(* Every socket is drained again and again, unless the server is grabbed   *)
(* again and again: a client that keeps its buffer full cannot keep the    *)
(* server from calling select (buffers are drained before select is        *)
(* called, and nothing is read into one that holds a request).             *)
SocketsDrained == \A c \in Clients : []<>(clients[c].sent = 0 \/ m.grab # 0)
================================================================================
