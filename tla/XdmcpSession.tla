----------------------------- MODULE XdmcpSession ------------------------------
(***************************************************************************)
(* A display and its manager speaking XDMCP: the automaton of the X server *)
(* (Xserver/os/xdmcp.c) that asks for a session, and the part of xdm       *)
(* (programs/xdm/xdmcp.c, dm.c, protodpy.c) that grants it.  Datagrams are *)
(* lost, duplicated and overtake each other; the manager crashes and comes *)
(* back without its tables; the children it forked go on without it.       *)
(*                                                                         *)
(* The session itself is one connection, the first to be authorized after  *)
(* a MANAGE: that of the child the manager forks, or that of some other    *)
(* client which was quicker.                                               *)
(***************************************************************************)
EXTENDS Naturals, FiniteSets

CONSTANTS
    RTX_LIMIT, KA_RTX_LIMIT,     \* retransmissions before the session is dead
    MaxSessions,                 \* bound: session IDs the manager hands out
    MaxFaults,                   \* bound: datagrams lost or duplicated, timeouts that
                                 \* come before an answer, restarts of the manager,
                                 \* connections of another client
    OtherAfter,                  \* bound: the numbers of faults after which a client that
                                 \* no manager started may connect; {} if there is none
    Failures                     \* subset of {"OpenFails", "SendFails", "ProtoTimeout"}

ASSUME NumbersAssumption ==
    /\ RTX_LIMIT \in Nat \ {0} /\ KA_RTX_LIMIT \in Nat \ {0}
    /\ MaxSessions \in Nat /\ MaxFaults \in Nat

Sessions == 1..MaxSessions
NoSession == 0
Other == MaxSessions + 1   \* a client that no manager started

VARIABLES
    (* the display *)
    state, SessionID, timeOutRtx,
    sessionSocket,   \* the client whose connection is the session
    conns,           \* the clients connected to it: children of managers, or Other
    dispatchException,
    (* the manager *)
    protoDisplay,    \* the session ID offered to the display, or NoSession
    display,         \* the session it manages for it, or NoSession
    globalSessionID,
    child,           \* "none", "starting", "connected", "exited", "openfailed", "reaped"
    terminated,      \* the children that were sent SIGTERM
    orphans,         \* the children of a manager that crashed
    (* the network *)
    toManager, toDisplay,
    faults           \* how often something went wrong

displayVars == <<state, SessionID, timeOutRtx, sessionSocket, conns, dispatchException>>
managerVars == <<protoDisplay, display, globalSessionID, child, terminated, orphans>>
net == <<toManager, toDisplay>>
vars == <<displayVars, managerVars, net, faults>>

Msg(type, id) == [type |-> type, id |-> id]
Query == Msg("QUERY", NoSession)
Request == Msg("REQUEST", NoSession)

Init ==
    /\ state = "COLLECT_QUERY" /\ SessionID = NoSession /\ timeOutRtx = 0
    /\ sessionSocket = NoSession /\ conns = {} /\ dispatchException = FALSE
    /\ protoDisplay = NoSession /\ display = NoSession /\ globalSessionID = 0
    /\ child = [s \in Sessions |-> "none"] /\ terminated = {} /\ orphans = {}
    /\ toManager = {Query} /\ toDisplay = {}
    /\ faults = 0

(***************************************************************************)
(* The network.                                                            *)
(***************************************************************************)
Fault == faults < MaxFaults /\ faults' = faults + 1

\* m is taken from the channel, or a copy of it stays behind.
Taken(channel, m) ==
    \/ channel' = channel \ {m} /\ UNCHANGED faults
    \/ Fault /\ UNCHANGED channel

Lose(m) ==
    /\ Fault
    /\ toManager' = toManager \ {m} /\ toDisplay' = toDisplay \ {m}
    /\ UNCHANGED <<displayVars, managerVars>>

(***************************************************************************)
(* The display.  send_packet sends what the state calls for and moves on   *)
(* to the state that waits for the answer.                                 *)
(***************************************************************************)
Up == state # "FATAL" /\ ~dispatchException
Awaiting == {"COLLECT_QUERY", "START_CONNECTION", "AWAIT_REQUEST_RESPONSE",
             "AWAIT_MANAGE_RESPONSE", "AWAIT_ALIVE_RESPONSE"}

\* What is sent in a state, and the state after it.
Sent(s, id) ==
    CASE s = "QUERY" -> <<Query, "COLLECT_QUERY">>
      [] s = "START_CONNECTION" -> <<Request, "AWAIT_REQUEST_RESPONSE">>
      [] s = "MANAGE" -> <<Msg("MANAGE", id), "AWAIT_MANAGE_RESPONSE">>
      [] s = "KEEPALIVE" -> <<Msg("KEEPALIVE", id), "AWAIT_ALIVE_RESPONSE">>

\* send_packet; only send_request_msg looks whether the datagram was sent.
SendPacket(s, id) ==
    \/ /\ toManager' = toManager \cup {Sent(s, id)[1]}
       /\ state' = Sent(s, id)[2]
    \/ /\ s = "START_CONNECTION" /\ "SendFails" \in Failures
       /\ state' = s /\ UNCHANGED toManager

\* XdmcpDeadSession: the server will be reset, and asks for a new session.
XdmcpDeadSession ==
    /\ SendPacket("QUERY", NoSession)
    /\ dispatchException' = TRUE /\ timeOutRtx' = 0

\* receive_packet has taken m: the back-off is over, whatever m says.
Received(m) ==
    /\ Up /\ Taken(toDisplay, m)
    /\ timeOutRtx' = 0
    /\ UNCHANGED <<sessionSocket, conns, managerVars>>

\* The state does not wait for m, or m is about another session.
Ignores(m) ==
    \/ m.type = "WILLING" /\ state # "COLLECT_QUERY"
    \/ m.type = "ACCEPT" /\ state # "AWAIT_REQUEST_RESPONSE"
    \/ m.type \in {"REFUSE", "FAILED"} /\ (state # "AWAIT_MANAGE_RESPONSE" \/ m.id # SessionID)
    \/ m.type \in {"ALIVE", "DEAD"} /\ state # "AWAIT_ALIVE_RESPONSE"

Ignore(m) ==
    /\ Ignores(m) /\ Received(m)
    /\ UNCHANGED <<state, SessionID, dispatchException, toManager>>

recv_willing_msg(m) ==
    /\ m.type = "WILLING" /\ ~Ignores(m) /\ Received(m)
    /\ SendPacket("START_CONNECTION", NoSession)
    /\ UNCHANGED <<SessionID, dispatchException>>

recv_accept_msg(m) ==
    /\ m.type = "ACCEPT" /\ ~Ignores(m) /\ Received(m)
    /\ SessionID' = m.id /\ SendPacket("MANAGE", m.id)
    /\ UNCHANGED dispatchException

recv_refuse_msg(m) ==
    /\ m.type = "REFUSE" /\ ~Ignores(m) /\ Received(m)
    /\ SendPacket("START_CONNECTION", NoSession)
    /\ UNCHANGED <<SessionID, dispatchException>>

\* The server ends.
recv_failed_msg(m) ==
    /\ m.type = "FAILED" /\ ~Ignores(m) /\ Received(m)
    /\ state' = "FATAL"
    /\ UNCHANGED <<SessionID, dispatchException, toManager>>

\* "ALIVE" with its flag set and the right session, or anything else.
recv_alive_msg(m) ==
    LET alive == m.type = "ALIVE" /\ m.id = SessionID IN
    /\ m.type \in {"ALIVE", "DEAD"} /\ ~Ignores(m) /\ Up
    /\ Taken(toDisplay, m)
    /\ IF alive
       THEN state' = "RUN_SESSION" /\ timeOutRtx' = 0
            /\ UNCHANGED <<dispatchException, toManager>>
       ELSE XdmcpDeadSession
    /\ UNCHANGED <<SessionID, sessionSocket, conns, managerVars>>

DisplayReceives(m) ==
    \/ Ignore(m) \/ recv_willing_msg(m) \/ recv_accept_msg(m) \/ recv_refuse_msg(m)
    \/ recv_failed_msg(m) \/ recv_alive_msg(m)

\* The state to send from after a timeout in state s.
Resends(s) ==
    CASE s = "COLLECT_QUERY" -> "QUERY"
      [] s = "AWAIT_REQUEST_RESPONSE" -> "START_CONNECTION"
      [] s = "AWAIT_MANAGE_RESPONSE" -> "MANAGE"
      [] s = "AWAIT_ALIVE_RESPONSE" -> "KEEPALIVE"
      [] OTHER -> s

GivesUp == \/ state = "AWAIT_ALIVE_RESPONSE" /\ timeOutRtx + 1 >= KA_RTX_LIMIT
           \/ timeOutRtx + 1 >= RTX_LIMIT

\* Nothing is under way that the display waits for.
Silent == toManager = {} /\ toDisplay = {} /\ ~\E s \in Sessions : child[s] = "starting"

timeout ==
    /\ Up /\ state # "RUN_SESSION"
    /\ IF Silent THEN UNCHANGED faults ELSE Fault
    /\ IF GivesUp
       THEN XdmcpDeadSession
       ELSE /\ timeOutRtx' = timeOutRtx + 1
            /\ SendPacket(Resends(state), SessionID)
            /\ UNCHANGED dispatchException
    /\ UNCHANGED <<SessionID, sessionSocket, conns, managerVars, toDisplay>>

\* The session has been dormant: XdmcpWakeupHandler asks the manager.
KeepAlive ==
    /\ Up /\ state = "RUN_SESSION"
    /\ SendPacket("KEEPALIVE", SessionID)
    /\ UNCHANGED <<SessionID, timeOutRtx, sessionSocket, conns, dispatchException,
                   managerVars, toDisplay, faults>>

\* XdmcpOpenDisplay: a connection is authorized, whoever's it is.
XdmcpOpenDisplay(c) ==
    /\ Up /\ conns' = conns \cup {c}
    /\ IF state = "AWAIT_MANAGE_RESPONSE"
       THEN state' = "RUN_SESSION" /\ sessionSocket' = c
       ELSE UNCHANGED <<state, sessionSocket>>
    /\ UNCHANGED <<SessionID, timeOutRtx, dispatchException, protoDisplay, display,
                   globalSessionID, terminated, orphans, net>>

ChildConnects(s) ==
    /\ child[s] = "starting" /\ child' = [child EXCEPT ![s] = "connected"]
    /\ XdmcpOpenDisplay(s) /\ UNCHANGED faults

OtherConnects ==
    /\ faults \in OtherAfter /\ Other \notin conns
    /\ XdmcpOpenDisplay(Other) /\ Fault /\ UNCHANGED child

\* (mutant of CarriedBy) A connection closed while an ALIVE is awaited is not
\* the session's.
CarriedInRunSession(s) == state = "RUN_SESSION" /\ sessionSocket = s

CarriedBy(s) == state \in {"RUN_SESSION", "AWAIT_ALIVE_RESPONSE"} /\ sessionSocket = s

\* XdmcpCloseDisplay, in CloseDownClient; when the last client has gone, the
\* server is reset in any state.
XdmcpCloseDisplay(c) ==
    /\ Up /\ c \in conns
    /\ ~(c \in Sessions /\ child[c] \in {"starting", "connected"})
    /\ conns' = conns \ {c}
    /\ state' = IF CarriedBy(c) THEN "QUERY" ELSE state
    /\ dispatchException' = (CarriedBy(c) \/ conns' = {})
    /\ UNCHANGED <<SessionID, timeOutRtx, sessionSocket, managerVars, net, faults>>

\* The server resets: all connections are closed and XdmcpReset begins anew.
XdmcpReset ==
    /\ dispatchException
    /\ dispatchException' = FALSE /\ conns' = {} /\ timeOutRtx' = 0
    /\ SendPacket("QUERY", NoSession)
    /\ UNCHANGED <<SessionID, sessionSocket, managerVars, toDisplay, faults>>

(***************************************************************************)
(* The manager.                                                            *)
(***************************************************************************)
Reply(m) == toDisplay' = toDisplay \cup {m}
ManagerTakes(m, type) == m.type = type /\ Taken(toManager, m)

query_respond(m) ==
    /\ ManagerTakes(m, "QUERY") /\ Reply(Msg("WILLING", NoSession))
    /\ UNCHANGED <<displayVars, managerVars>>

\* The ID offered: that of the protoDisplay if there is one.
Offered == IF protoDisplay # NoSession THEN protoDisplay ELSE globalSessionID + 1

request_respond(m) ==
    /\ ManagerTakes(m, "REQUEST") /\ Offered \in Sessions
    /\ protoDisplay' = Offered
    /\ globalSessionID' = IF Offered > globalSessionID THEN Offered ELSE globalSessionID
    /\ Reply(Msg("ACCEPT", Offered))
    /\ UNCHANGED <<displayVars, display, child, terminated, orphans>>

\* (mutant of StopDisplay) The display is forgotten, its child left alone.
StopNothing == terminated

\* StopDisplay: the child is told to end and the display forgotten; its
\* child's end will then be that of an unknown process.
StopDisplay == terminated \cup ({display} \ {NoSession})

\* (mutant of Disposed) The offer outlives the session it was made for.
OfferKept == protoDisplay

\* DisposeProtoDisplay.
Disposed == NoSession

manage(m) ==
    /\ ManagerTakes(m, "MANAGE") /\ m.id = protoDisplay
    /\ terminated' = StopDisplay
    /\ display' = m.id /\ child' = [child EXCEPT ![m.id] = "starting"]
    /\ protoDisplay' = Disposed
    /\ UNCHANGED <<displayVars, globalSessionID, orphans, toDisplay>>

\* The MANAGE was answered already: the display has yet to see the child's
\* connection.
IsDuplicate(id) == protoDisplay = NoSession /\ display = id

manage_not_offered(m) ==
    /\ ManagerTakes(m, "MANAGE") /\ m.id # protoDisplay
    /\ IF IsDuplicate(m.id) THEN UNCHANGED toDisplay ELSE Reply(Msg("REFUSE", m.id))
    /\ UNCHANGED <<displayVars, managerVars>>

\* (mutant of IsRunning) Any session of the display will do.
AnyRunning(id) == display # NoSession

IsRunning(id) == display = id
send_alive(m) ==
    /\ ManagerTakes(m, "KEEPALIVE")
    /\ Reply(IF IsRunning(m.id) THEN Msg("ALIVE", m.id) ELSE Msg("DEAD", NoSession))
    /\ UNCHANGED <<displayVars, managerVars>>

ManagerReceives(m) ==
    \/ query_respond(m) \/ request_respond(m) \/ manage(m) \/ manage_not_offered(m)
    \/ send_alive(m)

\* Half an hour later a request of another display clears the offer away.
TimeoutProtoDisplays ==
    /\ "ProtoTimeout" \in Failures /\ protoDisplay # NoSession
    /\ protoDisplay' = NoSession
    /\ UNCHANGED <<displayVars, display, globalSessionID, child, terminated, orphans, net,
                   faults>>

\* The children: the user logs out, the connection breaks, SIGTERM comes.
ChildExits(s) ==
    /\ \/ child[s] = "connected"
       \/ child[s] = "starting" /\ s \in terminated
    /\ child' = [child EXCEPT ![s] = "exited"]
    /\ UNCHANGED <<displayVars, protoDisplay, display, globalSessionID, terminated, orphans,
                   net, faults>>

\* WaitForServer gives up.
ChildFailsToOpen(s) ==
    /\ child[s] = "starting" /\ ("OpenFails" \in Failures \/ state = "FATAL")
    /\ child' = [child EXCEPT ![s] = "openfailed"]
    /\ UNCHANGED <<displayVars, protoDisplay, display, globalSessionID, terminated, orphans,
                   net, faults>>

\* WaitForChild: the display whose child it was, if it is still known.
WaitForChild(s) ==
    /\ child[s] \in {"exited", "openfailed"}
    /\ child' = [child EXCEPT ![s] = "reaped"]
    /\ display' = IF display = s THEN NoSession ELSE display
    /\ IF display = s /\ child[s] = "openfailed" THEN Reply(Msg("FAILED", s))
       ELSE UNCHANGED toDisplay
    /\ UNCHANGED <<displayVars, protoDisplay, globalSessionID, terminated, orphans, toManager,
                   faults>>

\* The manager dies and is started again: its tables are empty.
Crash ==
    /\ Fault
    /\ protoDisplay' = NoSession /\ display' = NoSession
    /\ orphans' = orphans \cup {s \in Sessions : child[s] \in {"starting", "connected"}}
    /\ UNCHANGED <<displayVars, globalSessionID, child, terminated, net>>

----------------------------------------------------------------------------
Messages ==
    [type : {"QUERY", "REQUEST", "WILLING", "DEAD"}, id : {NoSession}]
        \cup [type : {"MANAGE", "KEEPALIVE", "ACCEPT", "REFUSE", "FAILED", "ALIVE"}, id : Sessions]

Processes(s) == ChildConnects(s) \/ XdmcpCloseDisplay(s) \/ WaitForChild(s)
Next ==
    \/ \E m \in toManager \cup toDisplay : Lose(m)
    \/ \E m \in toDisplay : DisplayReceives(m)
    \/ \E m \in toManager : ManagerReceives(m)
    \/ \E s \in Sessions : Processes(s) \/ ChildExits(s) \/ ChildFailsToOpen(s)
    \/ OtherConnects \/ XdmcpCloseDisplay(Other)
    \/ timeout \/ KeepAlive \/ XdmcpReset \/ TimeoutProtoDisplays \/ Crash

Spec == Init /\ [][Next]_vars

\* A child was sent SIGTERM, or its display has gone.
ChildMustExit(s) == (s \in terminated \/ s \notin conns) /\ ChildExits(s)

\* A REQUEST leaves the display.
Requests == (timeout \/ \E m \in toDisplay : DisplayReceives(m))
                /\ state' = "AWAIT_REQUEST_RESPONSE"

\* Datagrams that are not lost arrive, processes go on with what they began
\* and a child that was sent SIGTERM ends; the display is idle at times, so
\* that select returns 0 and its timer is looked at; a REQUEST that is tried
\* again and again is sent at last.
FairSpec ==
    /\ Spec
    /\ WF_vars(\E m \in toDisplay : DisplayReceives(m))
    /\ WF_vars(\E m \in toManager : ManagerReceives(m))
    /\ \A s \in Sessions : WF_vars(Processes(s)) /\ WF_vars(ChildMustExit(s))
    /\ WF_vars(timeout) /\ WF_vars(KeepAlive) /\ WF_vars(XdmcpReset)
    /\ SF_vars(Requests)

(***************************************************************************)
(* Properties.                                                             *)
(***************************************************************************)
\* Every variable has its type, and the retransmissions never pass the limit.
TypeOK ==
    /\ state \in Awaiting \cup {"QUERY", "RUN_SESSION", "FATAL"}
    /\ SessionID \in Sessions \cup {NoSession} /\ timeOutRtx \in 0..(RTX_LIMIT - 1)
    /\ sessionSocket \in Sessions \cup {Other, NoSession} /\ conns \subseteq Sessions \cup {Other}
    /\ dispatchException \in BOOLEAN
    /\ {protoDisplay, display} \subseteq Sessions \cup {NoSession}
    /\ globalSessionID \in 0..MaxSessions
    /\ child \in [Sessions -> {"none", "starting", "connected", "exited", "openfailed", "reaped"}]
    /\ terminated \subseteq Sessions /\ orphans \subseteq Sessions
    /\ toManager \subseteq Messages /\ toDisplay \subseteq Messages
    /\ faults \in 0..MaxFaults

\* The display believes in a session only as long as a connection carries it:
\* no close, reset or late answer leaves it in RUN_SESSION without one.
InSession == state \in {"RUN_SESSION", "AWAIT_ALIVE_RESPONSE"}
SessionConnected == InSession => sessionSocket \in conns

\* No session is started twice: the manager takes the path of manage that stops
\* the running session and forks only for a session that never had a child,
\* however often its MANAGE or the REQUEST before it is duplicated and however
\* late it comes, also when the child it has was forked but has yet to connect.
Starts(s) == \/ \E m \in toManager : m.id = s /\ manage(m)
             \/ child[s] # "starting" /\ child'[s] = "starting"
StartedOnce == [][\A s \in Sessions : Starts(s) => child[s] = "none"]_vars

\* A child the manager no longer knows was told to end, or the manager that
\* forked it has crashed: no session goes on behind its back.
NoStraySession ==
    \A s \in Sessions : child[s] \in {"starting", "connected"} =>
        s = display \/ s \in terminated \/ s \in orphans

\* What is offered was never managed: the two tables never speak of the same
\* session.
OfferIsNew == protoDisplay # NoSession => child[protoDisplay] = "none"

\* A session the manager is running is not refused to the display that asks
\* for it again: "If all this is true, then we have a duplicate request that
\* can be ignored" (xdm/xdmcp.c:1187).  It does not hold: see manage's test of
\* the offer, which a delayed REQUEST may have made.
RefusesRunning == \E s \in Sessions : Msg("REFUSE", s) \in toDisplay' \ toDisplay /\ display = s
NeverRefusesRunning == [][~RefusesRunning]_vars

\* A session the manager does not know is found out by the keep-alives: the
\* display does not believe in it for ever (XdmcpDeadSession).
Disagree == InSession /\ display # SessionID
DisagreementEnds == Disagree ~> ~Disagree

\* The display gets its session in the end, or a new one after a reset:
\* however many datagrams were lost, it does not wait for ever for an answer
\* that will not come.  (The bound on sessions ends the matter as FatalError
\* does.)
Ended == state = "FATAL" \/ (Request \in toManager /\ Offered \notin Sessions)
Served == []<>(InSession \/ Ended)
================================================================================
