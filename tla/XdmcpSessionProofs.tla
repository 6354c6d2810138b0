-------------------------- MODULE XdmcpSessionProofs ---------------------------
(***************************************************************************)
(* Proofs about XdmcpSession for any limits, any number of sessions and of *)
(* faults: the types, that an offer is never for a session that was        *)
(* managed, that no session starts twice or goes on unknown to its         *)
(* manager, and that the display's session has a connection.               *)
(***************************************************************************)
EXTENDS XdmcpSession, TLAPS

Children == {"none", "starting", "connected", "exited", "openfailed", "reaped"}

\* Whoever waits for the answer to a MANAGE or a KEEPALIVE has a session ID.
AsksForSession ==
    state \in {"AWAIT_MANAGE_RESPONSE", "RUN_SESSION", "AWAIT_ALIVE_RESPONSE"}
        => SessionID \in Sessions
TypeInv == TypeOK /\ AsksForSession

SendStates == {"QUERY", "START_CONNECTION", "MANAGE", "KEEPALIVE"}

----------------------------------------------------------------------------
\* What send_packet sends is a datagram, and the display then waits for its
\* answer, or tries again.
LEMMA SendPacketLemma ==
    ASSUME TypeOK, NEW s \in SendStates, NEW id,
           s \in {"MANAGE", "KEEPALIVE"} => id \in Sessions, SendPacket(s, id)
    PROVE  /\ toManager' \subseteq Messages
           /\ state' \in {"COLLECT_QUERY", "START_CONNECTION", "AWAIT_REQUEST_RESPONSE",
                          "AWAIT_MANAGE_RESPONSE", "AWAIT_ALIVE_RESPONSE"}
           /\ state' = "AWAIT_MANAGE_RESPONSE" => s = "MANAGE"
           /\ state' = "AWAIT_ALIVE_RESPONSE" => s = "KEEPALIVE"
<1>1. CASE s = "START_CONNECTION" /\ state' = s /\ UNCHANGED toManager
  BY <1>1 DEF TypeOK
<1>2. CASE toManager' = toManager \cup {Sent(s, id)[1]} /\ state' = Sent(s, id)[2]
  <2>1. CASE s = "QUERY"
    BY <1>2, <2>1 DEF TypeOK, Sent, Query, Msg, Messages
  <2>2. CASE s = "START_CONNECTION"
    BY <1>2, <2>2 DEF TypeOK, Sent, Request, Msg, Messages
  <2>3. CASE s = "MANAGE"
    BY <1>2, <2>3 DEF TypeOK, Sent, Msg, Messages
  <2>4. CASE s = "KEEPALIVE"
    BY <1>2, <2>4 DEF TypeOK, Sent, Msg, Messages
  <2> QED
    BY <2>1, <2>2, <2>3, <2>4 DEF SendStates
<1> QED
  BY <1>1, <1>2 DEF SendPacket

\* Taking a datagram leaves the channel with datagrams and the faults in bounds.
LEMMA TakenLemma ==
    ASSUME TypeOK, NEW m
    PROVE  /\ Taken(toDisplay, m) => toDisplay' \subseteq toDisplay /\ faults' \in 0..MaxFaults
           /\ Taken(toManager, m) => toManager' \subseteq toManager /\ faults' \in 0..MaxFaults
  BY NumbersAssumption DEF TypeOK, Taken, Fault

LEMMA FaultLemma == ASSUME TypeOK, Fault PROVE faults' \in 0..MaxFaults
  BY NumbersAssumption DEF TypeOK, Fault

\* The steps in which the display takes a datagram keep the types.
LEMMA ReceiveType ==
    ASSUME TypeInv, NEW m \in toDisplay, DisplayReceives(m)
    PROVE  TypeInv'
<1> USE NumbersAssumption DEF TypeInv
<1>1. m \in Messages
  BY DEF TypeOK
<1>2. CASE Ignore(m)
  BY <1>2, TakenLemma DEF Ignore, Received, TypeOK, AsksForSession, managerVars, Sessions
<1>3. CASE recv_willing_msg(m)
  BY <1>3, TakenLemma, SendPacketLemma
  DEF recv_willing_msg, Received, TypeOK, AsksForSession, managerVars, Sessions, SendStates,
      Awaiting
<1>4. CASE recv_accept_msg(m)
  <2>1. m.id \in Sessions
    BY <1>1, <1>4 DEF recv_accept_msg, Messages
  <2> QED
    BY <1>4, <2>1, TakenLemma, SendPacketLemma
    DEF recv_accept_msg, Received, TypeOK, AsksForSession, managerVars, SendStates, Awaiting
<1>5. CASE recv_refuse_msg(m)
  BY <1>5, TakenLemma, SendPacketLemma
  DEF recv_refuse_msg, Received, TypeOK, AsksForSession, managerVars, Sessions, SendStates,
      Awaiting
<1>6. CASE recv_failed_msg(m)
  BY <1>6, TakenLemma DEF recv_failed_msg, Received, TypeOK, AsksForSession, managerVars, Sessions
<1>7. CASE recv_alive_msg(m)
  <2>0. state = "AWAIT_ALIVE_RESPONSE"
    BY <1>7 DEF recv_alive_msg, Ignores
  <2>1. CASE m.type = "ALIVE" /\ m.id = SessionID
    <3>1. /\ state' = "RUN_SESSION" /\ timeOutRtx' = 0 /\ Taken(toDisplay, m)
          /\ UNCHANGED <<dispatchException, toManager, SessionID, sessionSocket, conns, managerVars>>
      BY <1>7, <2>1 DEF recv_alive_msg
    <3> QED
      BY <2>0, <3>1, TakenLemma DEF TypeOK, AsksForSession, managerVars
  <2>2. CASE ~(m.type = "ALIVE" /\ m.id = SessionID)
    <3>1. XdmcpDeadSession /\ Taken(toDisplay, m)
          /\ UNCHANGED <<SessionID, sessionSocket, conns, managerVars>>
      BY <1>7, <2>2 DEF recv_alive_msg
    <3>2. toManager' \subseteq Messages /\ state' \in Awaiting
          /\ state' \notin {"AWAIT_MANAGE_RESPONSE", "RUN_SESSION", "AWAIT_ALIVE_RESPONSE"}
      BY <3>1, SendPacketLemma DEF XdmcpDeadSession, SendStates, Awaiting
    <3>3. dispatchException' \in BOOLEAN
      BY <3>1 DEF XdmcpDeadSession
    <3> QED
      BY <3>1, <3>2, <3>3, TakenLemma DEF XdmcpDeadSession, TypeOK, AsksForSession, managerVars
  <2> QED
    BY <2>1, <2>2
<1> QED
  BY <1>2, <1>3, <1>4, <1>5, <1>6, <1>7 DEF DisplayReceives

\* The steps of the display on its own keep the types.
LEMMA DisplayType ==
    ASSUME TypeInv, timeout \/ KeepAlive \/ XdmcpReset
    PROVE  TypeInv'
<1> USE NumbersAssumption DEF TypeInv
<1>1. CASE timeout
  <2>1. faults' \in 0..MaxFaults
    BY <1>1, FaultLemma DEF timeout, TypeOK
  <2>2. CASE GivesUp
    BY <1>1, <2>1, <2>2, SendPacketLemma
    DEF timeout, XdmcpDeadSession, TypeOK, AsksForSession, managerVars, Sessions, SendStates,
        Awaiting
  <2>3. CASE ~GivesUp
    <3>1. timeOutRtx' \in 0..(RTX_LIMIT - 1)
      BY <1>1, <2>3 DEF timeout, GivesUp, TypeOK
    <3>2. /\ Resends(state) \in SendStates
          /\ Resends(state) \in {"MANAGE", "KEEPALIVE"} => SessionID \in Sessions
      BY <1>1 DEF timeout, Up, Resends, TypeOK, AsksForSession, SendStates, Awaiting
    <3>3. SendPacket(Resends(state), SessionID) /\ UNCHANGED dispatchException
      BY <1>1, <2>3 DEF timeout
    <3>4. /\ toManager' \subseteq Messages
          /\ state' \in Awaiting
          /\ state' \in {"AWAIT_MANAGE_RESPONSE", "AWAIT_ALIVE_RESPONSE"}
                => SessionID \in Sessions
      BY <3>2, <3>3, SendPacketLemma DEF Awaiting
    <3> QED
      BY <1>1, <2>1, <3>1, <3>3, <3>4
      DEF timeout, TypeOK, AsksForSession, managerVars, Awaiting
  <2> QED
    BY <2>2, <2>3
<1>2. CASE KeepAlive
  BY <1>2, SendPacketLemma
  DEF KeepAlive, TypeOK, AsksForSession, managerVars, SendStates, Awaiting
<1>3. CASE XdmcpReset
  <2>1. toManager' \subseteq Messages /\ state' \in Awaiting
    BY <1>3, SendPacketLemma DEF XdmcpReset, SendStates, Awaiting
  <2>2. state' \notin {"AWAIT_MANAGE_RESPONSE", "RUN_SESSION", "AWAIT_ALIVE_RESPONSE"}
    BY <1>3, SendPacketLemma DEF XdmcpReset, SendStates
  <2>3. dispatchException' \in BOOLEAN
    BY <1>3 DEF XdmcpReset
  <2> QED
    BY <1>3, <2>1, <2>2, <2>3 DEF XdmcpReset, TypeOK, AsksForSession, managerVars
<1> QED
  BY <1>1, <1>2, <1>3

\* The ID a REQUEST is answered with.
LEMMA OfferedLemma ==
    ASSUME TypeOK, Offered \in Sessions
    PROVE  (IF Offered > globalSessionID THEN Offered ELSE globalSessionID) \in 0..MaxSessions
  BY NumbersAssumption DEF TypeOK, Sessions

\* The steps in which the manager takes a datagram keep the types.
LEMMA ManagerType ==
    ASSUME TypeInv, NEW m \in toManager, ManagerReceives(m)
    PROVE  TypeInv'
<1> USE NumbersAssumption DEF TypeInv
<1>1. m \in Messages
  BY DEF TypeOK
<1>2. CASE query_respond(m)
  BY <1>2, TakenLemma
  DEF query_respond, ManagerTakes, Reply, Msg, Messages, TypeOK, AsksForSession, displayVars,
      managerVars
<1>3. CASE request_respond(m)
  BY <1>3, TakenLemma, OfferedLemma
  DEF request_respond, ManagerTakes, Reply, Msg, Messages, TypeOK, AsksForSession, displayVars
<1>4. CASE manage(m)
  <2>1. m.id \in Sessions
    BY <1>1, <1>4 DEF manage, ManagerTakes, Messages
  <2> QED
    BY <1>4, <2>1, TakenLemma
    DEF manage, ManagerTakes, StopDisplay, Disposed, TypeOK, AsksForSession, displayVars
<1>5. CASE manage_not_offered(m)
  <2>1. m.id \in Sessions
    BY <1>1, <1>5 DEF manage_not_offered, ManagerTakes, Messages
  <2> QED
    BY <1>5, <2>1, TakenLemma
    DEF manage_not_offered, ManagerTakes, Reply, Msg, Messages, TypeOK, AsksForSession,
        displayVars, managerVars
<1>6. CASE send_alive(m)
  <2>1. m.id \in Sessions
    BY <1>1, <1>6 DEF send_alive, ManagerTakes, Messages
  <2> QED
    BY <1>6, <2>1, TakenLemma
    DEF send_alive, ManagerTakes, Reply, Msg, Messages, TypeOK, AsksForSession, displayVars,
        managerVars
<1> QED
  BY <1>2, <1>3, <1>4, <1>5, <1>6 DEF ManagerReceives

\* The steps of the children, of time and of the faults keep the types.
LEMMA OthersType ==
    ASSUME TypeInv,
           \/ \E m \in toManager \cup toDisplay : Lose(m)
           \/ \E s \in Sessions : Processes(s) \/ ChildExits(s) \/ ChildFailsToOpen(s)
           \/ OtherConnects \/ XdmcpCloseDisplay(Other)
           \/ TimeoutProtoDisplays \/ Crash
    PROVE  TypeInv'
<1> USE NumbersAssumption DEF TypeInv
<1>1. ASSUME NEW m \in toManager \cup toDisplay, Lose(m) PROVE TypeInv'
  BY <1>1, FaultLemma DEF Lose, TypeOK, AsksForSession, displayVars, managerVars
<1>2. ASSUME NEW s \in Sessions, ChildConnects(s) PROVE TypeInv'
  BY <1>2 DEF ChildConnects, XdmcpOpenDisplay, TypeOK, AsksForSession, net
<1>3. ASSUME NEW s \in Sessions \cup {Other}, XdmcpCloseDisplay(s) PROVE TypeInv'
  BY <1>3 DEF XdmcpCloseDisplay, TypeOK, AsksForSession, managerVars, net
<1>8. CASE OtherConnects
  BY <1>8, FaultLemma DEF OtherConnects, XdmcpOpenDisplay, TypeOK, AsksForSession, net
<1>4. ASSUME NEW s \in Sessions, WaitForChild(s) PROVE TypeInv'
  BY <1>4 DEF WaitForChild, Reply, Msg, Messages, TypeOK, AsksForSession, displayVars
<1>5. ASSUME NEW s \in Sessions, ChildExits(s) \/ ChildFailsToOpen(s) PROVE TypeInv'
  BY <1>5 DEF ChildExits, ChildFailsToOpen, TypeOK, AsksForSession, displayVars, net
<1>6. CASE TimeoutProtoDisplays
  BY <1>6 DEF TimeoutProtoDisplays, TypeOK, AsksForSession, displayVars, net
<1>7. CASE Crash
  BY <1>7, FaultLemma DEF Crash, TypeOK, AsksForSession, displayVars, net
<1> QED
  BY <1>1, <1>2, <1>3, <1>4, <1>5, <1>6, <1>7, <1>8 DEF Processes

\* Every step keeps the types.
LEMMA TypeStep == TypeInv /\ [Next]_vars => TypeInv'
<1> SUFFICES ASSUME TypeInv, [Next]_vars PROVE TypeInv'
  OBVIOUS
<1>1. CASE UNCHANGED vars
  BY <1>1 DEF TypeInv, TypeOK, AsksForSession, vars, displayVars, managerVars, net
<1>2. CASE Next
  BY <1>2, ReceiveType, DisplayType, ManagerType, OthersType DEF Next
<1> QED
  BY <1>1, <1>2

LEMMA TypeInit == Init => TypeInv
<1> SUFFICES ASSUME Init PROVE TypeInv
  OBVIOUS
<1>1. toManager \subseteq Messages /\ toDisplay \subseteq Messages
  BY DEF Init, Query, Msg, Messages
<1>2. dispatchException \in BOOLEAN
  BY DEF Init
<1> QED
  BY <1>1, <1>2, NumbersAssumption DEF Init, TypeInv, TypeOK, AsksForSession, Awaiting

\* Every variable has its type and the retransmissions never pass their limits
\* (timeout), whatever the network, the manager and the children do.
THEOREM TypeCorrect == Spec => []TypeOK
<1>1. TypeInv => TypeOK
  BY DEF TypeInv
<1> QED
  BY <1>1, TypeInit, TypeStep, PTL DEF Spec

\* The same with the session IDs the display asks with, for the other proofs.
LEMMA TypeInvariant == Spec => []TypeInv
  BY TypeInit, TypeStep, PTL DEF Spec

----------------------------------------------------------------------------
\* The IDs handed out are those up to globalSessionID; no child has another, and
\* the offer is one that was not managed.
HandedOut ==
    /\ \A s \in Sessions : s > globalSessionID => child[s] = "none"
    /\ protoDisplay <= globalSessionID
OfferInv == HandedOut /\ OfferIsNew

\* Every step keeps the offer apart from what was managed.
LEMMA OfferStep == TypeInv /\ OfferInv /\ [Next]_vars => OfferInv'
<1> SUFFICES ASSUME TypeInv, OfferInv, [Next]_vars PROVE OfferInv'
  OBVIOUS
<1> USE NumbersAssumption DEF OfferInv, HandedOut, OfferIsNew, NoSession, Sessions
<1>0. /\ protoDisplay \in 0..MaxSessions /\ globalSessionID \in 0..MaxSessions
      /\ child \in [Sessions -> Children]
  BY DEF TypeInv, TypeOK, Children
<1>1. CASE UNCHANGED <<protoDisplay, globalSessionID, child>>
  BY <1>1
<1>2. ASSUME NEW m \in toManager \cup toDisplay, Lose(m) PROVE OfferInv'
  BY <1>2, <1>1 DEF Lose, managerVars
<1>3. ASSUME NEW m \in toDisplay, DisplayReceives(m) PROVE OfferInv'
  BY <1>3, <1>1
  DEF DisplayReceives, Ignore, recv_willing_msg, recv_accept_msg, recv_refuse_msg,
      recv_failed_msg, recv_alive_msg, Received, managerVars
<1>4. ASSUME NEW m \in toManager, ManagerReceives(m) PROVE OfferInv'
  <2>1. CASE query_respond(m) \/ manage_not_offered(m) \/ send_alive(m)
    BY <1>1, <2>1 DEF query_respond, manage_not_offered, send_alive, managerVars
  <2>2. CASE request_respond(m)
    BY <1>0, <2>2 DEF request_respond, Offered
  <2>3. CASE manage(m)
    <3>1. m.id \in Sessions
      BY <2>3 DEF manage, ManagerTakes, TypeInv, TypeOK, Messages
    <3> QED
      BY <1>0, <2>3, <3>1 DEF manage, Disposed
  <2> QED
    BY <1>4, <2>1, <2>2, <2>3 DEF ManagerReceives
<1>5. ASSUME NEW s \in Sessions, Processes(s) \/ ChildExits(s) \/ ChildFailsToOpen(s)
      PROVE  OfferInv'
  <2>1. CASE XdmcpCloseDisplay(s)
    BY <1>1, <2>1 DEF XdmcpCloseDisplay, managerVars
  <2>2. CASE ~XdmcpCloseDisplay(s)
    <3>1. /\ child[s] # "none" /\ UNCHANGED <<protoDisplay, globalSessionID>>
          /\ \E x : child' = [child EXCEPT ![s] = x]
      BY <1>5, <2>2
      DEF Processes, ChildConnects, XdmcpOpenDisplay, WaitForChild, ChildExits, ChildFailsToOpen
    <3> QED
      BY <1>0, <3>1
  <2> QED
    BY <2>1, <2>2
<1>6. CASE timeout \/ KeepAlive \/ XdmcpReset \/ OtherConnects \/ XdmcpCloseDisplay(Other)
  BY <1>1, <1>6
  DEF timeout, KeepAlive, XdmcpReset, OtherConnects, XdmcpOpenDisplay, XdmcpCloseDisplay,
      managerVars
<1>7. CASE TimeoutProtoDisplays \/ Crash
  BY <1>0, <1>7 DEF TimeoutProtoDisplays, Crash
<1>8. CASE UNCHANGED vars
  BY <1>1, <1>8 DEF vars, managerVars
<1> QED
  BY <1>2, <1>3, <1>4, <1>5, <1>6, <1>7, <1>8 DEF Next

LEMMA OfferInvariant == Spec => []OfferInv
<1>1. Init => OfferInv
  BY NumbersAssumption DEF Init, OfferInv, HandedOut, OfferIsNew, NoSession, Sessions
<1> QED
  BY <1>1, OfferStep, TypeInvariant, PTL DEF Spec

\* The two tables of the manager never speak of the same session: what
\* request_respond offers was never managed.
THEOREM OfferCorrect == Spec => []OfferIsNew
<1>1. OfferInv => OfferIsNew
  BY DEF OfferInv
<1> QED
  BY <1>1, OfferInvariant, PTL

----------------------------------------------------------------------------
\* Only manage starts a child, and only that of the offer.
LEMMA StartsOffered ==
    ASSUME TypeInv, [Next]_vars, NEW s \in Sessions, child[s] # "starting",
           child'[s] = "starting"
    PROVE  s = protoDisplay
<1> USE DEF Sessions
<1>0. child \in [Sessions -> Children]
  BY DEF TypeInv, TypeOK, Children
<1>1. CASE UNCHANGED child
  BY <1>1
<1>2. ASSUME NEW t \in Sessions, NEW x, x # "starting", child' = [child EXCEPT ![t] = x]
      PROVE  FALSE
  BY <1>0, <1>2
<1>3. ASSUME NEW m \in toManager \cup toDisplay, Lose(m) PROVE FALSE
  BY <1>3, <1>1 DEF Lose, managerVars
<1>4. ASSUME NEW m \in toDisplay, DisplayReceives(m) PROVE FALSE
  BY <1>4, <1>1
  DEF DisplayReceives, Ignore, recv_willing_msg, recv_accept_msg, recv_refuse_msg,
      recv_failed_msg, recv_alive_msg, Received, managerVars
<1>5. ASSUME NEW m \in toManager, ManagerReceives(m) PROVE s = protoDisplay
  <2>1. CASE query_respond(m) \/ manage_not_offered(m) \/ send_alive(m) \/ request_respond(m)
    BY <1>1, <2>1 DEF query_respond, manage_not_offered, send_alive, request_respond, managerVars
  <2>2. CASE manage(m)
    BY <1>0, <2>2 DEF manage
  <2> QED
    BY <1>5, <2>1, <2>2 DEF ManagerReceives
<1>6. ASSUME NEW t \in Sessions, Processes(t) \/ ChildExits(t) \/ ChildFailsToOpen(t)
      PROVE  FALSE
  <2>1. CASE XdmcpCloseDisplay(t)
    BY <1>1, <2>1 DEF XdmcpCloseDisplay, managerVars
  <2>2. CASE ~XdmcpCloseDisplay(t)
    BY <1>2, <1>6, <2>2
    DEF Processes, ChildConnects, WaitForChild, ChildExits, ChildFailsToOpen
  <2> QED
    BY <2>1, <2>2
<1>7. CASE \/ timeout \/ KeepAlive \/ XdmcpReset \/ TimeoutProtoDisplays \/ Crash
           \/ OtherConnects \/ XdmcpCloseDisplay(Other) \/ UNCHANGED vars
  BY <1>1, <1>7
  DEF timeout, KeepAlive, XdmcpReset, TimeoutProtoDisplays, Crash, OtherConnects,
      XdmcpCloseDisplay, vars, managerVars
<1> QED
  BY <1>3, <1>4, <1>5, <1>6, <1>7 DEF Next

\* However often and however late a MANAGE or the REQUEST before it arrives, manage
\* starts the child of a session at most once, and a duplicate does not stop it.
THEOREM StartsOnce == Spec => StartedOnce
<1>1. TypeInv /\ OfferInv /\ [Next]_vars => [\A s \in Sessions : Starts(s) => child[s] = "none"]_vars
  <2> SUFFICES ASSUME TypeInv, OfferInv, [Next]_vars, NEW s \in Sessions, Starts(s)
               PROVE  child[s] = "none"
    OBVIOUS
  <2>1. s = protoDisplay
    BY StartsOffered DEF Starts, manage
  <2>2. s # NoSession
    BY DEF Sessions, NoSession
  <2> QED
    BY <2>1, <2>2 DEF OfferInv, OfferIsNew
<1> QED
  BY <1>1, TypeInvariant, OfferInvariant, PTL DEF Spec, StartedOnce

----------------------------------------------------------------------------
\* Every step leaves a running child known, told to end, or orphaned.
LEMMA StrayStep == TypeInv /\ NoStraySession /\ [Next]_vars => NoStraySession'
<1> SUFFICES ASSUME TypeInv, NoStraySession, [Next]_vars PROVE NoStraySession'
  OBVIOUS
<1> USE DEF NoStraySession, Sessions
<1>0. child \in [Sessions -> Children]
  BY DEF TypeInv, TypeOK, Children
<1>1. CASE UNCHANGED <<display, child, terminated, orphans>>
  BY <1>1
<1>2. ASSUME NEW m \in toManager \cup toDisplay, Lose(m) PROVE NoStraySession'
  BY <1>2, <1>1 DEF Lose, managerVars
<1>3. ASSUME NEW m \in toDisplay, DisplayReceives(m) PROVE NoStraySession'
  BY <1>3, <1>1
  DEF DisplayReceives, Ignore, recv_willing_msg, recv_accept_msg, recv_refuse_msg,
      recv_failed_msg, recv_alive_msg, Received, managerVars
<1>4. ASSUME NEW m \in toManager, ManagerReceives(m) PROVE NoStraySession'
  <2>1. CASE query_respond(m) \/ manage_not_offered(m) \/ send_alive(m) \/ request_respond(m)
    BY <1>1, <2>1 DEF query_respond, manage_not_offered, send_alive, request_respond, managerVars
  <2>2. CASE manage(m)
    <3>1. m.id \in Sessions
      BY <2>2 DEF manage, ManagerTakes, TypeInv, TypeOK, Messages
    <3>2. \A s \in Sessions : s # m.id => child'[s] = child[s]
      BY <1>0, <2>2, <3>1 DEF manage
    <3>3. display' = m.id /\ terminated' = terminated \cup ({display} \ {0}) /\ orphans' = orphans
      BY <2>2 DEF manage, StopDisplay, NoSession
    <3> QED
      BY <3>1, <3>2, <3>3
  <2> QED
    BY <1>4, <2>1, <2>2 DEF ManagerReceives
<1>5. ASSUME NEW s \in Sessions, Processes(s) \/ ChildExits(s) \/ ChildFailsToOpen(s)
      PROVE  NoStraySession'
  <2>1. CASE XdmcpCloseDisplay(s)
    BY <1>1, <2>1 DEF XdmcpCloseDisplay, managerVars
  <2>2. CASE ChildConnects(s)
    BY <1>0, <2>2 DEF ChildConnects, XdmcpOpenDisplay
  <2>3. CASE WaitForChild(s)
    BY <1>0, <2>3 DEF WaitForChild
  <2>4. CASE ChildExits(s)
    BY <1>0, <2>4 DEF ChildExits
  <2>5. CASE ChildFailsToOpen(s)
    BY <1>0, <2>5 DEF ChildFailsToOpen
  <2> QED
    BY <1>5, <2>1, <2>2, <2>3, <2>4, <2>5 DEF Processes
<1>6. CASE \/ timeout \/ KeepAlive \/ XdmcpReset \/ TimeoutProtoDisplays
           \/ OtherConnects \/ XdmcpCloseDisplay(Other) \/ UNCHANGED vars
  BY <1>1, <1>6
  DEF timeout, KeepAlive, XdmcpReset, TimeoutProtoDisplays, OtherConnects, XdmcpOpenDisplay,
      XdmcpCloseDisplay, vars, managerVars
<1>7. CASE Crash
  BY <1>0, <1>7 DEF Crash
<1> QED
  BY <1>2, <1>3, <1>4, <1>5, <1>6, <1>7 DEF Next

\* Whichever way a session is replaced (manage with StopDisplay), ends (WaitForChild)
\* or loses its manager, no child goes on unknown and untold.
THEOREM NoneStrays == Spec => []NoStraySession
<1>1. Init => NoStraySession
  BY DEF Init, NoStraySession
<1> QED
  BY <1>1, StrayStep, TypeInvariant, PTL DEF Spec

----------------------------------------------------------------------------
\* Only an answer to a KEEPALIVE, a KEEPALIVE and a connection put or keep the
\* display in a session.
LEMMA ConnectedStep == TypeInv /\ SessionConnected /\ [Next]_vars => SessionConnected'
<1> SUFFICES ASSUME TypeInv, SessionConnected, [Next]_vars PROVE SessionConnected'
  OBVIOUS
<1> USE DEF SessionConnected, InSession
<1>0. TypeOK
  BY DEF TypeInv
<1>1. CASE UNCHANGED <<sessionSocket, conns>> /\ (InSession' => InSession)
  BY <1>1
<1>2. ASSUME NEW m \in toManager \cup toDisplay, Lose(m) PROVE SessionConnected'
  BY <1>2, <1>1 DEF Lose, displayVars
<1>3. ASSUME NEW m \in toDisplay, DisplayReceives(m) PROVE SessionConnected'
  <2>1. CASE Ignore(m) \/ recv_failed_msg(m)
    BY <1>1, <2>1 DEF Ignore, recv_failed_msg, Received
  <2>2. CASE recv_willing_msg(m) \/ recv_refuse_msg(m)
    <3>1. state' # "AWAIT_ALIVE_RESPONSE" /\ state' # "RUN_SESSION"
      BY <1>0, <2>2, SendPacketLemma DEF recv_willing_msg, recv_refuse_msg, SendStates
    <3> QED
      BY <3>1
  <2>3. CASE recv_accept_msg(m)
    <3>1. state' = "AWAIT_MANAGE_RESPONSE"
      BY <2>3 DEF recv_accept_msg, SendPacket, Sent
    <3> QED
      BY <3>1
  <2>4. CASE recv_alive_msg(m)
    <3>1. state = "AWAIT_ALIVE_RESPONSE"
      BY <2>4 DEF recv_alive_msg, Ignores
    <3>2. UNCHANGED <<sessionSocket, conns>>
      BY <2>4 DEF recv_alive_msg
    <3> QED
      BY <3>1, <3>2
  <2> QED
    BY <1>3, <2>1, <2>2, <2>3, <2>4 DEF DisplayReceives
<1>4. ASSUME NEW m \in toManager, ManagerReceives(m) PROVE SessionConnected'
  BY <1>4, <1>1
  DEF ManagerReceives, query_respond, request_respond, manage, manage_not_offered, send_alive,
      displayVars
<1>5. ASSUME NEW s \in Sessions, Processes(s) \/ ChildExits(s) \/ ChildFailsToOpen(s)
      PROVE  SessionConnected'
  <2>1. CASE ChildConnects(s)
    BY <2>1 DEF ChildConnects, XdmcpOpenDisplay
  <2>2. CASE XdmcpCloseDisplay(s)
    BY <2>2 DEF XdmcpCloseDisplay, CarriedBy
  <2>3. CASE WaitForChild(s) \/ ChildExits(s) \/ ChildFailsToOpen(s)
    BY <1>1, <2>3 DEF WaitForChild, ChildExits, ChildFailsToOpen, displayVars
  <2> QED
    BY <1>5, <2>1, <2>2, <2>3 DEF Processes
<1>6. CASE timeout
  <2>1. UNCHANGED <<sessionSocket, conns>> /\ state # "RUN_SESSION"
    BY <1>6 DEF timeout
  <2>2. CASE state = "AWAIT_ALIVE_RESPONSE"
    BY <2>1, <2>2
  <2>3. CASE state # "AWAIT_ALIVE_RESPONSE" /\ GivesUp
    <3>1. state' # "AWAIT_ALIVE_RESPONSE" /\ state' # "RUN_SESSION"
      BY <1>0, <1>6, <2>3, SendPacketLemma DEF timeout, XdmcpDeadSession, SendStates
    <3> QED
      BY <3>1
  <2>4. CASE state # "AWAIT_ALIVE_RESPONSE" /\ ~GivesUp
    <3>1. Resends(state) \in SendStates \ {"KEEPALIVE"} /\ SendPacket(Resends(state), SessionID)
      BY <1>0, <1>6, <2>4 DEF timeout, Up, Resends, TypeOK, SendStates, Awaiting
    <3>2. Resends(state) = "MANAGE" => SessionID \in Sessions
      BY <1>0, <1>6, <2>4 DEF timeout, Up, Resends, TypeOK, TypeInv, AsksForSession, Awaiting
    <3>3. state' # "AWAIT_ALIVE_RESPONSE" /\ state' # "RUN_SESSION"
      BY <1>0, <3>1, <3>2, SendPacketLemma
    <3> QED
      BY <3>3
  <2> QED
    BY <2>2, <2>3, <2>4
<1>7. CASE KeepAlive
  BY <1>7 DEF KeepAlive
<1>8. CASE XdmcpReset
  <2>1. state' # "AWAIT_ALIVE_RESPONSE" /\ state' # "RUN_SESSION"
    BY <1>0, <1>8, SendPacketLemma DEF XdmcpReset, SendStates
  <2> QED
    BY <2>1
<1>9. CASE TimeoutProtoDisplays \/ Crash \/ UNCHANGED vars
  BY <1>1, <1>9 DEF TimeoutProtoDisplays, Crash, vars, displayVars
<1>10. CASE OtherConnects \/ XdmcpCloseDisplay(Other)
  BY <1>10 DEF OtherConnects, XdmcpOpenDisplay, XdmcpCloseDisplay, CarriedBy
<1> QED
  BY <1>2, <1>3, <1>4, <1>5, <1>6, <1>7, <1>8, <1>9, <1>10 DEF Next

\* No close (XdmcpCloseDisplay), reset or late answer (recv_alive_msg, timeout)
\* leaves the display in a session without its connection.
THEOREM SessionsConnected == Spec => []SessionConnected
<1>1. Init => SessionConnected
  BY DEF Init, SessionConnected, InSession
<1> QED
  BY <1>1, ConnectedStep, TypeInvariant, PTL DEF Spec
================================================================================
