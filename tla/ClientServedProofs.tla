--------------------------- MODULE ClientServedProofs ---------------------------
(***************************************************************************)
(* Who is served, for any number of clients.  During a server grab only    *)
(* the client that holds it and the impervious clients are; where no       *)
(* client is ever made impervious, the scheduler implements module         *)
(* ServerGrab.  No client is forgotten by the descriptor sets, nobody is   *)
(* served while asleep or after its connection, and no request in a buffer *)
(* is lost: each of these holds for the mixes of requests its theorem      *)
(* names, and the code breaks it for the others.                           *)
(***************************************************************************)
EXTENDS ClientSchedulerProofs, MCClientScheduler

-----------------------------------------------------------------------------
(* The server grab.                                                        *)

(* The descriptors that may be served during a grab.                       *)
Allowed == m.impervious \cup {clients[grabClient].fd}

(* Between two requests: who is listened to.                               *)
GrabSets ==
    /\ m.grab = 0 <=> grabState = "GrabNone"
    /\ m.grab # 0 => /\ m.grab = grabClient /\ grabClient \in Live
                     /\ m.all \cup m.cwi \subseteq Allowed

(* During a round: who of it can still have a turn.  A round collected     *)
(* before the grab ends with GrabKickout; the client whose turn it is may  *)
(* go on only while it is allowed to.                                      *)
GrabTurns ==
    /\ grabState = "GrabActive" /\ pc \in {"round", "run", "execute", "close"} =>
        \A c \in ready \cap Live : clients[c].fd \in Allowed
    /\ /\ grabState # "GrabNone" /\ cur \in Live
       /\ pc = "execute" \/ (pc = "run" /\ ~yield)
       => clients[cur].fd \in Allowed

GrabInv == GrabSets /\ GrabTurns

-----------------------------------------------------------------------------
(* A step that only moves the server, or changes slots but no descriptor.  *)
LEMMA SetsKept ==
    ASSUME GrabSets, UNCHANGED <<m, grabState, grabClient>>, grabClient \in Clients \cup {0},
           \A d \in Clients : clients'[d].fd = clients[d].fd
    PROVE  GrabSets'
<1>1. Live' = Live BY DEF Live
<1>2. grabClient \in Live => Allowed' = Allowed BY DEF Allowed, Live
<1> QED BY <1>1, <1>2 DEF GrabSets

(* A step that lets the client served go on, the round and grab as before. *)
LEMMA TurnsKept ==
    ASSUME GrabInv, UNCHANGED <<m, grabState, grabClient, ready, cur>>,
           cur \in Clients \cup {0}, ready \subseteq Clients,
           pc' \in {"run", "execute", "close", "round"} => pc \in {"run", "execute", "close"},
           pc' = "execute" \/ (pc' = "run" /\ ~yield')
               => pc = "execute" \/ (pc = "run" /\ ~yield),
           \A d \in Clients : clients'[d].fd = clients[d].fd
    PROVE  GrabTurns'
<1>1. Live' = Live BY DEF Live
<1>2. grabState # "GrabNone" => Allowed' = Allowed BY DEF Allowed, Live, GrabInv, GrabSets
<1> QED BY <1>1, <1>2 DEF GrabInv, GrabTurns, Live

(* A step that leaves the server between rounds.                           *)
LEMMA NoTurns ==
    ASSUME pc' \notin {"round", "run", "execute", "close"}
    PROVE  GrabTurns'
    BY DEF GrabTurns

(* While the server is not grabbed there is nothing to keep.               *)
LEMMA Ungrab ==
    ASSUME grabState' = "GrabNone", m'.grab = 0
    PROVE  GrabInv'
    BY DEF GrabInv, GrabSets, GrabTurns

(* The closing of a client ends its grab, and leaves one of another as is. *)
LEMMA CloseGrab ==
    ASSUME IInv, GrabSets, NEW c \in Clients, NEW mode \in CloseDownModes,
           clients[c].state = "Initial" => mode = "DestroyAll",
           CloseDownClient(c, mode)
    PROVE  /\ GrabSets'
           /\ grabState' # "GrabNone" =>
                /\ grabState' = grabState /\ grabClient' = grabClient
                /\ grabClient # c
                /\ \A d \in Live' : /\ d \in Live /\ clients'[d] = clients[d]
                                    /\ clients[d].fd \in Allowed =>
                                           clients'[d].fd \in Allowed'
<1>1. /\ \A d \in Clients \ {c} : clients'[d] = clients[d]
      /\ Live' = Live \ {c} /\ UNCHANGED grabClient
    BY CloseKeepsData DEF IInv
<1>2. m \in Masks /\ Within(m, Known) BY DEF IInv, DataInv, DataTypeOK
<1>3. CASE clients[c].fd = 0
  <2>1. UNCHANGED <<m, grabState>> BY <1>3 DEF CloseDownClient
  <2>2. c \notin Live BY <1>3 DEF Live
  <2>3. grabClient \in Live => Allowed' = Allowed
      BY <1>1, <2>1, <2>2 DEF Allowed, Live
  <2> QED BY <1>1, <2>1, <2>2, <2>3 DEF GrabSets, Live
<1>4. CASE clients[c].fd # 0 /\ grabState # "GrabNone" /\ grabClient = c
  <2>1. PICK w \in Clients \cup {0} :
            /\ IsFirstWaiter(w)
            /\ m' = CloseDownFileDescriptor(Ungrabbed(w), clients[c].fd)
            /\ grabState' = "GrabNone"
      BY <1>4 DEF CloseDownClient
  <2>2. /\ Ungrabbed(w) \in Masks /\ Within(Ungrabbed(w), Known)
        /\ Ungrabbed(w).grab = 0
      BY <2>1, UngrabWithin DEF IInv
  <2>3. clients[c].fd \in Fd BY <1>4, KnownFd DEF IInv, Live
  <2>4. m'.grab = 0 BY <2>1, <2>2, <2>3, CloseWithin
  <2> QED BY <2>1, <2>4 DEF GrabSets
<1>5. CASE clients[c].fd # 0 /\ ~(grabState # "GrabNone" /\ grabClient = c)
  <2> DEFINE fd == clients[c].fd
  <2>1. m' = CloseDownFileDescriptor(m, fd) /\ UNCHANGED grabState
      BY <1>5 DEF CloseDownClient
  <2>2. fd \in Fd /\ c \in Live BY <1>5, KnownFd DEF IInv, Live
  <2>3. /\ m'.grab = m.grab /\ m'.impervious = m.impervious \ {fd}
        /\ m'.all = m.all \ {fd} /\ m'.cwi = m.cwi \ {fd}
      BY <1>2, <2>1, <2>2 DEF CloseDownFileDescriptor, Masks
  <2>4. ASSUME NEW d \in Live' PROVE /\ d \in Live /\ d \in Clients \ {c}
                                     /\ clients'[d] = clients[d] /\ clients[d].fd # fd
    <3>1. d \in Live /\ d # c /\ d \in Clients BY <1>1, <2>4 DEF Live
    <3>2. conn[clients[d].fd] = d /\ conn[fd] = c BY <2>2, <3>1, KnownFd DEF IInv
    <3> QED BY <1>1, <3>1, <3>2
  <2>5. grabState # "GrabNone" =>
            /\ grabClient \in Live' /\ grabClient # c
            /\ Allowed' = Allowed \ {fd}
    <3>1. SUFFICES ASSUME grabState # "GrabNone"
                   PROVE  /\ grabClient \in Live' /\ grabClient # c
                          /\ Allowed' = Allowed \ {fd}
        OBVIOUS
    <3>2. grabClient \in Live' /\ grabClient # c
        BY <1>1, <1>5, <3>1 DEF GrabSets
    <3>3. clients'[grabClient].fd = clients[grabClient].fd /\ clients[grabClient].fd # fd
        BY <2>4, <3>2
    <3> QED BY <1>1, <2>3, <3>2, <3>3 DEF Allowed
  <2>6. GrabSets'
      BY <1>1, <2>1, <2>3, <2>5 DEF GrabSets
  <2> QED BY <1>1, <2>1, <2>4, <2>5, <2>6
<1> QED BY <1>3, <1>4, <1>5

-----------------------------------------------------------------------------
(* The invariant along every action.                                       *)

LEMMA GrabTypes ==
    ASSUME IInv
    PROVE  /\ clients \in [Clients -> ClientRec] /\ m \in Masks /\ Within(m, Known)
           /\ grabClient \in Clients \cup {0}
           /\ cur \in Clients \cup {0} /\ ready \subseteq Clients
    BY DEF IInv, DataInv, DataTypeOK, SchedTypeOK

LEMMA EnvironmentGrab ==
    ASSUME IInv, GrabInv, Environment
    PROVE  GrabInv'
<1>1. PICK c \in Clients : Send(c) \/ HangUp(c) \/ WriteFails(c) BY DEF Environment
<1>2. UNCHANGED <<m, grabVars, schedVars>>
    BY <1>1 DEF Send, HangUp, WriteFails
<1>3. \A d \in Clients : clients'[d].fd = clients[d].fd
  <2>1. CASE Send(c) BY <2>1, GrabTypes DEF Send, ClientRec
  <2>2. CASE HangUp(c) BY <2>2, GrabTypes DEF HangUp, ClientRec
  <2>3. CASE WriteFails(c) BY <2>3, GrabTypes DEF WriteFails, ClientRec
  <2> QED BY <1>1, <2>1, <2>2, <2>3
<1>4. UNCHANGED <<grabState, grabClient, pc, ready, cur, yield>>
    BY <1>2 DEF grabVars, schedVars
<1>5. GrabSets' BY <1>2, <1>3, <1>4, GrabTypes, SetsKept DEF GrabInv
<1>6. GrabTurns'
  <2>1. Live' = Live /\ (grabState # "GrabNone" => Allowed' = Allowed)
      BY <1>2, <1>3, <1>4 DEF GrabInv, GrabSets, Live, Allowed
  <2> QED BY <1>3, <1>4, <2>1 DEF GrabInv, GrabTurns, Live
<1> QED BY <1>5, <1>6 DEF GrabInv

(* What select and the buffers return during a grab is allowed a turn.     *)
LEMMA WaitGrab ==
    ASSUME IInv, GrabInv, Wait
    PROVE  GrabInv'
<1> USE DEF slotVars, grabVars, schedVars
<1>1. GrabSets BY DEF GrabInv
<1>2. CASE WorkEstablish \/ WaitStops \/ SelectFails
    BY <1>1, <1>2, GrabTypes, SetsKept, NoTurns
       DEF GrabInv, WorkEstablish, WaitStops, SelectFails
<1>3. ASSUME NEW c \in Clients, WorkWakeup(c)
      PROVE  GrabInv'
  <2>1. /\ clients' = [clients EXCEPT ![c].asleep = FALSE]
        /\ m' = AttendClient(m, c, clients[c].fd)
        /\ pc' = "wait"
        /\ UNCHANGED <<grabState, grabClient>>
      BY <1>3 DEF WorkWakeup
  <2>2. \A d \in Clients : clients'[d].fd = clients[d].fd
      BY <2>1, GrabTypes DEF ClientRec
  <2>3. m'.grab = m.grab /\ m'.impervious = m.impervious
      BY <2>1, GrabTypes DEF AttendClient, Masks
  <2>4. m.grab # 0 => m'.all \cup m'.cwi \subseteq Allowed
      BY <1>1, <2>1, GrabTypes DEF AttendClient, Masks, GrabSets, Allowed
  <2>5. m.grab # 0 => grabClient \in Live' /\ Allowed' = Allowed
      BY <1>1, <2>1, <2>2, <2>3 DEF GrabSets, Allowed, Live
  <2> QED BY <1>1, <2>1, <2>3, <2>4, <2>5, NoTurns DEF GrabInv, GrabSets
<1>4. ASSUME NEW S \in SUBSET Known, Return(S), S \subseteq m.all \cup m.cwi,
             UNCHANGED <<clients, conn, m, grabState, grabClient>>,
             pc' \in {"wait", "round"}
      PROVE  GrabInv'
  <2>1. GrabSets' BY <1>1, <1>4, GrabTypes, SetsKept
  <2>2. ready' \subseteq {conn[fd] : fd \in S} BY <1>4 DEF Return
  <2>3. ASSUME grabState # "GrabNone", NEW c \in ready' \cap Live'
        PROVE  clients'[c].fd \in Allowed'
    <3>1. PICK fd \in S : c = conn[fd] BY <2>2, <2>3
    <3>2. clients[c].fd = fd
        BY <3>1 DEF IInv, DataInv, TranslationAgrees
    <3>3. fd \in Allowed BY <1>1, <1>4, <2>3 DEF GrabSets
    <3> QED BY <1>4, <3>2, <3>3 DEF Allowed
  <2> QED BY <1>4, <2>1, <2>3 DEF GrabInv, GrabTurns
<1>5. CASE ReturnBuffered
    BY <1>4, <1>5 DEF ReturnBuffered, IInv, DataInv, Within
<1>6. CASE CheckConnections
  <2>1. CASE \E fd \in checking \cap m.all : IsBad(fd)
    <3>1. PICK fd \in checking \cap m.all : CloseDownClient(conn[fd], clients[conn[fd]].mode)
        BY <1>6, <2>1 DEF CheckConnections
    <3>2. conn[fd] \in Clients
        BY DEF IInv, DataInv, DataTypeOK, Within, Known
    <3>3. /\ clients[conn[fd]].mode \in CloseDownModes
          /\ clients[conn[fd]].state = "Initial" => clients[conn[fd]].mode = "DestroyAll"
        BY <3>2 DEF IInv, DataInv, DataTypeOK, ClientRec, Slots
    <3>4. GrabSets' BY <1>1, <3>1, <3>2, <3>3, CloseGrab
    <3>5. pc' = "check" BY <1>6, <2>1 DEF CheckConnections
    <3> QED BY <3>4, <3>5, NoTurns DEF GrabInv
  <2>2. CASE ~ \E fd \in checking \cap m.all : IsBad(fd)
      BY <1>1, <1>6, <2>2, GrabTypes, SetsKept, NoTurns DEF CheckConnections, GrabInv
  <2> QED BY <2>1, <2>2
<1>7. ASSUME NEW newConnection \in BOOLEAN,
             NEW answered \in SUBSET {c \in Clients : clients[c].asleep},
             Select(newConnection, answered)
      PROVE  GrabInv'
  <2> DEFINE news == {fd \in SelectMask : HasNews(fd)}
             some == news # {} \/ newConnection \/ answered # {}
             readable == IF some THEN (news \cup m.cwi) \cap m.all ELSE m.cwi
  <2>1. /\ Return(readable) /\ pc' = IF readable = {} THEN "wait" ELSE "round"
        /\ UNCHANGED <<clients, conn, m, grabState, grabClient>>
      BY <1>7 DEF Select
  <2>2. readable \subseteq m.all \cup m.cwi OBVIOUS
  <2>3. readable \in SUBSET Known BY <2>2 DEF IInv, DataInv, Within
  <2> HIDE DEF readable
  <2> QED BY <1>4, <2>1, <2>2, <2>3
<1> QED BY <1>2, <1>3, <1>5, <1>6, <1>7 DEF Wait

(* A connection accepted during a grab is heard when the grab ends.        *)
LEMMA EstablishGrab ==
    ASSUME IInv, GrabInv, Establish
    PROVE  GrabInv'
<1>1. GrabSets BY DEF GrabInv
<1>2. CASE StragglersDone \/ AcceptFails
    BY <1>1, <1>2, GrabTypes, SetsKept, NoTurns
       DEF GrabInv, StragglersDone, AcceptFails, slotVars, grabVars
<1>3. ASSUME NEW c \in Clients, CloseDownClient(c, clients[c].mode)
      PROVE  GrabSets'
  <2>1. /\ clients[c].mode \in CloseDownModes
        /\ clients[c].state = "Initial" => clients[c].mode = "DestroyAll"
      BY DEF IInv, DataInv, DataTypeOK, ClientRec, Slots
  <2> QED BY <1>1, <1>3, <2>1, CloseGrab
<1>4. ASSUME NEW c \in Clients, KillStraggler(c)
      PROVE  GrabInv'
    BY <1>3, <1>4, NoTurns DEF GrabInv, KillStraggler
<1>5. ASSUME NEW fd \in Fd, AcceptReused(fd)
      PROVE  GrabInv'
  <2>1. conn[fd] \in Clients BY <1>5 DEF AcceptReused, IInv, DataInv, DataTypeOK
  <2> QED BY <1>3, <1>5, <2>1, NoTurns DEF GrabInv, AcceptReused
<1>6. ASSUME NEW fd \in Fd, Accept(fd)
      PROVE  GrabInv'
  <2>1. /\ m' = AddConnection(m, fd) /\ pc' = "wait"
        /\ UNCHANGED <<grabState, grabClient>>
        /\ \A d \in Clients : d # nextFreeClientID => clients'[d] = clients[d]
      BY <1>6, GrabTypes DEF Accept, grabVars
  <2>2. nextFreeClientID \notin Live
      BY <1>6, ClientsAssumption
         DEF Accept, IInv, DataInv, DataTypeOK, LeastFreeSlot, LeastAbove, Slots, Live
  <2>3. /\ m'.grab = m.grab /\ m'.impervious = m.impervious
        /\ m.grab # 0 => m'.all = m.all /\ m'.cwi = m.cwi
      BY <2>1, GrabTypes DEF AddConnection, Masks
  <2>4. m.grab # 0 => /\ clients'[grabClient] = clients[grabClient]
                      /\ grabClient \in Live' /\ Allowed' = Allowed
      BY <1>1, <2>1, <2>2, <2>3 DEF GrabSets, Live, Allowed
  <2> QED BY <1>1, <2>1, <2>3, <2>4, NoTurns DEF GrabInv, GrabSets
<1> QED BY <1>2, <1>4, <1>5, <1>6 DEF Establish

(* A turn is given to a client of the round only when it is allowed one.   *)
LEMMA ServeGrab ==
    ASSUME IInv, GrabInv, Serve
    PROVE  GrabInv'
<1> USE DEF slotVars, grabVars
<1>1. GrabSets BY DEF GrabInv
<1>2. CASE RoundDone \/ TurnDone \/ ReadFails
  <2>1. GrabSets' BY <1>1, <1>2, GrabTypes, SetsKept DEF RoundDone, TurnDone, ReadFails
  <2>2. UNCHANGED <<clients, m, grabState, grabClient>>
      BY <1>2 DEF RoundDone, TurnDone, ReadFails
  <2>3. CASE RoundDone
    <3>1. pc' \notin {"round", "run", "execute", "close"} BY <2>3 DEF RoundDone
    <3> QED BY <2>1, <3>1, NoTurns DEF GrabInv
  <2>4. CASE TurnDone \/ ReadFails
    <3>1. /\ pc = "run" /\ pc' \in {"round", "close"}
          /\ UNCHANGED <<ready, cur>>
        BY <2>4 DEF TurnDone, ReadFails
    <3>2. GrabTurns' BY <2>2, <3>1, GrabTypes, TurnsKept
    <3> QED BY <2>1, <3>2 DEF GrabInv
  <2> QED BY <1>2, <2>1, <2>3, <2>4 DEF GrabInv
<1>3. ASSUME NEW c \in Clients, NextClient(c)
      PROVE  GrabInv'
  <2>1. UNCHANGED <<clients, m, grabClient>> /\ pc = "round" /\ c \in ready
      BY <1>3 DEF NextClient
  <2>2. CASE /\ Emptied(c) /\ ready' = ready \ {c}
             /\ UNCHANGED <<pc, cur, yield, grabState>>
    <3>1. GrabSets' BY <1>1, <2>1, <2>2, GrabTypes, SetsKept
    <3> QED BY <2>1, <2>2, <3>1 DEF GrabInv, GrabTurns, Live, Allowed
  <2>3. CASE /\ KicksOut /\ grabState' = "GrabActive" /\ pc' = "wait"
    <3>1. GrabSets' BY <1>1, <2>1, <2>3 DEF KicksOut, GrabSets, Live, Allowed
    <3> QED BY <2>3, <3>1, NoTurns DEF GrabInv
  <2>4. CASE /\ ~KicksOut /\ pc' = "run" /\ cur' = c
             /\ ready' = ready \ {c} /\ UNCHANGED grabState
    <3>1. GrabSets' BY <1>1, <2>1, <2>4, GrabTypes, SetsKept
    <3>2. grabState # "GrabNone" => grabState = "GrabActive"
        BY <2>4 DEF KicksOut, IInv, DataInv, DataTypeOK, GrabStates
    <3> QED BY <2>1, <2>4, <3>1, <3>2 DEF GrabInv, GrabTurns, Live, Allowed
  <2> QED BY <1>3, <2>2, <2>3, <2>4 DEF NextClient
<1>4. CASE ReadNothing
  <2>1. /\ m' = [m EXCEPT !.cwi = @ \ {clients[cur].fd}]
        /\ yield' = TRUE /\ pc' = "round" /\ pc = "run"
        /\ UNCHANGED <<clients, grabState, grabClient, ready, cur>>
      BY <1>4 DEF ReadNothing
  <2>2. /\ m'.grab = m.grab /\ m'.impervious = m.impervious
        /\ m'.all = m.all /\ m'.cwi \subseteq m.cwi
      BY <2>1, GrabTypes DEF Masks
  <2>3. Allowed' = Allowed /\ Live' = Live BY <2>1, <2>2 DEF Allowed, Live
  <2>4. GrabSets' BY <1>1, <2>1, <2>2, <2>3 DEF GrabSets
  <2> QED BY <2>1, <2>3, <2>4 DEF GrabInv, GrabTurns
<1>5. CASE ReadRequest
  <2>1. /\ \E left \in Int : m' = [m EXCEPT !.cwi = With(@, clients[cur].fd, left > 0)]
        /\ pc = "run" /\ ~yield /\ pc' = "execute" /\ clients[cur].fd # 0
        /\ UNCHANGED <<grabState, grabClient, ready, cur>>
    <3>1. cur \in Clients BY <1>5 DEF ReadRequest, IInv, Serving
    <3>2. ((IF FromSocket(clients[cur]) THEN clients[cur].sent
                                       ELSE clients[cur].buffered) - 1) \in Int
        BY <3>1, GrabTypes, SchedulerAssumption DEF ClientRec
    <3> QED BY <1>5, <3>2 DEF ReadRequest
  <2>2. cur \in Live BY <2>1 DEF IInv, Serving, Live
  <2>3. /\ m'.grab = m.grab /\ m'.impervious = m.impervious
        /\ m'.all = m.all /\ m'.cwi \subseteq m.cwi \cup {clients[cur].fd}
      BY <2>1, GrabTypes DEF Masks, With
  <2>4. \A d \in Clients : clients'[d].fd = clients[d].fd
      BY <1>5, GrabTypes DEF ReadRequest, ClientRec
  <2>5. Live' = Live /\ (grabClient \in Live => Allowed' = Allowed)
      BY <2>1, <2>3, <2>4 DEF Live, Allowed
  <2>6. grabState # "GrabNone" => clients[cur].fd \in Allowed
      BY <2>1, <2>2 DEF GrabInv, GrabTurns
  <2>7. GrabSets' BY <1>1, <2>1, <2>3, <2>5, <2>6 DEF GrabSets
  <2>8. GrabTurns'
      BY <1>1, <2>1, <2>2, <2>4, <2>5, <2>6 DEF GrabInv, GrabSets, GrabTurns, Live
  <2> QED BY <2>7, <2>8 DEF GrabInv
<1>6. CASE Close
  <2>1. cur \in Clients /\ pc = "close" BY <1>6 DEF IInv, Serving, Live, Close
  <2>2. /\ clients[cur].mode \in CloseDownModes
        /\ clients[cur].state = "Initial" => clients[cur].mode = "DestroyAll"
      BY <2>1 DEF IInv, DataInv, DataTypeOK, ClientRec, Slots
  <2>3. /\ GrabSets'
        /\ grabState' # "GrabNone" =>
             /\ grabState' = grabState /\ grabClient' = grabClient
             /\ \A d \in Live' : /\ d \in Live
                                 /\ clients[d].fd \in Allowed => clients'[d].fd \in Allowed'
      BY <1>1, <1>6, <2>1, <2>2, CloseGrab DEF Close
  <2>4. pc' = "round" /\ UNCHANGED ready BY <1>6 DEF Close
  <2> QED BY <2>1, <2>3, <2>4 DEF GrabInv, GrabTurns
<1> QED BY <1>2, <1>3, <1>4, <1>5, <1>6 DEF Serve

LEMMA RestartGrab ==
    ASSUME IInv, GrabInv, Restart
    PROVE  GrabInv'
<1>1. GrabSets BY DEF GrabInv
<1>2. CASE Reset
  <2>1. UNCHANGED <<clients, m, grabState, grabClient>> /\ pc' = "wait"
      BY <1>2 DEF Reset, grabVars
  <2> QED BY <1>1, <2>1, GrabTypes, SetsKept, NoTurns DEF GrabInv
<1>3. ASSUME NEW c \in Clients, KillAllClients(c)
      PROVE  GrabInv'
  <2>1. pc' = "reset" BY <1>3 DEF KillAllClients, schedVars
  <2>2. GrabSets' BY <1>1, <1>3, CloseGrab DEF KillAllClients, CloseDownModes
  <2> QED BY <2>1, <2>2, NoTurns DEF GrabInv
<1> QED BY <1>2, <1>3 DEF Restart

(* A request that returned to a client which may go on.                    *)
LEMMA TurnsReturned ==
    ASSUME IInv, GrabInv, pc = "execute",
           UNCHANGED <<ready, cur>>,
           pc' \in {"run", "close"},
           \A d \in Clients : clients'[d].fd = clients[d].fd,
           grabState' = "GrabActive" =>
               /\ grabState = "GrabActive"
               /\ \A c \in ready \cap Live :
                      clients[c].fd \in Allowed => clients[c].fd \in Allowed',
           grabState' # "GrabNone" /\ ~yield' => clients[cur].fd \in Allowed'
    PROVE  GrabTurns'
<1>1. Live' = Live BY DEF Live
<1>2. cur \in Clients /\ ready \subseteq Clients BY DEF IInv, SchedTypeOK, Serving, Live
<1> QED BY <1>1, <1>2 DEF GrabInv, GrabTurns, Live

(* The requests of the client served, which may only grab, ungrab, and     *)
(* change who is impervious.                                               *)
LEMMA ExecuteGrab ==
    ASSUME IInv, GrabInv, Execute
    PROVE  GrabInv'
<1> USE DEF slotVars, grabVars, Executes
<1>1. pc = "execute"
    BY DEF Execute, SetUp, Other, ProcGrabServer, ProcGrabServerWaits, ProcUngrabServer,
           GrabControlImpervious, GrabControlPervious, Sleep, ProcKillClient,
           KillTemporary, ProcChangeCloseDownMode
<1>2. /\ cur \in Live /\ cur \in Clients /\ clients[cur] \in ClientRec
      /\ clients[cur].fd \in Fd
      /\ m \in Masks /\ Within(m, Known)
      /\ clients \in [Clients -> ClientRec]
    BY <1>1, Served
<1>3. Returned => pc' \in {"run", "close"} BY DEF Returned
<1>4. GrabSets /\ (grabState # "GrabNone" => clients[cur].fd \in Allowed)
    BY <1>1, <1>2 DEF GrabInv, GrabTurns
<1>5. ASSUME UNCHANGED <<m, grabState, grabClient, ready, cur>>,
             pc' \in {"run", "close"},
             \A d \in Clients : clients'[d].fd = clients[d].fd
      PROVE  GrabInv'
  <2>1. GrabSets' BY <1>4, <1>5, GrabTypes, SetsKept
  <2>2. grabState # "GrabNone" => Allowed' = Allowed
      BY <1>4, <1>5 DEF Allowed, GrabSets, Live
  <2>3. GrabTurns' BY <1>1, <1>4, <1>5, <2>2, TurnsReturned
  <2> QED BY <2>1, <2>3 DEF GrabInv
<1>6. CASE SetUp
  <2>1. \A d \in Clients : clients'[d].fd = clients[d].fd
      BY <1>2, <1>6 DEF SetUp, ClientRec
  <2> QED BY <1>3, <1>5, <1>6, <2>1 DEF SetUp
<1>7. CASE Other BY <1>3, <1>5, <1>7 DEF Other
<1>8. CASE ProcGrabServer
  <2>1. /\ m' = OnlyListenToOneClient(m, cur, clients[cur].fd)
        /\ grabState' = "GrabKickout" /\ grabClient' = cur /\ UNCHANGED <<ready, cur>>
        /\ pc' \in {"run", "close"}
        /\ grabState = "GrabNone" \/ grabClient = cur
      BY <1>3, <1>8 DEF ProcGrabServer, GrabbedByOther
  <2>2. \A d \in Clients : clients'[d].fd = clients[d].fd
      BY <1>2, <1>8 DEF ProcGrabServer, ClientRec
  <2>3. /\ m'.grab = cur /\ m'.impervious = m.impervious
        /\ m'.all \cup m'.cwi \subseteq m.impervious \cup {clients[cur].fd}
    <3>1. CASE m.grab = 0
        BY <1>2, <2>1, <3>1 DEF OnlyListenToOneClient, Masks
    <3>2. CASE m.grab # 0
        BY <1>4, <2>1, <3>2 DEF OnlyListenToOneClient, GrabSets, Allowed
    <3> QED BY <3>1, <3>2
  <2>4. /\ Allowed' = m.impervious \cup {clients[cur].fd} /\ cur \in Live'
        /\ cur # 0
      BY <1>2, <2>1, <2>2, <2>3, ClientsAssumption DEF Allowed, Live, Clients
  <2>5. GrabSets' BY <2>1, <2>3, <2>4 DEF GrabSets
  <2>6. GrabTurns' BY <1>1, <2>1, <2>2, <2>4, TurnsReturned
  <2> QED BY <2>5, <2>6 DEF GrabInv
<1>9. ASSUME UNCHANGED <<grabState, grabClient, ready, cur>>,
             pc' \in {"run", "close"},
             \A d \in Clients : clients'[d].fd = clients[d].fd,
             m'.grab = m.grab, m.impervious \subseteq m'.impervious,
             m.grab # 0 => m'.all \cup m'.cwi \subseteq m.all \cup m.cwi
      PROVE  GrabInv'
  <2>1. m.grab # 0 => Allowed \subseteq Allowed' /\ grabClient \in Live'
      BY <1>4, <1>9 DEF GrabSets, Allowed, Live
  <2>2. GrabSets' BY <1>4, <1>9, <2>1 DEF GrabSets
  <2>3. GrabTurns' BY <1>1, <1>4, <1>9, <2>1, TurnsReturned DEF GrabSets
  <2> QED BY <2>2, <2>3 DEF GrabInv
<1>10. ASSUME NEW s \in Masks
       PROVE  /\ IgnoreClient(s, clients[cur].fd).grab = s.grab
              /\ IgnoreClient(s, clients[cur].fd).impervious = s.impervious
              /\ IgnoreClient(s, clients[cur].fd).all \subseteq s.all
              /\ IgnoreClient(s, clients[cur].fd).cwi \subseteq s.cwi
    BY DEF IgnoreClient, Masks
<1>11. CASE ProcGrabServerWaits
  <2>1. m' = IgnoreClient(ResetCurrentRequest(clients[cur].fd), clients[cur].fd)
      BY <1>11 DEF ProcGrabServerWaits
  <2>2. /\ ResetCurrentRequest(clients[cur].fd) \in Masks
        /\ ResetCurrentRequest(clients[cur].fd).grab = m.grab
        /\ ResetCurrentRequest(clients[cur].fd).impervious = m.impervious
        /\ ResetCurrentRequest(clients[cur].fd).all = m.all
        /\ ResetCurrentRequest(clients[cur].fd).cwi \subseteq m.all \cup m.cwi
      BY <1>2 DEF ResetCurrentRequest, Masks
  <2>3. /\ m'.grab = m.grab /\ m'.impervious = m.impervious
        /\ m'.all \cup m'.cwi \subseteq m.all \cup m.cwi
      BY <1>10, <2>1, <2>2
  <2>4. \A d \in Clients : clients'[d].fd = clients[d].fd
      BY <1>2, <1>11 DEF ProcGrabServerWaits, ClientRec
  <2>5. pc' \in {"run", "close"} /\ UNCHANGED <<grabState, grabClient, ready, cur>>
      BY <1>3, <1>11 DEF ProcGrabServerWaits
  <2> QED BY <1>9, <2>3, <2>4, <2>5
<1>12. CASE ProcUngrabServer
  <2>1. PICK w \in Clients \cup {0} :
            IsFirstWaiter(w) /\ grabState' = "GrabNone" /\ m' = Ungrabbed(w)
      BY <1>12 DEF ProcUngrabServer
  <2>2. m'.grab = 0 BY <2>1, UngrabWithin DEF IInv
  <2> QED BY <2>1, <2>2, Ungrab
<1>13. CASE GrabControlImpervious
  <2>1. /\ m'.grab = m.grab /\ m.impervious \subseteq m'.impervious
        /\ m'.all = m.all /\ m'.cwi = m.cwi
      BY <1>2, <1>13 DEF GrabControlImpervious, MakeClientGrabImpervious, Masks
  <2>2. /\ pc' \in {"run", "close"}
        /\ UNCHANGED <<clients, grabState, grabClient, ready, cur>>
      BY <1>3, <1>13 DEF GrabControlImpervious
  <2> QED BY <1>9, <2>1, <2>2
<1>14. CASE GrabControlPervious
  <2> DEFINE fd == clients[cur].fd
  <2>1. /\ m' = MakeClientGrabPervious(m, cur, fd)
        /\ yield' = (yield \/ Suspends(m, cur))
        /\ pc' \in {"run", "close"}
        /\ UNCHANGED <<clients, grabState, grabClient, ready, cur>>
      BY <1>3, <1>14 DEF GrabControlPervious
  <2>2. /\ m'.grab = m.grab /\ m'.impervious = m.impervious \ {fd}
        /\ Suspends(m, cur) => m'.all = m.all \ {fd} /\ m'.cwi = m.cwi \ {fd}
        /\ ~Suspends(m, cur) => m'.all = m.all /\ m'.cwi = m.cwi
      BY <1>2, <2>1 DEF MakeClientGrabPervious, Masks
  <2>3. m.grab # 0 =>
            /\ m.grab = grabClient /\ grabClient \in Live'
            /\ cur = grabClient <=> ~Suspends(m, cur)
            /\ Allowed' = (m.impervious \ {fd}) \cup {clients[grabClient].fd}
      BY <1>2, <1>4, <2>1, <2>2, ClientsAssumption DEF GrabSets, Suspends, Allowed, Live, Clients
  <2>4. m.grab # 0 => \A f \in Allowed : f # fd => f \in Allowed'
      BY <2>3 DEF Allowed
  <2>5. m.grab # 0 /\ cur = grabClient => Allowed' = Allowed
      BY <2>3 DEF Allowed
  <2>6. GrabSets'
    <3>1. CASE m.grab # 0 /\ cur = grabClient
        BY <1>4, <2>1, <2>2, <2>3, <2>5, <3>1 DEF GrabSets
    <3>2. CASE m.grab # 0 /\ cur # grabClient
        BY <1>4, <2>1, <2>2, <2>3, <2>4, <3>2 DEF GrabSets
    <3>3. CASE m.grab = 0 BY <1>4, <2>1, <2>2, <3>3 DEF GrabSets
    <3> QED BY <3>1, <3>2, <3>3
  <2>7. GrabTurns'
    <3>1. cur \notin ready BY <1>1 DEF IInv, Serving
    <3>2. \A c \in ready \cap Live : clients[c].fd # fd
      <4>1. \A c \in Live : conn[clients[c].fd] = c BY KnownFd DEF IInv
      <4> QED BY <1>2, <3>1, <4>1
    <3>3. grabState # "GrabNone" /\ ~yield' => fd \in Allowed'
        BY <1>4, <2>1, <2>3 DEF GrabSets
    <3> QED BY <1>1, <1>4, <2>1, <2>4, <3>2, <3>3, TurnsReturned DEF GrabSets
  <2> QED BY <2>6, <2>7 DEF GrabInv
<1>15. CASE Sleep
  <2>1. m' = IgnoreClient(m, clients[cur].fd) BY <1>15 DEF Sleep
  <2>2. \A d \in Clients : clients'[d].fd = clients[d].fd
      BY <1>2, <1>15 DEF Sleep, ClientRec
  <2>3. pc' \in {"run", "close"} /\ UNCHANGED <<grabState, grabClient, ready, cur>>
      BY <1>3, <1>15 DEF Sleep
  <2>4. /\ m'.grab = m.grab /\ m'.impervious = m.impervious
        /\ m'.all \cup m'.cwi \subseteq m.all \cup m.cwi
      BY <1>2, <1>10, <2>1
  <2> QED BY <1>9, <2>2, <2>3, <2>4
<1>16. ASSUME NEW c \in Clients, ProcKillClient(c)
       PROVE  GrabInv'
  <2>1. /\ clients[c].mode \in CloseDownModes
        /\ clients[c].state = "Initial" => clients[c].mode = "DestroyAll"
      BY DEF IInv, DataInv, DataTypeOK, ClientRec, Slots
  <2>2. /\ GrabSets'
        /\ grabState' # "GrabNone" =>
             /\ grabState' = grabState /\ grabClient' = grabClient
             /\ \A d \in Live' : /\ d \in Live /\ clients'[d] = clients[d]
                                 /\ clients[d].fd \in Allowed => clients'[d].fd \in Allowed'
      BY <1>4, <1>16, <2>1, CloseGrab DEF ProcKillClient
  <2>3. pc' \in {"run", "close"} /\ UNCHANGED <<ready, cur>>
      BY <1>16 DEF ProcKillClient
  <2> QED BY <1>1, <1>4, <2>2, <2>3 DEF GrabInv, GrabTurns
<1>17. CASE KillTemporary
  <2>1. \A d \in Clients : clients'[d].fd = clients[d].fd
      BY <1>17, KillTemporaryKeepsData DEF IInv
  <2> QED BY <1>3, <1>5, <1>17, <2>1 DEF KillTemporary
<1>18. ASSUME NEW mode \in CloseDownModes, ProcChangeCloseDownMode(mode)
       PROVE  GrabInv'
  <2>1. \A d \in Clients : clients'[d].fd = clients[d].fd
      BY <1>2, <1>18 DEF ProcChangeCloseDownMode, ClientRec
  <2> QED BY <1>3, <1>5, <1>18, <2>1 DEF ProcChangeCloseDownMode
<1> QED BY <1>6, <1>7, <1>8, <1>11, <1>12, <1>13, <1>14, <1>15, <1>16, <1>17, <1>18
        DEF Execute

-----------------------------------------------------------------------------
LEMMA InitGrab == Init => GrabInv
    BY DEF Init, InitMasks, GrabInv, GrabSets, GrabTurns

LEMMA StepGrab == IInv /\ GrabInv /\ [Next]_vars => GrabInv'
<1> SUFFICES ASSUME IInv, GrabInv, [Next]_vars PROVE GrabInv'
    OBVIOUS
<1>1. CASE Next
    BY <1>1, EnvironmentGrab, WaitGrab, EstablishGrab, ServeGrab, ExecuteGrab, RestartGrab
       DEF Next, Server
<1>2. CASE UNCHANGED vars
  <2>1. UNCHANGED <<clients, m, grabState, grabClient, pc, ready, cur, yield>>
      BY <1>2 DEF vars, slotVars, grabVars, schedVars
  <2> QED BY <2>1 DEF GrabInv, GrabSets, GrabTurns, Live, Allowed
<1> QED BY <1>1, <1>2

LEMMA GrabInvariance == Spec => [](IInv /\ GrabInv)
<1>1. Init => IInv /\ GrabInv BY InitInv, InitGrab
<1>2. IInv /\ GrabInv /\ [Next]_vars => IInv' /\ GrabInv' BY StepInv, StepGrab
<1> QED BY <1>1, <1>2, PTL DEF Spec

(* The grab as dix/dispatch.c sees it and as os/connection.c sees it is    *)
(* the same, and its client is connected: a client cannot die, be killed   *)
(* or be retained and leave the server grabbed, or deaf.                   *)
THEOREM GrabCorrect == Spec => []GrabAgrees
<1>1. GrabInv => GrabAgrees BY DEF GrabInv, GrabSets, GrabAgrees, Allowed
<1> QED BY <1>1, GrabInvariance, PTL

(* No request of a client that neither holds the grab nor is impervious is *)
(* executed during a grab, whether its round was collected before the grab *)
(* or it connected, was woken or became pervious during it.                *)
THEOREM GrabExcludes == Spec => []OnlyGrabberServed
<1>1. IInv /\ GrabInv => OnlyGrabberServed
  <2> SUFFICES ASSUME IInv, GrabInv, pc = "execute", grabState # "GrabNone"
               PROVE  cur = grabClient \/ clients[cur].fd \in m.impervious
      BY DEF OnlyGrabberServed
  <2>1. cur \in Live BY DEF IInv, Serving
  <2>2. clients[cur].fd \in Allowed BY <2>1 DEF GrabInv, GrabTurns
  <2>3. grabClient \in Live BY DEF GrabInv, GrabSets
  <2>4. conn[clients[cur].fd] = cur /\ conn[clients[grabClient].fd] = grabClient
      BY <2>1, <2>3, KnownFd DEF IInv
  <2> QED BY <2>2, <2>4 DEF Allowed
<1> QED BY <1>1, GrabInvariance, PTL

-----------------------------------------------------------------------------
(* The refinement.                                                         *)

(* Without impervious clients the grab that was granted and not given up   *)
(* is the grab the server knows.                                           *)
HoldsInv ==
    /\ m.impervious = {}
    /\ holds = IF grabState = "GrabNone" THEN {} ELSE {grabClient}

LEMMA CloseHolds ==
    ASSUME IInv, GrabInv, HoldsInv, NEW c \in Clients, NEW mode \in CloseDownModes,
           CloseDownClient(c, mode)
    PROVE  HoldsInv' /\ holds' = holds \ {c}
<1>1. m \in Masks /\ Within(m, Known) BY GrabTypes
<1>2. holds' = holds \ {c} /\ UNCHANGED grabClient BY DEF CloseDownClient
<1>3. grabState # "GrabNone" => clients[grabClient].fd # 0
    BY DEF GrabInv, GrabSets, Live
<1>4. m'.impervious = {}
  <2>1. CASE clients[c].fd = 0 BY <2>1 DEF CloseDownClient, HoldsInv
  <2>2. CASE clients[c].fd # 0
    <3>1. clients[c].fd \in Fd BY <2>2, KnownFd DEF IInv, Live
    <3>2. PICK w \in Clients \cup {0} :
              /\ (grabState # "GrabNone" /\ grabClient = c) => IsFirstWaiter(w)
              /\ m' = CloseDownFileDescriptor(
                          IF grabState # "GrabNone" /\ grabClient = c
                          THEN Ungrabbed(w) ELSE m, clients[c].fd)
        BY <2>2 DEF CloseDownClient
    <3>3. CASE grabState # "GrabNone" /\ grabClient = c
      <4>1. /\ Ungrabbed(w) \in Masks /\ Within(Ungrabbed(w), Known)
            /\ Ungrabbed(w).impervious = m.impervious
          BY <3>2, <3>3, UngrabWithin DEF IInv
      <4> QED BY <3>1, <3>2, <3>3, <4>1, CloseWithin DEF HoldsInv
    <3>4. CASE ~(grabState # "GrabNone" /\ grabClient = c)
        BY <1>1, <3>1, <3>2, <3>4, CloseWithin DEF HoldsInv
    <3> QED BY <3>3, <3>4
  <2> QED BY <2>1, <2>2
<1>5. holds' = IF grabState' = "GrabNone" THEN {} ELSE {grabClient'}
  <2>1. CASE grabState # "GrabNone" /\ grabClient = c
    <3>1. grabState' = "GrabNone" BY <1>3, <2>1 DEF CloseDownClient
    <3> QED BY <1>2, <2>1, <3>1 DEF HoldsInv
  <2>2. CASE ~(grabState # "GrabNone" /\ grabClient = c)
    <3>1. grabState' = grabState BY <2>2 DEF CloseDownClient
    <3> QED BY <1>2, <2>2, <3>1 DEF HoldsInv
  <2> QED BY <2>1, <2>2
<1> QED BY <1>2, <1>4, <1>5 DEF HoldsInv

(* Who is served without being impervious holds the grab.                  *)
LEMMA ServedHolds ==
    ASSUME IInv, GrabInv, HoldsInv, cur \in Live,
           pc = "execute" \/ (pc = "run" /\ ~yield)
    PROVE  holds \subseteq {cur}
<1>1. CASE grabState = "GrabNone" BY <1>1 DEF HoldsInv
<1>2. CASE grabState # "GrabNone"
  <2>1. clients[cur].fd = clients[grabClient].fd /\ grabClient \in Live
      BY <1>2 DEF GrabInv, GrabSets, GrabTurns, HoldsInv, Allowed
  <2>2. conn[clients[cur].fd] = cur /\ conn[clients[grabClient].fd] = grabClient
      BY <2>1, KnownFd DEF IInv
  <2> QED BY <1>2, <2>1, <2>2 DEF HoldsInv
<1> QED BY <1>1, <1>2

Implements == HoldsInv' /\ [Grab!Next]_Grab!vars

(* No request ends or begins.                                              *)
LEMMA Stutters ==
    ASSUME HoldsInv, UNCHANGED <<holds, grabState, grabClient>>, m'.impervious = {},
           pc # "execute", pc' # "execute"
    PROVE  Implements
    BY DEF Implements, HoldsInv, Grab!vars

(* A request ends that did not change the grab.                            *)
LEMMA Returns ==
    ASSUME HoldsInv, UNCHANGED <<holds, grabState, grabClient>>, m'.impervious = {},
           pc = "execute", pc' # "execute", cur \in Clients
    PROVE  Implements
<1>1. cur # 0 BY ClientsAssumption DEF Clients
<1> QED BY <1>1 DEF Implements, HoldsInv, Grab!vars, Grab!Next, Grab!Return

(* A connection is closed between requests.                                *)
LEMMA Closes ==
    ASSUME IInv, GrabInv, HoldsInv, NEW c \in Clients, NEW mode \in CloseDownModes,
           CloseDownClient(c, mode), pc # "execute", pc' # "execute"
    PROVE  Implements
    BY CloseHolds DEF Implements, Grab!vars, Grab!Next, Grab!Close

LEMMA StepImplements ==
    ASSUME "Impervious" \notin Kinds, IInv, GrabInv, HoldsInv, Next
    PROVE  Implements
<1> USE DEF slotVars, grabVars, schedVars, Executes
<1>1. m \in Masks /\ Within(m, Known) /\ m.impervious = {}
    BY GrabTypes DEF HoldsInv
<1>2. \A c \in Clients : clients[c].mode \in CloseDownModes
    BY DEF IInv, DataInv, DataTypeOK, ClientRec
<1>3. CASE Environment
  <2>1. UNCHANGED <<m, holds, grabState, grabClient, pc, cur>>
      BY <1>3 DEF Environment, Send, HangUp, WriteFails
  <2> QED BY <2>1 DEF Implements, HoldsInv, Grab!vars
<1>4. CASE Wait
  <2>1. CASE WorkEstablish \/ WaitStops \/ ReturnBuffered \/ SelectFails
      BY <1>1, <2>1, Stutters DEF WorkEstablish, WaitStops, ReturnBuffered, SelectFails
  <2>2. ASSUME NEW c \in Clients, WorkWakeup(c) PROVE Implements
    <3>1. m' = AttendClient(m, c, clients[c].fd) BY <2>2 DEF WorkWakeup
    <3>2. m'.impervious = {} BY <1>1, <3>1 DEF AttendClient, Masks
    <3> QED BY <2>2, <3>2, Stutters DEF WorkWakeup
  <2>3. CASE CheckConnections
    <3>1. CASE \E fd \in checking \cap m.all : IsBad(fd)
      <4>1. PICK fd \in checking \cap m.all : CloseDownClient(conn[fd], clients[conn[fd]].mode)
          BY <2>3, <3>1 DEF CheckConnections
      <4>2. conn[fd] \in Clients
          BY DEF IInv, DataInv, DataTypeOK, Within, Known
      <4>3. pc # "execute" /\ pc' # "execute" BY <2>3, <3>1 DEF CheckConnections
      <4> QED BY <1>2, <4>1, <4>2, <4>3, Closes
    <3>2. CASE ~ \E fd \in checking \cap m.all : IsBad(fd)
        BY <1>1, <2>3, <3>2, Stutters DEF CheckConnections
    <3> QED BY <3>1, <3>2
  <2>4. ASSUME NEW newConnection \in BOOLEAN,
               NEW answered \in SUBSET {c \in Clients : clients[c].asleep},
               Select(newConnection, answered)
        PROVE  Implements
    <3>1. /\ UNCHANGED <<m, holds, grabState, grabClient>> /\ pc = "wait"
          /\ pc' \in {"wait", "round"}
        BY <2>4 DEF Select
    <3> QED BY <1>1, <3>1, Stutters
  <2> QED BY <1>4, <2>1, <2>2, <2>3, <2>4 DEF Wait
<1>5. CASE Establish
  <2>1. CASE StragglersDone \/ AcceptFails
      BY <1>1, <2>1, Stutters DEF StragglersDone, AcceptFails
  <2>2. ASSUME NEW c \in Clients, KillStraggler(c) PROVE Implements
      BY <1>2, <2>2, Closes DEF KillStraggler
  <2>3. ASSUME NEW fd \in Fd, AcceptReused(fd) PROVE Implements
    <3>1. conn[fd] \in Clients BY <2>3 DEF AcceptReused, IInv, DataInv, DataTypeOK
    <3> QED BY <1>2, <2>3, <3>1, Closes DEF AcceptReused
  <2>4. ASSUME NEW fd \in Fd, Accept(fd) PROVE Implements
    <3>1. m'.impervious = {} BY <1>1, <2>4, AddWithin DEF Accept
    <3> QED BY <2>4, <3>1, Stutters DEF Accept
  <2> QED BY <1>5, <2>1, <2>2, <2>3, <2>4 DEF Establish
<1>6. CASE Serve
  <2>1. CASE RoundDone
    <3>1. pc # "execute" /\ pc' # "execute" BY <2>1 DEF RoundDone
    <3> QED BY <1>1, <2>1, <3>1, Stutters DEF RoundDone
  <2>2. CASE TurnDone \/ ReadFails
      BY <1>1, <2>2, Stutters DEF TurnDone, ReadFails
  <2>3. ASSUME NEW c \in Clients, NextClient(c) PROVE Implements
    <3>1. /\ UNCHANGED <<m, holds, grabClient>>
          /\ pc = "round" /\ pc' \in {"round", "run", "wait"}
          /\ grabState' = "GrabNone" <=> grabState = "GrabNone"
        BY <2>3 DEF NextClient, KicksOut
    <3> QED BY <3>1 DEF Implements, HoldsInv, Grab!vars
  <2>4. CASE ReadNothing
    <3>1. m' = [m EXCEPT !.cwi = @ \ {clients[cur].fd}] BY <2>4 DEF ReadNothing
    <3>2. m'.impervious = {} BY <1>1, <3>1 DEF Masks
    <3> QED BY <2>4, <3>2, Stutters DEF ReadNothing
  <2>5. CASE ReadRequest
    <3>1. /\ pc = "run" /\ ~yield /\ pc' = "execute" /\ clients[cur].fd # 0
          /\ UNCHANGED <<holds, grabState, grabClient, cur>>
        BY <2>5 DEF ReadRequest
    <3>2. cur \in Live /\ cur \in Clients BY <3>1 DEF IInv, Serving, Live
    <3>3. holds \subseteq {cur} BY <3>1, <3>2, ServedHolds
    <3>4. m'.impervious = {}
        BY <1>1, <2>5 DEF ReadRequest, Masks
    <3>5. Grab!Serve(cur) BY <3>1, <3>3 DEF Grab!Serve
    <3> QED BY <3>1, <3>2, <3>4, <3>5 DEF Implements, HoldsInv, Grab!Next
  <2>6. CASE Close
    <3>1. cur \in Clients BY <2>6 DEF IInv, Serving, Live, Close
    <3> QED BY <1>2, <2>6, <3>1, Closes DEF Close
  <2> QED BY <1>6, <2>1, <2>2, <2>3, <2>4, <2>5, <2>6 DEF Serve
<1>7. CASE Restart
  <2>1. CASE Reset BY <1>1, <2>1, Stutters DEF Reset
  <2>2. ASSUME NEW c \in Clients, KillAllClients(c) PROVE Implements
      BY <2>2, Closes DEF KillAllClients, CloseDownModes
  <2> QED BY <1>7, <2>1, <2>2 DEF Restart
<1>8. CASE Execute
  <2>1. pc = "execute"
      BY <1>8 DEF Execute, SetUp, Other, ProcGrabServer, ProcGrabServerWaits,
             ProcUngrabServer, GrabControlImpervious, GrabControlPervious, Sleep,
             ProcKillClient, KillTemporary, ProcChangeCloseDownMode
  <2>2. cur \in Live /\ cur \in Clients /\ clients[cur].fd \in Fd /\ cur # 0
        /\ clients[cur].fd \in Known
      BY <2>1, Served, ClientsAssumption DEF Clients
  <2>3. holds \subseteq {cur} BY <2>1, <2>2, ServedHolds
  <2>4. Returned => pc' # "execute" BY DEF Returned
  <2>5. CASE SetUp \/ Other \/ KillTemporary
      BY <1>1, <2>1, <2>2, <2>4, <2>5, Returns DEF SetUp, Other, KillTemporary
  <2>6. CASE ProcGrabServer
    <3>1. /\ m' = OnlyListenToOneClient(m, cur, clients[cur].fd)
          /\ grabState' = "GrabKickout" /\ grabClient' = cur
          /\ holds' = holds \cup {cur} /\ pc' # "execute"
        BY <2>4, <2>6 DEF ProcGrabServer
    <3>2. m'.impervious = {} BY <1>1, <2>2, <3>1, OnlyListenWithin
    <3>3. holds' = {cur} BY <2>3, <3>1
    <3>4. Grab!Grab BY <2>1, <2>2, <3>1 DEF Grab!Grab
    <3> QED BY <3>1, <3>2, <3>3, <3>4 DEF Implements, HoldsInv, Grab!Next
  <2>7. CASE ProcGrabServerWaits
    <3>1. m' = IgnoreClient(ResetCurrentRequest(clients[cur].fd), clients[cur].fd)
        BY <2>7 DEF ProcGrabServerWaits
    <3>2. /\ ResetCurrentRequest(clients[cur].fd) \in Masks
          /\ ResetCurrentRequest(clients[cur].fd).impervious = {}
        BY <1>1, <2>2 DEF ResetCurrentRequest, Masks
    <3>3. m'.impervious = {} BY <3>1, <3>2 DEF IgnoreClient, Masks
    <3> QED BY <2>1, <2>2, <2>4, <2>7, <3>3, Returns DEF ProcGrabServerWaits
  <2>8. CASE ProcUngrabServer
    <3>1. PICK w \in Clients \cup {0} :
              IsFirstWaiter(w) /\ grabState' = "GrabNone" /\ m' = Ungrabbed(w)
        BY <2>8 DEF ProcUngrabServer
    <3>2. m'.impervious = {} BY <1>1, <3>1, UngrabWithin DEF IInv
    <3>3. holds' = holds \ {cur} /\ pc' # "execute" BY <2>4, <2>8 DEF ProcUngrabServer
    <3>4. holds' = {} BY <2>3, <3>3
    <3>5. Grab!Ungrab BY <2>1, <2>2, <3>3 DEF Grab!Ungrab
    <3> QED BY <3>1, <3>2, <3>4, <3>5 DEF Implements, HoldsInv, Grab!Next
  <2>9. CASE GrabControlImpervious
      BY <2>9 DEF GrabControlImpervious
  <2>10. CASE GrabControlPervious
    <3>1. m' = MakeClientGrabPervious(m, cur, clients[cur].fd)
        BY <2>10 DEF GrabControlPervious
    <3>2. m'.impervious = {} BY <1>1, <2>2, <3>1, PerviousWithin
    <3> QED BY <2>1, <2>2, <2>4, <2>10, <3>2, Returns DEF GrabControlPervious
  <2>11. CASE Sleep
    <3>1. m'.impervious = {} BY <1>1, <2>2, <2>11, IgnoreWithin DEF Sleep
    <3> QED BY <2>1, <2>2, <2>4, <2>11, <3>1, Returns DEF Sleep
  <2>12. ASSUME NEW c \in Clients, ProcKillClient(c) PROVE Implements
    <3>1. HoldsInv' /\ holds' = holds \ {c}
        BY <1>2, <2>12, CloseHolds DEF ProcKillClient
    <3>2. pc' # "execute" BY <2>12 DEF ProcKillClient
    <3>3. Grab!Kill(c) BY <2>1, <2>2, <3>1, <3>2 DEF Grab!Kill
    <3> QED BY <3>1, <3>3 DEF Implements, Grab!Next
  <2>13. ASSUME NEW mode \in CloseDownModes, ProcChangeCloseDownMode(mode)
         PROVE  Implements
      BY <1>1, <2>1, <2>2, <2>4, <2>13, Returns DEF ProcChangeCloseDownMode
  <2> QED BY <1>8, <2>5, <2>6, <2>7, <2>8, <2>9, <2>10, <2>11, <2>12, <2>13 DEF Execute
<1> QED BY <1>3, <1>4, <1>5, <1>6, <1>7, <1>8 DEF Next, Server

(* Where no client is made impervious, everything the server does to its   *)
(* clients implements the server grab of module ServerGrab: GrabServer,    *)
(* UngrabServer, the closing of the holder and of the waiters, the sets of *)
(* os/connection.c, the round that GrabKickout cuts short.                 *)
THEOREM Refinement ==
    ASSUME "Impervious" \notin Kinds
    PROVE  Spec => ImplementsServerGrab
<1>1. Init => HoldsInv /\ Grab!Init
    BY DEF Init, InitMasks, HoldsInv, Grab!Init
<1>2. IInv /\ GrabInv /\ HoldsInv /\ [Next]_vars => HoldsInv' /\ [Grab!Next]_Grab!vars
  <2>1. CASE UNCHANGED vars
      BY <2>1 DEF vars, slotVars, grabVars, schedVars, HoldsInv, Grab!vars
  <2>2. ASSUME IInv, GrabInv, HoldsInv, Next
        PROVE  HoldsInv' /\ [Grab!Next]_Grab!vars
      BY <2>2, StepImplements DEF Implements
  <2> QED BY <2>1, <2>2
<1> QED BY <1>1, <1>2, GrabInvariance, PTL DEF Spec, ImplementsServerGrab, Grab!Spec

-----------------------------------------------------------------------------
(* Nobody is forgotten, nothing is lost.                                   *)

(* No client is woken while it is impervious, and then becomes pervious.   *)
Steady == ~({"Sleep", "Impervious", "Pervious"} \subseteq Kinds)

(* No client that is impervious ever sleeps.                               *)
SleepersPervious == "Sleep" \notin Kinds \/ "Impervious" \notin Kinds

(* What has input is listened to, now or when the grab ends.               *)
Nested(s) ==
    /\ s.cwi \subseteq s.all
    /\ s.grab # 0 => s.savedCwi \subseteq s.savedAll

(* The descriptor is listened to, now or when the grab ends.               *)
Hears(s, fd) == fd \in s.all \/ (s.grab # 0 /\ fd \in s.savedAll)

InTurn == pc = "execute" \/ (pc = "run" /\ ~yield)
InRound == pc \in {"round", "run", "execute", "close"}

(* A client of the round is listened to: if a new grab has cut the round   *)
(* short, once the grab ends.                                              *)
RoundHeard(c) ==
    /\ Hears(m, clients[c].fd)
    /\ grabState # "GrabKickout" => clients[c].fd \in m.all

TurnsHeard ==
    /\ InTurn /\ cur \in Live => clients[cur].fd \in m.all
    /\ InRound => \A c \in ready \cap Live : RoundHeard(c)

HeardInv == Nested(m) /\ TurnsHeard

(* A sleeping client is not listened to, nor will be when another's grab   *)
(* ends.                                                                   *)
SleepsUnheard(c) ==
    clients[c].asleep =>
        /\ clients[c].fd \notin m.all
        /\ m.grab # 0 /\ grabClient # c => clients[c].fd \notin m.savedAll

(* Where the input of a client is remembered.                              *)
Remembers(c) ==
    IF Ignored(c) THEN clients[c].fd \in m.ignored
    ELSE IF clients[c].fd \in m.all THEN clients[c].fd \in m.cwi
    ELSE m.grab # 0 /\ clients[c].fd \in m.savedCwi

Recalled(c) ==
    /\ clients[c].buffered > 0 => Remembers(c)
    /\ c \in grabWaiters => clients[c].fd \in m.ignored

(* If nobody sleeps, a grab finds everybody listened to, waiters as well.  *)
KnownToAll(c) == clients[c].fd \in IF m.grab = 0 THEN m.all ELSE m.savedAll

Attended(c) ==
    /\ ~Ignored(c) => Hears(m, clients[c].fd)
    /\ "Sleep" \notin Kinds => KnownToAll(c)
    /\ "Impervious" \notin Kinds => SleepsUnheard(c)
    /\ SleepersPervious => Recalled(c)

(* Only a client that is impervious can be served and find the server      *)
(* grabbed by another; and who has an answer to wake up to is asleep.      *)
QueueInv ==
    /\ "Impervious" \notin Kinds => HoldsInv /\ grabWaiters = {}
    /\ "Sleep" \notin Kinds => \A c \in Clients : ~clients[c].asleep
    /\ \A c \in workQueue \ {0} : clients[c].asleep

AttendedInv == \A c \in Live : Attended(c)

-----------------------------------------------------------------------------
(* The operations of os/connection.c, by what they do to one descriptor.   *)

LEMMA ListenHears ==
    ASSUME NEW s \in Masks, Nested(s)
    PROVE  /\ Nested(ListenToAllClients(s)) /\ ListenToAllClients(s).grab = 0
           /\ ListenToAllClients(s).ignored = s.ignored
           /\ \A fd : /\ fd \in ListenToAllClients(s).all <=> Hears(s, fd)
                      /\ fd \in s.cwi \/ (s.grab # 0 /\ fd \in s.savedCwi)
                             => fd \in ListenToAllClients(s).cwi
    BY DEF Masks, Nested, Hears, ListenToAllClients

LEMMA AttendHears ==
    ASSUME NEW s \in Masks, Nested(s), NEW c \in Clients, NEW fd \in Fd
    PROVE  /\ Nested(AttendClient(s, c, fd)) /\ AttendClient(s, c, fd).grab = s.grab
           /\ AttendClient(s, c, fd).ignored = s.ignored
           /\ Hears(AttendClient(s, c, fd), fd)
           /\ s.grab \in {0, c} => fd \in AttendClient(s, c, fd).all
           /\ fd \in s.ignored =>
                  IF fd \in AttendClient(s, c, fd).all
                  THEN fd \in AttendClient(s, c, fd).cwi \/ (s.grab \notin {0, c} /\ fd \in s.all)
                  ELSE fd \in AttendClient(s, c, fd).savedCwi
           /\ \A e : e # fd =>
                /\ e \in AttendClient(s, c, fd).all <=> e \in s.all
                /\ e \in AttendClient(s, c, fd).cwi <=> e \in s.cwi
                /\ e \in AttendClient(s, c, fd).savedAll <=> e \in s.savedAll
                /\ e \in AttendClient(s, c, fd).savedCwi <=> e \in s.savedCwi
<1>1. CASE s.grab \in {0, c} \/ fd \in s.impervious
    BY <1>1 DEF Masks, Nested, Hears, AttendClient
<1>2. CASE ~(s.grab \in {0, c} \/ fd \in s.impervious)
    BY <1>2 DEF Masks, Nested, Hears, AttendClient
<1> QED BY <1>1, <1>2

LEMMA CloseHears ==
    ASSUME NEW s \in Masks, Nested(s), NEW fd \in Fd
    PROVE  /\ Nested(CloseDownFileDescriptor(s, fd))
           /\ CloseDownFileDescriptor(s, fd).grab = s.grab
           /\ CloseDownFileDescriptor(s, fd).ignored = s.ignored
           /\ \A e : e # fd =>
                /\ e \in CloseDownFileDescriptor(s, fd).all <=> e \in s.all
                /\ e \in CloseDownFileDescriptor(s, fd).cwi <=> e \in s.cwi
                /\ e \in CloseDownFileDescriptor(s, fd).savedAll <=> e \in s.savedAll
                /\ e \in CloseDownFileDescriptor(s, fd).savedCwi <=> e \in s.savedCwi
<1> DEFINE r == CloseDownFileDescriptor(s, fd)
<1>1. /\ r.all = s.all \ {fd} /\ r.cwi = s.cwi \ {fd}
      /\ r.grab = s.grab /\ r.ignored = s.ignored
    BY DEF Masks, CloseDownFileDescriptor
<1>2. /\ s.grab # 0 => r.savedAll = s.savedAll \ {fd} /\ r.savedCwi = s.savedCwi \ {fd}
      /\ s.grab = 0 => r.savedAll = s.savedAll /\ r.savedCwi = s.savedCwi
    BY DEF Masks, CloseDownFileDescriptor
<1> HIDE DEF r
<1>3. Nested(r) BY <1>1, <1>2 DEF Nested
<1> QED BY <1>1, <1>2, <1>3 DEF r

(* The client ignored is listened to.                                      *)
LEMMA IgnoreHears ==
    ASSUME NEW s \in Masks, Nested(s), NEW fd \in Fd, fd \in s.all
    PROVE  /\ Nested(IgnoreClient(s, fd)) /\ IgnoreClient(s, fd).grab = s.grab
           /\ fd \notin IgnoreClient(s, fd).all
           /\ fd \in IgnoreClient(s, fd).ignored <=> fd \in s.cwi
           /\ IgnoreClient(s, fd).savedAll = s.savedAll
           /\ IgnoreClient(s, fd).savedCwi = s.savedCwi
           /\ \A e : e # fd =>
                /\ e \in IgnoreClient(s, fd).all <=> e \in s.all
                /\ e \in IgnoreClient(s, fd).cwi <=> e \in s.cwi
                /\ e \in IgnoreClient(s, fd).ignored <=> e \in s.ignored
    BY DEF Masks, Nested, IgnoreClient, With

(* The client that grabs is listened to.                                   *)
LEMMA OnlyListenHears ==
    ASSUME NEW s \in Masks, Nested(s), NEW c \in Clients, NEW fd \in Fd, fd \in s.all
    PROVE  /\ Nested(OnlyListenToOneClient(s, c, fd))
           /\ fd \in OnlyListenToOneClient(s, c, fd).all
           /\ OnlyListenToOneClient(s, c, fd).grab # 0
           /\ OnlyListenToOneClient(s, c, fd).ignored = s.ignored
           /\ \A e : Hears(s, e) => Hears(OnlyListenToOneClient(s, c, fd), e)
           /\ \A e : e \notin s.all /\ (s.grab # 0 => e \notin s.savedAll)
                  => ~Hears(OnlyListenToOneClient(s, c, fd), e)
           /\ s.grab = 0 => OnlyListenToOneClient(s, c, fd).savedAll = s.all
           /\ s.grab = 0 => \A e \in s.cwi :
                IF e \in OnlyListenToOneClient(s, c, fd).all
                THEN e \in OnlyListenToOneClient(s, c, fd).cwi
                ELSE e \in OnlyListenToOneClient(s, c, fd).savedCwi
<1>1. c # 0 BY DEF Clients
<1>2. CASE s.grab # 0 BY <1>2 DEF OnlyListenToOneClient, Hears
<1>3. CASE s.grab = 0
  <2> DEFINE r == OnlyListenToOneClient(s, c, fd)
  <2>1. /\ r.all = (s.all \cap s.impervious) \cup {fd}
        /\ r.cwi = s.cwi \cap (s.impervious \cup {fd})
        /\ r.savedAll = s.all /\ r.savedCwi = (s.cwi \ {fd}) \ s.impervious
        /\ r.grab = c /\ r.ignored = s.ignored
      BY <1>3 DEF Masks, OnlyListenToOneClient
  <2> HIDE DEF r
  <2> QED BY <1>1, <1>3, <2>1 DEF Nested, Hears, r
<1> QED BY <1>2, <1>3

LEMMA AddHears ==
    ASSUME NEW s \in Masks, Nested(s), NEW fd \in Fd
    PROVE  /\ Nested(AddConnection(s, fd)) /\ AddConnection(s, fd).grab = s.grab
           /\ AddConnection(s, fd).ignored = s.ignored
           /\ Hears(AddConnection(s, fd), fd)
           /\ IF s.grab = 0 THEN fd \in AddConnection(s, fd).all
              ELSE fd \in AddConnection(s, fd).savedAll
           /\ AddConnection(s, fd).cwi = s.cwi /\ AddConnection(s, fd).savedCwi = s.savedCwi
           /\ \A e : e # fd =>
                /\ e \in AddConnection(s, fd).all <=> e \in s.all
                /\ e \in AddConnection(s, fd).savedAll <=> e \in s.savedAll
    BY DEF Masks, Nested, Hears, AddConnection

-----------------------------------------------------------------------------
(* What ends a grab, by what it does to one descriptor.                    *)

SameAt(s, r, e) ==
    /\ e \in r.all <=> e \in s.all
    /\ e \in r.cwi <=> e \in s.cwi
    /\ s.grab # 0 => /\ e \in r.savedAll <=> e \in s.savedAll
                     /\ e \in r.savedCwi <=> e \in s.savedCwi
    /\ e \in r.ignored <=> e \in s.ignored

OpenedAt(s, r, e) ==
    /\ e \in r.all <=> Hears(s, e)
    /\ e \in s.cwi \/ (s.grab # 0 /\ e \in s.savedCwi) => e \in r.cwi
    /\ e \in r.ignored <=> e \in s.ignored

WokenAt(s, r, e) ==
    /\ e \in r.all
    /\ e \in s.ignored => e \in r.cwi

(* UngrabServer: everybody is listened to again, and the waiter it wakes.  *)
LEMMA UngrabHears ==
    ASSUME IInv, Nested(m), NEW w \in Clients \cup {0}, IsFirstWaiter(w)
    PROVE  /\ Ungrabbed(w) \in Masks /\ Nested(Ungrabbed(w)) /\ Ungrabbed(w).grab = 0
           /\ Ungrabbed(w).ignored = m.ignored
           /\ w = 0 \/ (w \in grabWaiters /\ w \in Live)
           /\ \A d \in Live :
                IF d = w THEN WokenAt(m, Ungrabbed(w), clients[d].fd)
                ELSE OpenedAt(m, Ungrabbed(w), clients[d].fd)
<1> DEFINE heard == ListenToAllClients(m)
<1>1. m \in Masks /\ Within(m, Known) BY GrabTypes
<1>2. heard \in Masks BY <1>1, ListenToAllWithin
<1>3. /\ Nested(heard) /\ heard.grab = 0 /\ heard.ignored = m.ignored
      /\ \A e : OpenedAt(m, heard, e)
    BY <1>1, ListenHears DEF OpenedAt
<1>4. w # 0 => w \in grabWaiters BY DEF IsFirstWaiter
<1>5. w # 0 => w \in Live BY <1>4 DEF IInv, DataInv, Queues
<1>6. 0 \notin Clients BY ClientsAssumption DEF Clients
<1> HIDE DEF heard
<1>7. CASE w = 0
  <2>1. Ungrabbed(w) = heard BY <1>7 DEF Ungrabbed, heard
  <2>2. \A d \in Live : d # w BY <1>6, <1>7 DEF Live
  <2> QED BY <1>2, <1>3, <1>7, <2>1, <2>2
<1>8. CASE w # 0
  <2> DEFINE fd == clients[w].fd
             r == AttendClient(heard, w, fd)
  <2>1. Ungrabbed(w) = r BY <1>8 DEF Ungrabbed, heard
  <2>2. w \in Live /\ w \in Clients /\ fd \in Fd BY <1>5, <1>8, KnownFd DEF IInv, Live
  <2>3. r \in Masks BY <1>2, <2>2 DEF AttendClient, Masks
  <2>4. /\ Nested(r) /\ r.grab = 0 /\ r.ignored = m.ignored
        /\ fd \in r.all /\ (fd \in m.ignored => fd \in r.cwi)
        /\ \A e : e # fd => /\ e \in r.all <=> e \in heard.all
                            /\ e \in r.cwi <=> e \in heard.cwi
      BY <1>2, <1>3, <2>2, AttendHears
  <2> HIDE DEF r
  <2>5. ASSUME NEW d \in Live, d # w PROVE OpenedAt(m, r, clients[d].fd)
    <3>1. clients[d].fd # fd
        BY <2>2, <2>5, KnownFd DEF IInv
    <3>2. OpenedAt(m, heard, clients[d].fd) BY <1>3
    <3> QED BY <1>3, <2>4, <3>1, <3>2 DEF OpenedAt
  <2>6. WokenAt(m, r, fd) BY <2>4 DEF WokenAt
  <2> QED BY <1>4, <1>8, <2>1, <2>2, <2>3, <2>4, <2>5, <2>6
<1> QED BY <1>7, <1>8

(* The end of a connection leaves the others as they are, or ends a grab.  *)
EndsNoGrab(c) ==
    /\ m'.grab = m.grab /\ UNCHANGED grabState
    /\ grabWaiters' = grabWaiters \ {c}
    /\ \A d \in Live' : SameAt(m, m', clients[d].fd)

EndsGrab(c) ==
    /\ m'.grab = 0 /\ grabState' = "GrabNone" /\ grabClient = c
    /\ \E w \in Clients \cup {0} :
        /\ w = 0 \/ w \in grabWaiters
        /\ grabWaiters' = grabWaiters \ {w, c}
        /\ \A d \in Live' : IF d = w THEN WokenAt(m, m', clients[d].fd)
                             ELSE OpenedAt(m, m', clients[d].fd)

LEMMA CloseEnds ==
    ASSUME IInv, Nested(m), NEW c \in Clients, NEW mode \in CloseDownModes,
           clients[c].state = "Initial" => mode = "DestroyAll",
           CloseDownClient(c, mode)
    PROVE  /\ Nested(m') /\ UNCHANGED grabClient
           /\ workQueue' = workQueue \ {c}
           /\ \A d \in Live' : d \in Live /\ d # c /\ clients'[d] = clients[d]
           /\ ~clients'[c].asleep
           /\ \A d \in Clients \ {c} : clients'[d] = clients[d]
           /\ EndsNoGrab(c) \/ EndsGrab(c)
<1> DEFINE fd == clients[c].fd
<1>1. /\ \A d \in Clients \ {c} : clients'[d] = clients[d]
      /\ Live' = Live \ {c} /\ DataInv' /\ UNCHANGED grabClient
    BY CloseKeepsData DEF IInv
<1>2. m \in Masks BY GrabTypes
<1>3. workQueue' = workQueue \ {c} BY DEF CloseDownClient
<1>4. \A d \in Live' : d \in Live /\ d # c /\ clients'[d] = clients[d]
    BY <1>1 DEF Live
<1>5. \A d \in Live' : fd # 0 => clients[d].fd # fd
  <2> SUFFICES ASSUME NEW d \in Live', fd # 0 PROVE clients[d].fd # fd OBVIOUS
  <2>1. c \in Live BY DEF Live
  <2> QED BY <1>4, <2>1, KnownFd DEF IInv
<1>6. ~clients'[c].asleep
  <2>1. c \notin Live' BY <1>1
  <2> QED BY <2>1, <1>1 DEF DataInv, Slots, Live
<1>7. CASE fd = 0
  <2>1. c \notin grabWaiters BY <1>7 DEF IInv, DataInv, Queues, Live
  <2>2. UNCHANGED <<m, grabState, grabWaiters>> BY <1>7 DEF CloseDownClient
  <2>3. EndsNoGrab(c) BY <2>1, <2>2 DEF EndsNoGrab, SameAt
  <2> QED BY <1>1, <1>3, <1>4, <1>6, <2>2, <2>3
<1>8. ASSUME fd # 0, NEW s \in Masks, Nested(s), m' = CloseDownFileDescriptor(s, fd)
      PROVE  /\ Nested(m') /\ m'.grab = s.grab
             /\ \A d \in Live' :
                  /\ SameAt(m, s, clients[d].fd) /\ s.grab = m.grab
                         => SameAt(m, m', clients[d].fd)
                  /\ OpenedAt(m, s, clients[d].fd) => OpenedAt(m, m', clients[d].fd)
                  /\ WokenAt(m, s, clients[d].fd) => WokenAt(m, m', clients[d].fd)
  <2>1. fd \in Fd BY <1>8, KnownFd DEF IInv, Live
  <2>2. /\ Nested(m') /\ m'.grab = s.grab /\ m'.ignored = s.ignored
        /\ \A e : e # fd => /\ e \in m'.all <=> e \in s.all
                            /\ e \in m'.cwi <=> e \in s.cwi
                            /\ e \in m'.savedAll <=> e \in s.savedAll
                            /\ e \in m'.savedCwi <=> e \in s.savedCwi
      BY <1>8, <2>1, CloseHears
  <2> QED BY <1>5, <1>8, <2>2 DEF SameAt, OpenedAt, WokenAt
<1>9. CASE fd # 0 /\ ~(grabState # "GrabNone" /\ grabClient = c)
  <2>1. /\ m' = CloseDownFileDescriptor(m, fd) /\ UNCHANGED grabState
        /\ \E w \in {0} : grabWaiters' = grabWaiters \ {w, c}
      BY <1>9 DEF CloseDownClient
  <2>2. grabWaiters' = grabWaiters \ {c}
    <3>1. 0 \notin grabWaiters
        BY ClientsAssumption DEF IInv, DataInv, Queues, Live, Clients
    <3> QED BY <2>1, <3>1
  <2>3. \A e : SameAt(m, m, e) BY DEF SameAt
  <2>4. EndsNoGrab(c) BY <1>2, <1>8, <1>9, <2>1, <2>2, <2>3 DEF EndsNoGrab
  <2>5. Nested(m') BY <1>2, <1>8, <1>9, <2>1
  <2> QED BY <1>1, <1>3, <1>4, <1>6, <2>4, <2>5
<1>10. CASE fd # 0 /\ grabState # "GrabNone" /\ grabClient = c
  <2>1. PICK w \in Clients \cup {0} :
            /\ IsFirstWaiter(w)
            /\ m' = CloseDownFileDescriptor(Ungrabbed(w), fd)
            /\ grabState' = "GrabNone"
            /\ grabWaiters' = grabWaiters \ {w, c}
      BY <1>10 DEF CloseDownClient
  <2>2. /\ Ungrabbed(w) \in Masks /\ Nested(Ungrabbed(w)) /\ Ungrabbed(w).grab = 0
        /\ w = 0 \/ w \in grabWaiters
        /\ \A d \in Live :
                IF d = w THEN WokenAt(m, Ungrabbed(w), clients[d].fd)
                ELSE OpenedAt(m, Ungrabbed(w), clients[d].fd)
      BY <2>1, UngrabHears
  <2>3. EndsGrab(c) BY <1>4, <1>8, <1>10, <2>1, <2>2 DEF EndsGrab
  <2>4. Nested(m') BY <1>8, <1>10, <2>1, <2>2
  <2> QED BY <1>1, <1>3, <1>4, <1>6, <2>3, <2>4
<1> QED BY <1>7, <1>9, <1>10

-----------------------------------------------------------------------------
(* Who is served is listened to.                                           *)

(* Without impervious clients, only the one that grabbed is served.        *)
LEMMA GrabberServed ==
    ASSUME IInv, GrabInv, m.impervious = {}, InTurn, cur \in Live, m.grab # 0
    PROVE  cur = grabClient
<1>1. clients[cur].fd = clients[grabClient].fd /\ grabClient \in Live
    BY DEF GrabInv, GrabSets, GrabTurns, Allowed, InTurn
<1> QED BY <1>1, KnownFd DEF IInv

LEMMA QueueImpervious ==
    ASSUME QueueInv, "Impervious" \notin Kinds
    PROVE  m.impervious = {}
    BY DEF QueueInv, HoldsInv

LEMMA TurnsHeardKept ==
    ASSUME TurnsHeard, UNCHANGED <<ready, cur>>, InRound, ready \subseteq Clients,
           \A d \in Live' : d \in Live /\ clients'[d].fd = clients[d].fd,
           \A d \in ready \cap Live' : RoundHeard(d) => RoundHeard(d)',
           InTurn' /\ cur \in Live' => clients'[cur].fd \in m'.all
    PROVE  TurnsHeard'
    BY DEF TurnsHeard

LEMMA NoTurnsHeard ==
    ASSUME ~InRound'
    PROVE  TurnsHeard'
    BY DEF TurnsHeard, InRound, InTurn

(* What select and the buffers return is listened to.                      *)
LEMMA WaitHeard ==
    ASSUME IInv, HeardInv, Wait
    PROVE  HeardInv'
<1> USE DEF slotVars, grabVars, schedVars, HeardInv
<1>1. CASE WorkEstablish \/ WaitStops \/ SelectFails
    BY <1>1, NoTurnsHeard DEF WorkEstablish, WaitStops, SelectFails, InRound
<1>2. ASSUME NEW c \in Clients, WorkWakeup(c)
      PROVE  HeardInv'
  <2>1. c \in Live BY <1>2, ClientsAssumption DEF WorkWakeup, IInv, DataInv, Queues, Clients
  <2>2. clients[c].fd \in Fd BY <2>1, KnownFd DEF IInv
  <2>3. Nested(m') BY <1>2, <2>2, GrabTypes, AttendHears DEF WorkWakeup
  <2>4. ~InRound' BY <1>2 DEF WorkWakeup, InRound
  <2> QED BY <2>3, <2>4, NoTurnsHeard
<1>3. ASSUME NEW S \in SUBSET Fd, Return(S), S \subseteq m.all,
             UNCHANGED <<clients, conn, m, grabState>>,
             pc' \in {"wait", "round"}
      PROVE  HeardInv'
  <2>1. ready' \subseteq {conn[fd] : fd \in S} BY <1>3 DEF Return
  <2>2. ASSUME NEW c \in ready' \cap Live'
        PROVE  RoundHeard(c)'
    <3>1. PICK fd \in S : c = conn[fd] BY <2>1, <2>2
    <3>2. c \in Live /\ c \in Clients /\ 0 \notin Clients
        BY <1>3, <2>2, ClientsAssumption DEF Live, Clients
    <3>3. clients[c].fd = fd
        BY <3>1, <3>2 DEF IInv, DataInv, TranslationAgrees, Known
    <3> QED BY <1>3, <3>1, <3>3 DEF RoundHeard, Hears
  <2>3. ~InTurn' BY <1>3 DEF InTurn
  <2> QED BY <1>3, <2>2, <2>3 DEF TurnsHeard, Nested
<1>4. m \in Masks /\ m.cwi \subseteq m.all /\ m.all \subseteq Fd
    BY GrabTypes DEF Nested, Masks
<1>5. CASE ReturnBuffered
    BY <1>3, <1>4, <1>5 DEF ReturnBuffered
<1>6. CASE CheckConnections
  <2>1. CASE \E fd \in checking \cap m.all : IsBad(fd)
    <3>1. PICK fd \in checking \cap m.all : CloseDownClient(conn[fd], clients[conn[fd]].mode)
        BY <1>6, <2>1 DEF CheckConnections
    <3>2. conn[fd] \in Clients
        BY DEF IInv, DataInv, DataTypeOK, Within, Known
    <3>3. /\ clients[conn[fd]].mode \in CloseDownModes
          /\ clients[conn[fd]].state = "Initial" => clients[conn[fd]].mode = "DestroyAll"
        BY <3>2 DEF IInv, DataInv, DataTypeOK, ClientRec, Slots
    <3>4. Nested(m') BY <3>1, <3>2, <3>3, CloseEnds
    <3>5. ~InRound' BY <1>6, <2>1 DEF CheckConnections, InRound
    <3> QED BY <3>4, <3>5, NoTurnsHeard
  <2>2. CASE ~ \E fd \in checking \cap m.all : IsBad(fd)
      BY <1>6, <2>2, NoTurnsHeard DEF CheckConnections, InRound
  <2> QED BY <2>1, <2>2
<1>7. ASSUME NEW newConnection \in BOOLEAN,
             NEW answered \in SUBSET {c \in Clients : clients[c].asleep},
             Select(newConnection, answered)
      PROVE  HeardInv'
  <2> DEFINE news == {fd \in SelectMask : HasNews(fd)}
             some == news # {} \/ newConnection \/ answered # {}
             readable == IF some THEN (news \cup m.cwi) \cap m.all ELSE m.cwi
  <2>1. /\ Return(readable) /\ pc' = IF readable = {} THEN "wait" ELSE "round"
        /\ UNCHANGED <<clients, conn, m, grabState>>
      BY <1>7 DEF Select
  <2>2. readable \subseteq m.all BY <1>4
  <2>3. readable \in SUBSET Fd BY <1>4, <2>2
  <2> HIDE DEF readable
  <2> QED BY <1>3, <2>1, <2>2, <2>3
<1> QED BY <1>1, <1>2, <1>5, <1>6, <1>7 DEF Wait

LEMMA EstablishHeard ==
    ASSUME IInv, HeardInv, Establish
    PROVE  HeardInv'
<1> USE DEF slotVars, grabVars, schedVars, HeardInv
<1>1. CASE StragglersDone \/ AcceptFails
    BY <1>1, NoTurnsHeard DEF StragglersDone, AcceptFails, InRound
<1>2. ASSUME NEW c \in Clients, CloseDownClient(c, clients[c].mode)
      PROVE  Nested(m')
  <2>1. /\ clients[c].mode \in CloseDownModes
        /\ clients[c].state = "Initial" => clients[c].mode = "DestroyAll"
      BY DEF IInv, DataInv, DataTypeOK, ClientRec, Slots
  <2> QED BY <1>2, <2>1, CloseEnds
<1>3. ASSUME NEW c \in Clients, KillStraggler(c)
      PROVE  HeardInv'
    BY <1>2, <1>3, NoTurnsHeard DEF KillStraggler, InRound
<1>4. ASSUME NEW fd \in Fd, AcceptReused(fd)
      PROVE  HeardInv'
  <2>1. conn[fd] \in Clients BY <1>4 DEF AcceptReused, IInv, DataInv, DataTypeOK
  <2>2. Nested(m') BY <1>2, <1>4, <2>1 DEF AcceptReused
  <2>3. ~InRound' BY <1>4 DEF AcceptReused, InRound
  <2> QED BY <2>2, <2>3, NoTurnsHeard
<1>5. ASSUME NEW fd \in Fd, Accept(fd)
      PROVE  HeardInv'
  <2>1. Nested(m') BY <1>5, GrabTypes, AddHears DEF Accept
  <2>2. ~InRound' BY <1>5 DEF Accept, InRound
  <2> QED BY <2>1, <2>2, NoTurnsHeard
<1> QED BY <1>1, <1>3, <1>4, <1>5 DEF Establish

LEMMA CloseRoundHeard ==
    ASSUME NEW c, EndsNoGrab(c) \/ EndsGrab(c),
           \A d \in Live' : clients'[d] = clients[d]
    PROVE  \A d \in Live' :
               /\ RoundHeard(d) => RoundHeard(d)'
               /\ clients[d].fd \in m.all => clients[d].fd \in m'.all
<1>1. CASE EndsNoGrab(c)
    BY <1>1 DEF EndsNoGrab, SameAt, RoundHeard, Hears
<1>2. CASE EndsGrab(c)
  <2>1. ASSUME NEW d \in Live', Hears(m, clients[d].fd) PROVE clients[d].fd \in m'.all
    <3>1. OpenedAt(m, m', clients[d].fd) \/ WokenAt(m, m', clients[d].fd)
        BY <1>2 DEF EndsGrab
    <3> QED BY <2>1, <3>1 DEF OpenedAt, WokenAt
  <2> QED BY <2>1 DEF RoundHeard, Hears
<1> QED BY <1>1, <1>2

(* The end of a connection during a round.                                 *)
LEMMA CloseHeard ==
    ASSUME IInv, HeardInv, InRound, UNCHANGED <<ready, cur>>, ~InTurn',
           NEW c \in Clients, CloseDownClient(c, clients[c].mode)
    PROVE  HeardInv'
<1>1. /\ clients[c].mode \in CloseDownModes
      /\ clients[c].state = "Initial" => clients[c].mode = "DestroyAll"
    BY DEF IInv, DataInv, DataTypeOK, ClientRec, Slots
<1>2. /\ Nested(m')
      /\ EndsNoGrab(c) \/ EndsGrab(c)
      /\ \A d \in Live' : d \in Live /\ d # c /\ clients'[d] = clients[d]
    BY <1>1, CloseEnds DEF HeardInv
<1>3. \A d \in Live' : RoundHeard(d) => RoundHeard(d)' BY <1>2, CloseRoundHeard
<1>4. \A d \in Live' : d \in Live /\ clients'[d].fd = clients[d].fd BY <1>2
<1>5. TurnsHeard' BY <1>3, <1>4, GrabTypes, TurnsHeardKept DEF HeardInv
<1> QED BY <1>2, <1>5 DEF HeardInv

LEMMA ServeHeard ==
    ASSUME IInv, HeardInv, Serve
    PROVE  HeardInv'
<1> USE DEF slotVars, grabVars, schedVars
<1>1. m \in Masks /\ ready \subseteq Clients /\ Nested(m) /\ TurnsHeard
    BY GrabTypes DEF HeardInv
<1>2. CASE RoundDone
    BY <1>1, <1>2, NoTurnsHeard DEF HeardInv, RoundDone, InRound
<1>3. CASE TurnDone \/ ReadFails
  <2>1. /\ UNCHANGED <<clients, m, grabState, ready, cur>>
        /\ InRound /\ ~InTurn'
      BY <1>3 DEF TurnDone, ReadFails, InRound, InTurn
  <2>2. TurnsHeard'
      BY <1>1, <2>1, TurnsHeardKept DEF RoundHeard, Hears, Live
  <2> QED BY <1>1, <2>1, <2>2 DEF HeardInv
<1>4. ASSUME NEW c \in Clients, NextClient(c)
      PROVE  HeardInv'
  <2>1. UNCHANGED <<clients, m>> /\ InRound /\ ~InTurn /\ c \in ready
      BY <1>4 DEF NextClient, InRound, InTurn
  <2>2. Live' = Live BY <2>1 DEF Live
  <2>3. CASE ready' \subseteq ready /\ UNCHANGED <<pc, cur, yield, grabState>>
      BY <1>1, <2>1, <2>2, <2>3
         DEF HeardInv, TurnsHeard, RoundHeard, Hears, InRound, InTurn
  <2>4. CASE pc' = "wait"
      BY <1>1, <2>1, <2>4, NoTurnsHeard DEF HeardInv, InRound
  <2>5. CASE ~KicksOut /\ cur' = c /\ ready' \subseteq ready /\ UNCHANGED grabState
    <3>1. c \in Live => clients[c].fd \in m.all
        BY <1>1, <2>1, <2>5 DEF KicksOut, TurnsHeard, RoundHeard
    <3> QED BY <1>1, <2>1, <2>2, <2>5, <3>1
            DEF HeardInv, TurnsHeard, RoundHeard, Hears
  <2> QED BY <1>4, <2>3, <2>4, <2>5 DEF NextClient
<1>5. CASE ReadNothing
  <2>1. /\ m' = [m EXCEPT !.cwi = @ \ {clients[cur].fd}]
        /\ UNCHANGED <<clients, grabState, ready, cur>>
        /\ InRound /\ ~InTurn'
      BY <1>5 DEF ReadNothing, InRound, InTurn
  <2>2. /\ m'.grab = m.grab /\ m'.all = m.all /\ m'.cwi \subseteq m.cwi
        /\ m'.savedAll = m.savedAll /\ m'.savedCwi = m.savedCwi
      BY <1>1, <2>1 DEF Masks
  <2>3. TurnsHeard'
      BY <1>1, <2>1, <2>2, TurnsHeardKept DEF RoundHeard, Hears, Live
  <2> QED BY <1>1, <2>2, <2>3 DEF HeardInv, Nested
<1>6. CASE ReadRequest
  <2>1. /\ \E present \in BOOLEAN :
              m' = [m EXCEPT !.cwi = With(@, clients[cur].fd, present)]
        /\ UNCHANGED <<grabState, ready, cur>>
        /\ InRound /\ InTurn
    <3>1. \A left \in Int : (left > 0) \in BOOLEAN OBVIOUS
    <3>2. cur \in Clients BY <1>6 DEF ReadRequest, IInv, Serving
    <3>3. ((IF FromSocket(clients[cur]) THEN clients[cur].sent
                                        ELSE clients[cur].buffered) - 1) \in Int
        BY <3>2, GrabTypes, SchedulerAssumption DEF ClientRec
    <3> QED BY <1>6, <3>1, <3>3 DEF ReadRequest, InRound, InTurn
  <2>2. cur \in Live BY <1>6 DEF ReadRequest, IInv, Serving, Live
  <2>3. clients[cur].fd \in m.all BY <1>1, <2>1, <2>2 DEF TurnsHeard
  <2>4. /\ m'.grab = m.grab /\ m'.all = m.all
        /\ m'.cwi \subseteq m.cwi \cup {clients[cur].fd}
        /\ m'.savedAll = m.savedAll /\ m'.savedCwi = m.savedCwi
      BY <1>1, <2>1 DEF Masks, With
  <2>5. \A d \in Clients : clients'[d].fd = clients[d].fd
      BY <1>6, GrabTypes DEF ReadRequest, ClientRec
  <2>6. Live' = Live BY <2>5 DEF Live
  <2>7. \A d \in Live' : d \in Live /\ clients'[d].fd = clients[d].fd
      BY <2>5, <2>6 DEF Live
  <2>8. \A d \in Live' : RoundHeard(d) => RoundHeard(d)'
      BY <2>1, <2>4, <2>7 DEF RoundHeard, Hears
  <2>9. TurnsHeard'
      BY <1>1, <2>1, <2>2, <2>3, <2>4, <2>6, <2>7, <2>8, TurnsHeardKept
  <2> QED BY <1>1, <2>3, <2>4, <2>9 DEF HeardInv, Nested
<1>7. CASE Close
  <2>1. cur \in Clients BY <1>7 DEF IInv, Serving, Live, Close
  <2>2. /\ InRound /\ ~InTurn' /\ UNCHANGED <<ready, cur>>
        /\ CloseDownClient(cur, clients[cur].mode)
      BY <1>7 DEF Close, InRound, InTurn
  <2> QED BY <2>1, <2>2, CloseHeard
<1> QED BY <1>2, <1>3, <1>4, <1>5, <1>6, <1>7 DEF Serve

LEMMA RestartHeard ==
    ASSUME IInv, HeardInv, Restart
    PROVE  HeardInv'
<1> USE DEF slotVars, grabVars, schedVars
<1>1. CASE Reset
    BY <1>1, NoTurnsHeard DEF HeardInv, Reset, InRound
<1>2. ASSUME NEW c \in Clients, KillAllClients(c)
      PROVE  HeardInv'
  <2>1. ~InRound' BY <1>2 DEF KillAllClients, InRound
  <2>2. Nested(m') BY <1>2, CloseEnds DEF KillAllClients, CloseDownModes, HeardInv
  <2> QED BY <2>1, <2>2, NoTurnsHeard DEF HeardInv
<1> QED BY <1>1, <1>2 DEF Restart

LEMMA InRequest ==
    ASSUME Execute
    PROVE  pc = "execute" /\ InTurn /\ InRound
    BY DEF Execute, SetUp, Other, ProcGrabServer, ProcGrabServerWaits, ProcUngrabServer,
           GrabControlImpervious, GrabControlPervious, Sleep, ProcKillClient,
           KillTemporary, ProcChangeCloseDownMode, Executes, InTurn, InRound

(* A client that becomes pervious under the grab of another is suspended:  *)
(* it was impervious, so nobody ever sleeps, and the grab found it.        *)
Suspended(fd) ==
    /\ m.grab # 0 /\ fd \in m.savedAll /\ yield' = TRUE
    /\ m'.all = m.all \ {fd} /\ m'.cwi = m.cwi \ {fd}
    /\ m'.savedCwi = m.savedCwi \cup ({fd} \cap m.cwi)
    /\ "Impervious" \in Kinds

NotSuspended ==
    /\ m'.all = m.all /\ m'.cwi = m.cwi /\ m'.savedCwi = m.savedCwi
    /\ UNCHANGED yield

LEMMA PerviousHears ==
    ASSUME Steady, IInv, GrabInv, QueueInv, AttendedInv, Execute, GrabControlPervious
    PROVE  /\ m'.grab = m.grab /\ m'.savedAll = m.savedAll /\ m'.ignored = m.ignored
           /\ Suspended(clients[cur].fd) \/ NotSuspended
<1>1. /\ pc = "execute" /\ InTurn /\ cur \in Live /\ m \in Masks
      /\ "Pervious" \in Kinds /\ yield \in BOOLEAN
      /\ m' = MakeClientGrabPervious(m, cur, clients[cur].fd)
      /\ yield' = (yield \/ Suspends(m, cur))
    BY InRequest, Served DEF GrabControlPervious, Executes, IInv, SchedTypeOK
<1>2. CASE Suspends(m, cur)
  <2>1. m.grab # 0 /\ cur # grabClient BY <1>2 DEF Suspends, GrabInv, GrabSets
  <2>2. "Impervious" \in Kinds BY <1>1, <2>1, GrabberServed, QueueImpervious
  <2>3. "Sleep" \notin Kinds BY <1>1, <2>2 DEF Steady
  <2>4. clients[cur].fd \in m.savedAll
      BY <1>1, <2>1, <2>3 DEF AttendedInv, Attended, KnownToAll
  <2>5. /\ m'.all = m.all \ {clients[cur].fd} /\ m'.cwi = m.cwi \ {clients[cur].fd}
        /\ m'.savedCwi = m.savedCwi \cup ({clients[cur].fd} \cap m.cwi)
        /\ m'.grab = m.grab /\ m'.savedAll = m.savedAll /\ m'.ignored = m.ignored
      BY <1>1, <1>2 DEF MakeClientGrabPervious, Masks
  <2> QED BY <1>1, <1>2, <2>1, <2>2, <2>4, <2>5 DEF Suspended
<1>3. CASE ~Suspends(m, cur)
    BY <1>1, <1>3 DEF MakeClientGrabPervious, Masks, NotSuspended
<1> QED BY <1>2, <1>3

LEMMA ExecuteHeard ==
    ASSUME Steady, IInv, GrabInv, QueueInv, HeardInv, AttendedInv, Execute
    PROVE  HeardInv'
<1> USE DEF slotVars, grabVars, schedVars
<1> DEFINE fd == clients[cur].fd
<1>1. /\ pc = "execute" /\ InTurn /\ InRound
      /\ cur \in Live /\ cur \in Clients /\ fd \in Fd
      /\ m \in Masks /\ Nested(m) /\ TurnsHeard /\ ready \subseteq Clients
      /\ clients \in [Clients -> ClientRec]
    BY InRequest, Served, GrabTypes DEF HeardInv
<1>2. fd \in m.all BY <1>1 DEF TurnsHeard
<1>3. \A d \in ready \cap Live : clients[d].fd # fd
  <2>1. cur \notin ready BY <1>1 DEF IInv, Serving
  <2> QED BY <1>1, <2>1, KnownFd DEF IInv
<1>4. ASSUME UNCHANGED <<ready, cur>>,
             \A d \in Clients : clients'[d].fd = clients[d].fd
      PROVE  /\ Live' = Live
             /\ \A d \in Live' : d \in Live /\ clients'[d].fd = clients[d].fd
    BY <1>4 DEF Live
<1>5. ASSUME UNCHANGED <<m, grabState, ready, cur>>,
             \A d \in Clients : clients'[d].fd = clients[d].fd
      PROVE  HeardInv'
  <2>1. TurnsHeard'
      BY <1>1, <1>2, <1>4, <1>5, TurnsHeardKept DEF RoundHeard, Hears
  <2> QED BY <1>1, <1>5, <2>1 DEF HeardInv
<1>6. CASE SetUp \/ Other \/ KillTemporary
  <2>1. \A d \in Clients : clients'[d].fd = clients[d].fd
    <3>1. CASE SetUp BY <1>1, <3>1 DEF SetUp, ClientRec
    <3>2. CASE Other BY <3>2 DEF Other
    <3>3. CASE KillTemporary BY <3>3, KillTemporaryKeepsData DEF IInv
    <3> QED BY <1>6, <3>1, <3>2, <3>3
  <2> QED BY <1>5, <1>6, <2>1 DEF SetUp, Other, KillTemporary
<1>7. ASSUME NEW mode \in CloseDownModes, ProcChangeCloseDownMode(mode)
      PROVE  HeardInv'
  <2>1. \A d \in Clients : clients'[d].fd = clients[d].fd
      BY <1>1, <1>7 DEF ProcChangeCloseDownMode, ClientRec
  <2> QED BY <1>5, <1>7, <2>1 DEF ProcChangeCloseDownMode
<1>8. CASE ProcGrabServer
  <2>1. /\ m' = OnlyListenToOneClient(m, cur, fd)
        /\ grabState' = "GrabKickout" /\ UNCHANGED <<ready, cur>>
      BY <1>8 DEF ProcGrabServer
  <2>2. \A d \in Clients : clients'[d].fd = clients[d].fd
      BY <1>1, <1>8 DEF ProcGrabServer, ClientRec
  <2>3. /\ Nested(m') /\ fd \in m'.all
        /\ \A e : Hears(m, e) => Hears(m', e)
      BY <1>1, <1>2, <2>1, OnlyListenHears
  <2>4. \A d \in Live' : RoundHeard(d) => RoundHeard(d)'
      BY <1>4, <2>1, <2>2, <2>3 DEF RoundHeard
  <2>5. /\ cur \in Live => clients'[cur].fd \in m'.all
        /\ \A d \in Live' : d \in Live /\ clients'[d].fd = clients[d].fd
      BY <1>1, <1>4, <2>1, <2>2, <2>3
  <2>6. TurnsHeard' BY <1>1, <2>1, <2>4, <2>5, TurnsHeardKept
  <2> QED BY <2>3, <2>6 DEF HeardInv
<1>9. ASSUME NEW s \in Masks, Nested(s), fd \in s.all, m' = IgnoreClient(s, fd),
             s.grab = m.grab, s.savedAll = m.savedAll, s.all = m.all,
             UNCHANGED <<grabState, ready, cur>>, yield' = TRUE, pc' # "execute",
             \A d \in Clients : clients'[d].fd = clients[d].fd
      PROVE  HeardInv'
  <2>1. /\ Nested(m') /\ m'.grab = m.grab /\ m'.savedAll = m.savedAll
        /\ \A e : e # fd => (e \in m'.all <=> e \in m.all)
      BY <1>1, <1>9, IgnoreHears
  <2>2. \A d \in ready \cap Live' : RoundHeard(d) => RoundHeard(d)'
      BY <1>3, <1>4, <1>9, <2>1 DEF RoundHeard, Hears
  <2>3. ~InTurn' BY <1>9 DEF InTurn
  <2>4. TurnsHeard' BY <1>1, <1>4, <1>9, <2>2, <2>3, TurnsHeardKept
  <2> QED BY <2>1, <2>4 DEF HeardInv
<1>10. Returned => pc' # "execute" BY DEF Returned
<1>11. CASE ProcGrabServerWaits
  <2> DEFINE s == ResetCurrentRequest(fd)
  <2>1. /\ s \in Masks /\ Nested(s) /\ fd \in s.all /\ s.grab = m.grab
        /\ s.savedAll = m.savedAll /\ s.all = m.all
      BY <1>1, <1>2 DEF ResetCurrentRequest, Masks, Nested
  <2>2. \A d \in Clients : clients'[d].fd = clients[d].fd
      BY <1>1, <1>11 DEF ProcGrabServerWaits, ClientRec
  <2>3. /\ m' = IgnoreClient(s, fd) /\ yield' = TRUE /\ Returned
        /\ UNCHANGED <<grabState, ready, cur>>
      BY <1>11 DEF ProcGrabServerWaits
  <2> HIDE DEF s
  <2> QED BY <1>9, <1>10, <2>1, <2>2, <2>3
<1>12. CASE ProcUngrabServer
  <2>1. PICK w \in Clients \cup {0} :
            IsFirstWaiter(w) /\ grabState' = "GrabNone" /\ m' = Ungrabbed(w)
      BY <1>12 DEF ProcUngrabServer
  <2>2. /\ Nested(m')
        /\ \A d \in Live : IF d = w THEN WokenAt(m, m', clients[d].fd)
                           ELSE OpenedAt(m, m', clients[d].fd)
      BY <1>1, <2>1, UngrabHears
  <2>3. UNCHANGED <<clients, ready, cur>> BY <1>12 DEF ProcUngrabServer
  <2>4. \A d \in Live : Hears(m, clients[d].fd) => clients[d].fd \in m'.all
      BY <2>2 DEF WokenAt, OpenedAt
  <2>5. \A d \in Live' : RoundHeard(d) => RoundHeard(d)'
      BY <1>4, <2>3, <2>4 DEF RoundHeard, Hears
  <2>6. fd \in m'.all BY <1>1, <1>2, <2>4 DEF Hears
  <2>7. TurnsHeard' BY <1>1, <1>4, <2>3, <2>5, <2>6, TurnsHeardKept
  <2> QED BY <2>2, <2>7 DEF HeardInv
<1>13. CASE GrabControlImpervious \/ GrabControlPervious
  <2>1. UNCHANGED <<clients, grabState, ready, cur>> /\ Returned
      BY <1>13 DEF GrabControlImpervious, GrabControlPervious
  <2>2. CASE /\ m'.grab = m.grab /\ m'.savedAll = m.savedAll
             /\ NotSuspended
    <3>1. TurnsHeard'
        BY <1>1, <1>2, <1>4, <2>1, <2>2, TurnsHeardKept DEF RoundHeard, Hears, NotSuspended
    <3> QED BY <1>1, <2>2, <3>1 DEF HeardInv, Nested, NotSuspended
  <2>3. CASE /\ m'.grab = m.grab /\ m'.savedAll = m.savedAll
             /\ Suspended(fd)
    <3>1. Nested(m') BY <1>1, <2>3 DEF Nested, Suspended
    <3>2. \A d \in ready \cap Live' : RoundHeard(d) => RoundHeard(d)'
        BY <1>3, <1>4, <2>1, <2>3 DEF RoundHeard, Hears, Suspended
    <3>3. ~InTurn' BY <1>10, <2>1, <2>3 DEF Suspended, InTurn
    <3>4. TurnsHeard' BY <1>1, <1>4, <2>1, <3>2, <3>3, TurnsHeardKept
    <3> QED BY <3>1, <3>4 DEF HeardInv
  <2>4. GrabControlImpervious =>
            m'.grab = m.grab /\ m'.savedAll = m.savedAll /\ NotSuspended
      BY <1>1 DEF GrabControlImpervious, MakeClientGrabImpervious, Masks, NotSuspended
  <2> QED BY <1>13, <2>2, <2>3, <2>4, PerviousHears
<1>14. CASE Sleep
  <2>1. \A d \in Clients : clients'[d].fd = clients[d].fd
      BY <1>1, <1>14 DEF Sleep, ClientRec
  <2> QED BY <1>1, <1>2, <1>9, <1>10, <1>14, <2>1 DEF Sleep
<1>15. ASSUME NEW c \in Clients, ProcKillClient(c)
       PROVE  HeardInv'
  <2>1. /\ CloseDownClient(c, clients[c].mode) /\ UNCHANGED <<ready, cur>>
        /\ yield' = Yields(c) /\ pc' \in {"run", "close"}
      BY <1>15 DEF ProcKillClient
  <2>2. CASE ~InTurn' BY <1>1, <2>1, <2>2, CloseHeard
  <2>3. CASE InTurn'
    <3>1. /\ clients[c].mode \in CloseDownModes
          /\ clients[c].state = "Initial" => clients[c].mode = "DestroyAll"
        BY DEF IInv, DataInv, DataTypeOK, ClientRec, Slots
    <3>2. /\ Nested(m')
          /\ EndsNoGrab(c) \/ EndsGrab(c)
          /\ \A d \in Live' : d \in Live /\ d # c /\ clients'[d] = clients[d]
        BY <1>1, <2>1, <3>1, CloseEnds
    <3>3. \A d \in Live' :
            /\ RoundHeard(d) => RoundHeard(d)'
            /\ clients[d].fd \in m.all => clients[d].fd \in m'.all
        BY <3>2, CloseRoundHeard
    <3>4. cur \in Live' => clients'[cur].fd \in m'.all BY <1>2, <3>2, <3>3
    <3>5. cur \in Live'
      <4>1. cur # c BY <2>1, <2>3 DEF Yields, InTurn
      <4> QED BY <1>1, <2>1, <4>1, CloseInMode DEF IInv
    <3>6. \A d \in Live' : d \in Live /\ clients'[d].fd = clients[d].fd BY <3>2
    <3>7. TurnsHeard' BY <1>1, <2>1, <3>3, <3>4, <3>5, <3>6, TurnsHeardKept
    <3> QED BY <3>2, <3>7 DEF HeardInv
  <2> QED BY <2>2, <2>3
<1> QED BY <1>6, <1>7, <1>8, <1>11, <1>12, <1>13, <1>14, <1>15 DEF Execute

-----------------------------------------------------------------------------
(* Who waits and who sleeps.                                               *)

(* Nobody falls asleep, and only those asleep get an answer.               *)
LEMMA QueuesKept ==
    ASSUME \A c \in Clients : clients'[c].asleep => clients[c].asleep,
           \A c \in workQueue' \ {0} : clients'[c].asleep,
           grabWaiters' \subseteq grabWaiters,
           "Impervious" \notin Kinds => HoldsInv',
           QueueInv
    PROVE  QueueInv'
    BY DEF QueueInv

LEMMA CloseQueues ==
    ASSUME IInv, QueueInv, Nested(m), "Impervious" \notin Kinds => HoldsInv',
           NEW c \in Clients, NEW mode \in CloseDownModes,
           clients[c].state = "Initial" => mode = "DestroyAll",
           CloseDownClient(c, mode)
    PROVE  QueueInv'
<1>1. /\ workQueue' = workQueue \ {c}
      /\ ~clients'[c].asleep
      /\ \A d \in Clients \ {c} : clients'[d] = clients[d]
      /\ EndsNoGrab(c) \/ EndsGrab(c)
    BY CloseEnds
<1>2. grabWaiters' \subseteq grabWaiters BY <1>1 DEF EndsNoGrab, EndsGrab
<1>3. \A d \in workQueue \ {0} : d \in Clients BY DEF IInv, DataInv, Queues, Live
<1>4. \A d \in workQueue' \ {0} : clients'[d].asleep BY <1>1, <1>3 DEF QueueInv
<1> QED BY <1>1, <1>2, <1>4, QueuesKept

LEMMA StepQueues ==
    ASSUME IInv, GrabInv, Nested(m), QueueInv, Next
    PROVE  QueueInv'
<1> USE DEF slotVars, grabVars, schedVars
<1>1. "Impervious" \notin Kinds => HoldsInv'
    BY StepImplements DEF QueueInv, Implements
<1>2. clients \in [Clients -> ClientRec] BY GrabTypes
<1>3. ASSUME NEW c \in Clients
      PROVE  /\ clients[c].mode \in CloseDownModes
             /\ clients[c].state = "Initial" => clients[c].mode = "DestroyAll"
    BY <1>2 DEF IInv, DataInv, ClientRec, Slots
<1>4. ASSUME UNCHANGED <<grabWaiters, workQueue>>,
             \A d \in Clients : clients'[d].asleep = clients[d].asleep
      PROVE  QueueInv'
  <2>1. \A d \in workQueue \ {0} : d \in Clients BY DEF IInv, DataInv, Queues, Live
  <2> QED BY <1>1, <1>4, <2>1, QueuesKept DEF QueueInv
<1>5. ASSUME NEW c \in Clients, CloseDownClient(c, clients[c].mode)
      PROVE  QueueInv'
    BY <1>1, <1>3, <1>5, CloseQueues
<1>6. CASE Environment
  <2>1. PICK c \in Clients : Send(c) \/ HangUp(c) \/ WriteFails(c)
      BY <1>6 DEF Environment
  <2>2. UNCHANGED <<grabWaiters, workQueue>>
      BY <2>1 DEF Send, HangUp, WriteFails
  <2>3. \A d \in Clients : clients'[d].asleep = clients[d].asleep
    <3>1. CASE Send(c) BY <1>2, <3>1 DEF Send, ClientRec
    <3>2. CASE HangUp(c) BY <1>2, <3>2 DEF HangUp, ClientRec
    <3>3. CASE WriteFails(c) BY <1>2, <3>3 DEF WriteFails, ClientRec
    <3> QED BY <2>1, <3>1, <3>2, <3>3
  <2> QED BY <1>4, <2>2, <2>3
<1>7. CASE Wait
  <2>1. CASE WaitStops \/ ReturnBuffered \/ SelectFails
      BY <1>4, <2>1 DEF WaitStops, ReturnBuffered, SelectFails
  <2>2. CASE WorkEstablish
    <3>1. UNCHANGED <<clients, grabWaiters>> /\ workQueue' \subseteq workQueue
        BY <2>2 DEF WorkEstablish
    <3> QED BY <1>1, <3>1, QueuesKept DEF QueueInv
  <2>3. ASSUME NEW c \in Clients, WorkWakeup(c) PROVE QueueInv'
    <3>1. /\ workQueue' = workQueue \ {c} /\ UNCHANGED grabWaiters
          /\ clients' = [clients EXCEPT ![c].asleep = FALSE]
        BY <2>3 DEF WorkWakeup
    <3>2. \A d \in Clients : clients'[d].asleep = (clients[d].asleep /\ d # c)
        BY <1>2, <3>1 DEF ClientRec
    <3>3. \A d \in workQueue \ {0} : d \in Clients BY DEF IInv, DataInv, Queues, Live
    <3> QED BY <1>1, <3>1, <3>2, <3>3, QueuesKept DEF QueueInv
  <2>4. CASE CheckConnections
    <3>1. CASE \E fd \in checking \cap m.all : IsBad(fd)
      <4>1. PICK fd \in checking \cap m.all : CloseDownClient(conn[fd], clients[conn[fd]].mode)
          BY <2>4, <3>1 DEF CheckConnections
      <4>2. conn[fd] \in Clients
          BY DEF IInv, DataInv, DataTypeOK, Within, Known
      <4> QED BY <1>5, <4>1, <4>2
    <3>2. CASE ~ \E fd \in checking \cap m.all : IsBad(fd)
        BY <1>4, <2>4, <3>2 DEF CheckConnections
    <3> QED BY <3>1, <3>2
  <2>5. ASSUME NEW newConnection \in BOOLEAN,
               NEW answered \in SUBSET {c \in Clients : clients[c].asleep},
               Select(newConnection, answered)
        PROVE  QueueInv'
    <3>1. /\ UNCHANGED <<clients, grabWaiters>>
          /\ workQueue' = answered \cup (IF newConnection THEN {0} ELSE {})
        BY <2>5 DEF Select
    <3>2. \A d \in workQueue' \ {0} : clients'[d].asleep BY <3>1
    <3> QED BY <1>1, <3>1, <3>2, QueuesKept
  <2> QED BY <1>7, <2>1, <2>2, <2>3, <2>4, <2>5 DEF Wait
<1>8. CASE Establish
  <2>1. CASE StragglersDone \/ AcceptFails
      BY <1>4, <2>1 DEF StragglersDone, AcceptFails
  <2>2. ASSUME NEW c \in Clients, KillStraggler(c) PROVE QueueInv'
      BY <1>5, <2>2 DEF KillStraggler
  <2>3. ASSUME NEW fd \in Fd, AcceptReused(fd) PROVE QueueInv'
    <3>1. conn[fd] \in Clients BY <2>3 DEF AcceptReused, IInv, DataInv, DataTypeOK
    <3> QED BY <1>5, <2>3, <3>1 DEF AcceptReused
  <2>4. ASSUME NEW fd \in Fd, Accept(fd) PROVE QueueInv'
    <3>1. /\ UNCHANGED <<grabWaiters, workQueue>>
          /\ \A d \in Clients :
                clients'[d] = IF d = nextFreeClientID
                              THEN [NoClient EXCEPT !.state = "Initial", !.fd = fd, !.open = TRUE]
                              ELSE clients[d]
        BY <1>2, <2>4 DEF Accept
    <3>2. \A d \in Clients : IF d = nextFreeClientID THEN ~clients'[d].asleep
                             ELSE clients'[d] = clients[d]
        BY <3>1 DEF NoClient
    <3>3. \A d \in workQueue \ {0} : d \in Live
        BY DEF IInv, DataInv, Queues
    <3>4. nextFreeClientID \notin Live
        BY <2>4, ClientsAssumption
           DEF Accept, IInv, DataInv, DataTypeOK, LeastFreeSlot, LeastAbove, Slots, Live
    <3>5. \A d \in workQueue' \ {0} : clients'[d].asleep
        BY <3>1, <3>2, <3>3, <3>4 DEF QueueInv, Live
    <3>6. \A d \in Clients : clients'[d].asleep => clients[d].asleep BY <3>2
    <3> QED BY <1>1, <3>1, <3>5, <3>6, QueuesKept
  <2> QED BY <1>8, <2>1, <2>2, <2>3, <2>4 DEF Establish
<1>9. CASE Serve
  <2>1. CASE RoundDone \/ TurnDone \/ ReadNothing \/ ReadFails
      BY <1>4, <2>1 DEF RoundDone, TurnDone, ReadNothing, ReadFails
  <2>2. ASSUME NEW c \in Clients, NextClient(c) PROVE QueueInv'
      BY <1>4, <2>2 DEF NextClient
  <2>3. CASE ReadRequest
    <3>1. \A d \in Clients : clients'[d].asleep = clients[d].asleep
        BY <1>2, <2>3 DEF ReadRequest, ClientRec
    <3> QED BY <1>4, <2>3, <3>1 DEF ReadRequest
  <2>4. CASE Close
    <3>1. cur \in Clients BY <2>4 DEF IInv, Serving, Live, Close
    <3> QED BY <1>5, <2>4, <3>1 DEF Close
  <2> QED BY <1>9, <2>1, <2>2, <2>3, <2>4 DEF Serve
<1>10. CASE Restart
  <2>1. CASE Reset BY <1>4, <2>1 DEF Reset
  <2>2. ASSUME NEW c \in Clients, KillAllClients(c) PROVE QueueInv'
      BY <1>1, <2>2, CloseQueues DEF KillAllClients, CloseDownModes
  <2> QED BY <1>10, <2>1, <2>2 DEF Restart
<1>11. CASE Execute
  <2>1. pc = "execute" /\ InTurn /\ cur \in Live /\ cur \in Clients
      BY <1>11, InRequest, Served
  <2>2. CASE SetUp
    <3>1. \A d \in Clients : clients'[d].asleep = clients[d].asleep
        BY <1>2, <2>1, <2>2 DEF SetUp, ClientRec
    <3> QED BY <1>4, <2>2, <3>1 DEF SetUp
  <2>3. CASE Other \/ GrabControlImpervious \/ GrabControlPervious
      BY <1>4, <2>3 DEF Other, GrabControlImpervious, GrabControlPervious
  <2>4. CASE ProcGrabServer
    <3>1. \A d \in Clients : clients'[d].asleep = clients[d].asleep
        BY <1>2, <2>1, <2>4 DEF ProcGrabServer, ClientRec
    <3> QED BY <1>4, <2>4, <3>1 DEF ProcGrabServer
  <2>5. CASE ProcGrabServerWaits
    <3>1. "Impervious" \in Kinds
      <4>1. m.grab # 0 /\ cur # grabClient
          BY <2>5 DEF ProcGrabServerWaits, GrabbedByOther, GrabInv, GrabSets
      <4> QED BY <2>1, <4>1, GrabberServed, QueueImpervious
    <3>2. \A d \in Clients : clients'[d].asleep = clients[d].asleep
        BY <1>2, <2>1, <2>5 DEF ProcGrabServerWaits, ClientRec
    <3>3. UNCHANGED workQueue BY <2>5 DEF ProcGrabServerWaits
    <3>4. \A d \in workQueue \ {0} : d \in Clients BY DEF IInv, DataInv, Queues, Live
    <3> QED BY <3>1, <3>2, <3>3, <3>4 DEF QueueInv
  <2>6. CASE ProcUngrabServer
    <3>1. UNCHANGED <<clients, workQueue>> /\ grabWaiters' \subseteq grabWaiters
        BY <2>6 DEF ProcUngrabServer
    <3> QED BY <1>1, <3>1, QueuesKept DEF QueueInv
  <2>7. CASE Sleep
    <3>1. /\ "Sleep" \in Kinds /\ UNCHANGED <<grabWaiters, workQueue>>
          /\ clients' = [clients EXCEPT ![cur].asleep = TRUE]
        BY <2>7 DEF Sleep, Executes
    <3>2. \A d \in Clients : clients'[d].asleep = (clients[d].asleep \/ d = cur)
        BY <1>2, <2>1, <3>1 DEF ClientRec
    <3>3. \A d \in workQueue \ {0} : d \in Clients BY DEF IInv, DataInv, Queues, Live
    <3> QED BY <1>1, <3>1, <3>2, <3>3 DEF QueueInv
  <2>8. ASSUME NEW c \in Clients, ProcKillClient(c) PROVE QueueInv'
      BY <1>5, <2>8 DEF ProcKillClient
  <2>9. CASE KillTemporary
    <3>1. \A d \in Clients : clients'[d] = clients[d]
                              \/ (clients[d].state = "Retained" /\ clients'[d] = NoClient)
        BY <1>2, <2>9 DEF KillTemporary
    <3>2. \A d \in Clients : clients[d].state = "Retained" => ~clients[d].asleep
        BY DEF IInv, DataInv, Slots
    <3>3. NoClient.asleep = FALSE BY DEF NoClient
    <3>4. \A d \in Clients : clients[d].asleep \in BOOLEAN BY <1>2 DEF ClientRec
    <3>5. \A d \in Clients : clients'[d].asleep = clients[d].asleep
        BY <3>1, <3>2, <3>3, <3>4
    <3> QED BY <1>4, <2>9, <3>5 DEF KillTemporary
  <2>10. ASSUME NEW mode \in CloseDownModes, ProcChangeCloseDownMode(mode)
         PROVE  QueueInv'
    <3>1. \A d \in Clients : clients'[d].asleep = clients[d].asleep
        BY <1>2, <2>1, <2>10 DEF ProcChangeCloseDownMode, ClientRec
    <3> QED BY <1>4, <2>10, <3>1 DEF ProcChangeCloseDownMode
  <2> QED BY <1>11, <2>2, <2>3, <2>4, <2>5, <2>6, <2>7, <2>8, <2>9, <2>10 DEF Execute
<1> QED BY <1>6, <1>7, <1>8, <1>9, <1>10, <1>11 DEF Next, Server

-----------------------------------------------------------------------------
(* Each connected client is listened to, sleeps unheard, and has its input *)
(* remembered.                                                             *)

SlotAt(d) ==
    /\ clients'[d].fd = clients[d].fd
    /\ clients'[d].asleep = clients[d].asleep
    /\ clients'[d].buffered = clients[d].buffered

LEMMA AttendedKept ==
    ASSUME NEW d, Attended(d), SlotAt(d), SameAt(m, m', clients[d].fd),
           m'.grab = m.grab, m'.grab # 0 => UNCHANGED grabClient,
           d \in grabWaiters' <=> d \in grabWaiters
    PROVE  Attended(d)'
    BY DEF Attended, SlotAt, SameAt, Ignored, Hears, KnownToAll, SleepsUnheard, Recalled,
           Remembers

(* A grab has ended, which was not that of a sleeping client.              *)
LEMMA AttendedOpened ==
    ASSUME NEW d, Attended(d), SlotAt(d), OpenedAt(m, m', clients[d].fd), Nested(m),
           m'.grab = 0, d \in grabWaiters' <=> d \in grabWaiters,
           "Impervious" \notin Kinds =>
               (m.grab # 0 /\ clients[d].asleep => grabClient # d)
    PROVE  Attended(d)'
<1>1. ~Ignored(d)' => Hears(m', clients'[d].fd)
    BY DEF Attended, SlotAt, OpenedAt, Ignored, Hears
<1>2. "Impervious" \notin Kinds => SleepsUnheard(d)'
    BY DEF Attended, SlotAt, OpenedAt, Hears, SleepsUnheard
<1>3. ASSUME SleepersPervious PROVE Recalled(d)'
  <2>1. Recalled(d) BY <1>3 DEF Attended
  <2>2. clients[d].buffered > 0 => Remembers(d)'
    <3>1. CASE Ignored(d)
        BY <2>1, <3>1 DEF Recalled, Remembers, SlotAt, OpenedAt, Ignored
    <3>2. CASE ~Ignored(d)
        BY <2>1, <3>2 DEF Recalled, Remembers, SlotAt, OpenedAt, Ignored, Attended
    <3> QED BY <3>1, <3>2
  <2> QED BY <2>1, <2>2 DEF Recalled, SlotAt, OpenedAt
<1>4. "Sleep" \notin Kinds => KnownToAll(d)'
    BY DEF Attended, SlotAt, OpenedAt, KnownToAll, Hears
<1> QED BY <1>1, <1>2, <1>3, <1>4 DEF Attended

(* UngrabServer has woken the waiter.                                      *)
LEMMA AttendedWoken ==
    ASSUME QueueInv, NEW d \in Clients, Attended(d), SlotAt(d),
           WokenAt(m, m', clients[d].fd), m'.grab = 0,
           d \in grabWaiters, d \notin grabWaiters'
    PROVE  Attended(d)'
<1>1. "Impervious" \in Kinds BY DEF QueueInv
<1>2. SleepersPervious => ~clients[d].asleep BY <1>1 DEF QueueInv, SleepersPervious
<1>3. SleepersPervious => Recalled(d)'
    BY <1>2 DEF Attended, SlotAt, WokenAt, Recalled, Remembers, Ignored
<1> QED BY <1>1, <1>3 DEF Attended, SlotAt, WokenAt, Hears, KnownToAll

LEMMA CloseAttended ==
    ASSUME IInv, QueueInv, Nested(m), AttendedInv,
           NEW c \in Clients, NEW mode \in CloseDownModes,
           clients[c].state = "Initial" => mode = "DestroyAll",
           CloseDownClient(c, mode)
    PROVE  AttendedInv'
<1>1. /\ UNCHANGED grabClient
      /\ \A d \in Live' : d \in Live /\ d # c /\ clients'[d] = clients[d]
      /\ EndsNoGrab(c) \/ EndsGrab(c)
    BY CloseEnds
<1> SUFFICES ASSUME NEW d \in Live' PROVE Attended(d)'
    BY DEF AttendedInv
<1>2. /\ Attended(d) /\ SlotAt(d) /\ d # c /\ d \in Clients
    BY <1>1 DEF AttendedInv, SlotAt, Live
<1>3. CASE EndsNoGrab(c)
    BY <1>1, <1>2, <1>3, AttendedKept DEF EndsNoGrab
<1>4. CASE EndsGrab(c)
  <2>1. PICK w \in Clients \cup {0} :
            /\ w = 0 \/ w \in grabWaiters
            /\ grabWaiters' = grabWaiters \ {w, c}
            /\ IF d = w THEN WokenAt(m, m', clients[d].fd)
               ELSE OpenedAt(m, m', clients[d].fd)
      BY <1>4 DEF EndsGrab
  <2>2. d # 0 BY <1>2, ClientsAssumption DEF Clients
  <2>3. CASE d = w
      BY <1>2, <1>4, <2>1, <2>2, <2>3, AttendedWoken DEF EndsGrab
  <2>4. CASE d # w
    <3>1. d \in grabWaiters' <=> d \in grabWaiters BY <1>2, <2>1, <2>4
    <3>2. m'.grab = 0 /\ grabClient # d BY <1>2, <1>4 DEF EndsGrab
    <3> QED BY <1>2, <2>1, <2>4, <3>1, <3>2, AttendedOpened
  <2> QED BY <2>3, <2>4
<1> QED BY <1>1, <1>3, <1>4

LEMMA CloseModeAttended ==
    ASSUME IInv, QueueInv, Nested(m), AttendedInv,
           NEW c \in Clients, CloseDownClient(c, clients[c].mode)
    PROVE  AttendedInv'
<1>1. /\ clients[c].mode \in CloseDownModes
      /\ clients[c].state = "Initial" => clients[c].mode = "DestroyAll"
    BY DEF IInv, DataInv, DataTypeOK, ClientRec, Slots
<1> QED BY <1>1, CloseAttended

(* A step that changes neither sets nor queue, nor what is buffered.       *)
LEMMA AllAttendedKept ==
    ASSUME AttendedInv, UNCHANGED <<m, grabClient, grabWaiters>>,
           \A d \in Live' : d \in Live /\ SlotAt(d)
    PROVE  AttendedInv'
<1> SUFFICES ASSUME NEW d \in Live' PROVE Attended(d)'
    BY DEF AttendedInv
<1>1. d \in Live /\ Attended(d) /\ SlotAt(d) BY DEF AttendedInv
<1>2. SameAt(m, m', clients[d].fd) BY DEF SameAt
<1> QED BY <1>1, <1>2, AttendedKept

(* A step of one client: the others are as they were.                      *)
LEMMA OthersAttended ==
    ASSUME AttendedInv, NEW c \in Live', Attended(c)',
           m'.grab = m.grab, m'.grab # 0 => UNCHANGED grabClient,
           \A d \in Live' \ {c} :
               /\ d \in Live /\ SlotAt(d) /\ SameAt(m, m', clients[d].fd)
               /\ d \in grabWaiters' <=> d \in grabWaiters
    PROVE  AttendedInv'
<1> SUFFICES ASSUME NEW d \in Live', d # c PROVE Attended(d)'
    BY DEF AttendedInv
<1>1. /\ d \in Live /\ Attended(d) /\ SlotAt(d) /\ SameAt(m, m', clients[d].fd)
      /\ d \in grabWaiters' <=> d \in grabWaiters
    BY DEF AttendedInv
<1> QED BY <1>1, AttendedKept

LEMMA EnvironmentAttended ==
    ASSUME IInv, AttendedInv, Environment
    PROVE  AttendedInv'
<1>1. PICK c \in Clients : Send(c) \/ HangUp(c) \/ WriteFails(c) BY DEF Environment
<1>2. UNCHANGED <<m, grabVars>> BY <1>1 DEF Send, HangUp, WriteFails
<1>3. \A d \in Clients : SlotAt(d)
  <2>1. CASE Send(c) BY <2>1, GrabTypes DEF Send, ClientRec, SlotAt
  <2>2. CASE HangUp(c) BY <2>2, GrabTypes DEF HangUp, ClientRec, SlotAt
  <2>3. CASE WriteFails(c) BY <2>3, GrabTypes DEF WriteFails, ClientRec, SlotAt
  <2> QED BY <1>1, <2>1, <2>2, <2>3
<1>4. \A d \in Live' : d \in Live /\ SlotAt(d) BY <1>3 DEF Live, SlotAt
<1>5. UNCHANGED <<m, grabClient, grabWaiters>> BY <1>2 DEF grabVars
<1> QED BY <1>4, <1>5, AllAttendedKept

LEMMA WaitAttended ==
    ASSUME IInv, QueueInv, Nested(m), AttendedInv, Wait
    PROVE  AttendedInv'
<1> USE DEF slotVars, grabVars, schedVars
<1>1. ASSUME UNCHANGED <<clients, m, grabClient, grabWaiters>>
      PROVE  AttendedInv'
  <2>1. \A d \in Live' : d \in Live /\ SlotAt(d) BY <1>1 DEF SlotAt, Live
  <2> QED BY <1>1, <2>1, AllAttendedKept
<1>2. CASE WorkEstablish \/ WaitStops \/ SelectFails \/ ReturnBuffered
    BY <1>1, <1>2 DEF WorkEstablish, WaitStops, SelectFails, ReturnBuffered
<1>3. ASSUME NEW newConnection \in BOOLEAN,
             NEW answered \in SUBSET {c \in Clients : clients[c].asleep},
             Select(newConnection, answered)
      PROVE  AttendedInv'
    BY <1>1, <1>3 DEF Select
<1>4. CASE CheckConnections
  <2>1. CASE \E fd \in checking \cap m.all : IsBad(fd)
    <3>1. PICK fd \in checking \cap m.all : CloseDownClient(conn[fd], clients[conn[fd]].mode)
        BY <1>4, <2>1 DEF CheckConnections
    <3>2. conn[fd] \in Clients
        BY DEF IInv, DataInv, DataTypeOK, Within, Known
    <3> QED BY <3>1, <3>2, CloseModeAttended
  <2>2. CASE ~ \E fd \in checking \cap m.all : IsBad(fd)
      BY <1>1, <1>4, <2>2 DEF CheckConnections
  <2> QED BY <2>1, <2>2
<1>5. ASSUME NEW c \in Clients, WorkWakeup(c)
      PROVE  AttendedInv'
  <2> DEFINE fd == clients[c].fd
  <2>1. c \in Live /\ Attended(c) /\ c \in workQueue \ {0}
      BY <1>5, ClientsAssumption DEF WorkWakeup, IInv, DataInv, Queues, Clients, AttendedInv
  <2>2. fd \in Fd /\ m \in Masks /\ clients \in [Clients -> ClientRec]
      BY <2>1, KnownFd, GrabTypes DEF IInv
  <2>3. clients[c].asleep BY <2>1 DEF QueueInv
  <2>4. SleepersPervious => "Impervious" \notin Kinds /\ grabWaiters = {}
      BY <2>3 DEF QueueInv, SleepersPervious
  <2>5. /\ clients' = [clients EXCEPT ![c].asleep = FALSE]
        /\ m' = AttendClient(m, c, fd)
        /\ UNCHANGED <<grabClient, grabWaiters>>
      BY <1>5 DEF WorkWakeup
  <2>6. /\ \A d \in Clients \ {c} : SlotAt(d)
        /\ \A d \in Clients : clients'[d].fd = clients[d].fd
        /\ clients'[c].fd = fd /\ ~clients'[c].asleep
        /\ clients'[c].buffered = clients[c].buffered
      BY <2>2, <2>5 DEF SlotAt, ClientRec
  <2>7. Live' = Live BY <2>6 DEF Live
  <2>8. /\ m'.grab = m.grab /\ m'.ignored = m.ignored /\ Hears(m', fd)
        /\ m.grab \in {0, c} => fd \in m'.all
        /\ fd \in m.ignored =>
               IF fd \in m'.all
               THEN fd \in m'.cwi \/ (m.grab \notin {0, c} /\ fd \in m.all)
               ELSE fd \in m'.savedCwi
        /\ \A e : e # fd =>
               /\ e \in m'.all <=> e \in m.all
               /\ e \in m'.cwi <=> e \in m.cwi
               /\ e \in m'.savedAll <=> e \in m.savedAll
               /\ e \in m'.savedCwi <=> e \in m.savedCwi
      BY <2>2, <2>5, AttendHears
  <2>9. SleepersPervious => Recalled(c)'
    <3> SUFFICES ASSUME SleepersPervious PROVE Recalled(c)' OBVIOUS
    <3>1. fd \notin m.all BY <2>1, <2>3, <2>4 DEF Attended, SleepsUnheard
    <3>2. ~Ignored(c)' BY <2>4, <2>5, <2>6 DEF Ignored
    <3>3. clients[c].buffered > 0 => fd \in m.ignored
        BY <2>1, <2>3 DEF Attended, Recalled, Remembers, Ignored
    <3>4. clients'[c].buffered > 0 => Remembers(c)'
        BY <2>6, <2>8, <3>1, <3>2, <3>3 DEF Remembers
    <3> QED BY <2>4, <2>5, <3>4 DEF Recalled
  <2>10. Attended(c)' BY <2>3, <2>6, <2>8, <2>9 DEF Attended, SleepsUnheard, QueueInv
  <2>11. \A d \in Live' \ {c} :
            /\ d \in Live /\ SlotAt(d) /\ SameAt(m, m', clients[d].fd)
            /\ d \in grabWaiters' <=> d \in grabWaiters
    <3> SUFFICES ASSUME NEW d \in Live' \ {c}
                 PROVE  SlotAt(d) /\ SameAt(m, m', clients[d].fd)
        BY <2>5, <2>7
    <3>1. clients[d].fd # fd BY <2>1, <2>7, KnownFd DEF IInv
    <3>2. SlotAt(d) BY <2>6, <2>7 DEF Live
    <3> QED BY <2>8, <3>1, <3>2 DEF SameAt
  <2> QED BY <2>1, <2>5, <2>7, <2>8, <2>10, <2>11, OthersAttended
<1> QED BY <1>2, <1>3, <1>4, <1>5 DEF Wait

LEMMA EstablishAttended ==
    ASSUME IInv, QueueInv, Nested(m), AttendedInv, Establish
    PROVE  AttendedInv'
<1> USE DEF slotVars, grabVars, schedVars
<1>1. CASE StragglersDone \/ AcceptFails
  <2>1. UNCHANGED <<clients, m, grabClient, grabWaiters>>
      BY <1>1 DEF StragglersDone, AcceptFails
  <2>2. \A d \in Live' : d \in Live /\ SlotAt(d) BY <2>1 DEF SlotAt, Live
  <2> QED BY <2>1, <2>2, AllAttendedKept
<1>2. ASSUME NEW c \in Clients, KillStraggler(c)
      PROVE  AttendedInv'
    BY <1>2, CloseModeAttended DEF KillStraggler
<1>3. ASSUME NEW fd \in Fd, AcceptReused(fd)
      PROVE  AttendedInv'
  <2>1. conn[fd] \in Clients BY <1>3 DEF AcceptReused, IInv, DataInv, DataTypeOK
  <2> QED BY <1>3, <2>1, CloseModeAttended DEF AcceptReused
<1>4. ASSUME NEW fd \in Fd, Accept(fd)
      PROVE  AttendedInv'
  <2>1. PICK i : i = nextFreeClientID OBVIOUS
  <2> DEFINE new == [NoClient EXCEPT !.state = "Initial", !.fd = fd, !.open = TRUE]
  <2>2. /\ clients' = [clients EXCEPT ![i] = new]
        /\ m' = AddConnection(m, fd) /\ conn[fd] = 0
        /\ UNCHANGED <<grabClient, grabWaiters>>
      BY <1>4, <2>1 DEF Accept
  <2>3. i \in Clients /\ i \notin Live
      BY <1>4, <2>1, ClientsAssumption
         DEF Accept, IInv, DataInv, DataTypeOK, LeastFreeSlot, LeastAbove, Slots, Live,
             Clients
  <2>4. clients'[i] = new /\ \A d \in Clients \ {i} : clients'[d] = clients[d]
      BY <2>2, <2>3, GrabTypes
  <2>5. new.fd = fd /\ ~new.asleep /\ new.buffered = 0 BY DEF NoClient
  <2> HIDE DEF new
  <2>6. clients'[i].fd = fd /\ ~clients'[i].asleep /\ clients'[i].buffered = 0
      BY <2>4, <2>5
  <2>7. fd # 0 BY FdAssumption DEF Fd
  <2>8. i \in Live' BY <2>3, <2>6, <2>7 DEF Live
  <2>9. i \notin grabWaiters BY <2>3 DEF IInv, DataInv, Queues
  <2>10. /\ m'.grab = m.grab /\ m'.ignored = m.ignored /\ Hears(m', fd)
         /\ fd \in IF m'.grab = 0 THEN m'.all ELSE m'.savedAll
         /\ m'.cwi = m.cwi /\ m'.savedCwi = m.savedCwi
         /\ \A e : e # fd => /\ e \in m'.all <=> e \in m.all
                             /\ e \in m'.savedAll <=> e \in m.savedAll
      BY <2>2, GrabTypes, AddHears
  <2>11. Attended(i)'
      BY <2>2, <2>9, <2>10, <2>6 DEF Attended, Ignored, SleepsUnheard, Recalled,
             KnownToAll
  <2>12. ASSUME NEW d \in Live' \ {i}
        PROVE  d \in Live /\ SlotAt(d) /\ SameAt(m, m', clients[d].fd)
    <3>1. clients'[d] = clients[d] /\ d \in Live BY <2>4, <2>12 DEF Live
    <3>2. clients[d].fd # fd
        BY <2>2, <3>1, KnownFd DEF IInv, Known
    <3> QED BY <2>10, <3>1, <3>2 DEF SlotAt, SameAt
  <2> QED BY <2>2, <2>8, <2>10, <2>11, <2>12, OthersAttended
<1> QED BY <1>1, <1>2, <1>3, <1>4 DEF Establish

LEMMA ServeAttended ==
    ASSUME IInv, QueueInv, HeardInv, AttendedInv, Serve
    PROVE  AttendedInv'
<1> USE DEF slotVars, grabVars, schedVars
<1>1. m \in Masks /\ Nested(m) /\ clients \in [Clients -> ClientRec]
    BY GrabTypes DEF HeardInv
<1>2. ASSUME UNCHANGED <<clients, m, grabClient, grabWaiters>>
      PROVE  AttendedInv'
  <2>1. \A d \in Live' : d \in Live /\ SlotAt(d) BY <1>2 DEF SlotAt, Live
  <2> QED BY <1>2, <2>1, AllAttendedKept
<1>3. CASE RoundDone \/ TurnDone \/ ReadFails
    BY <1>2, <1>3 DEF RoundDone, TurnDone, ReadFails
<1>4. ASSUME NEW c \in Clients, NextClient(c)
      PROVE  AttendedInv'
    BY <1>2, <1>4 DEF NextClient
<1>5. CASE Close
  <2>1. cur \in Clients BY <1>5 DEF IInv, Serving, Live, Close
  <2> QED BY <1>1, <1>5, <2>1, CloseModeAttended DEF Close
<1>6. ASSUME NEW c \in Live, c = cur,
             ReadNothing \/ ReadRequest
      PROVE  AttendedInv'
  <2> DEFINE fd == clients[c].fd
  <2>1. /\ c \in Clients /\ fd \in Fd /\ Attended(c)
        /\ \A d \in Live \ {c} : clients[d].fd # fd
      BY KnownFd DEF IInv, Live, AttendedInv
  <2>2. fd \in m.all
      BY <1>6 DEF HeardInv, TurnsHeard, InTurn, ReadNothing, ReadRequest
  <2>3. PICK left \in Int :
            /\ clients'[c].buffered = left /\ clients'[c].fd = fd
            /\ clients'[c].asleep = clients[c].asleep
            /\ \A d \in Clients \ {c} : clients'[d] = clients[d]
            /\ m' = [m EXCEPT !.cwi = With(@, fd, left > 0)]
            /\ UNCHANGED <<grabClient, grabWaiters>>
    <3>1. CASE ReadNothing
      <4>1. /\ clients[c].buffered = 0 /\ m' = [m EXCEPT !.cwi = @ \ {fd}]
            /\ UNCHANGED <<clients, grabClient, grabWaiters>>
          BY <1>6, <3>1 DEF ReadNothing
      <4>2. WITNESS 0 \in Int
      <4> QED BY <4>1 DEF With
    <3>2. CASE ReadRequest
      <4> DEFINE l == (IF FromSocket(clients[c]) THEN clients[c].sent
                       ELSE clients[c].buffered) - 1
      <4>1. l \in Int
          BY <1>1, <2>1, SchedulerAssumption DEF ClientRec
      <4>2. /\ clients' = [clients EXCEPT ![c].buffered = l,
                                ![c].sent = IF FromSocket(clients[c]) THEN 0 ELSE @]
            /\ m' = [m EXCEPT !.cwi = With(@, fd, l > 0)]
            /\ UNCHANGED <<grabClient, grabWaiters>>
          BY <1>6, <3>2 DEF ReadRequest
      <4> HIDE DEF l
      <4>3. /\ clients'[c].buffered = l /\ clients'[c].fd = fd
            /\ clients'[c].asleep = clients[c].asleep
            /\ \A d \in Clients \ {c} : clients'[d] = clients[d]
          BY <1>1, <2>1, <4>2 DEF ClientRec
      <4> QED BY <4>1, <4>2, <4>3
    <3> QED BY <1>6, <3>1, <3>2
  <2>4. /\ m'.grab = m.grab /\ m'.all = m.all /\ m'.ignored = m.ignored
        /\ m'.savedAll = m.savedAll /\ m'.savedCwi = m.savedCwi
        /\ \A e : e # fd => (e \in m'.cwi <=> e \in m.cwi)
        /\ left > 0 => fd \in m'.cwi
      BY <1>1, <2>3 DEF Masks, With
  <2>5. Live' = Live BY <2>1, <2>3 DEF Live
  <2>6. Attended(c)'
    <3>1. ~Ignored(c)' => Hears(m', clients'[c].fd)
        BY <2>2, <2>3, <2>4 DEF Hears
    <3>2. "Impervious" \notin Kinds => SleepsUnheard(c)'
        BY <2>1, <2>3, <2>4 DEF Attended, SleepsUnheard
    <3>3. SleepersPervious => Recalled(c)'
      <4> SUFFICES ASSUME SleepersPervious PROVE Recalled(c)' OBVIOUS
      <4>1. ~clients[c].asleep
          BY <2>1, <2>2 DEF SleepersPervious, QueueInv, Attended, SleepsUnheard
      <4>2. c \in grabWaiters => fd \in m.ignored
          BY <2>1 DEF Attended, Recalled
      <4> QED BY <2>2, <2>3, <2>4, <4>1, <4>2 DEF Recalled, Remembers, Ignored
    <3>4. "Sleep" \notin Kinds => KnownToAll(c)'
        BY <2>1, <2>3, <2>4 DEF Attended, KnownToAll
    <3> QED BY <3>1, <3>2, <3>3, <3>4 DEF Attended
  <2>7. ASSUME NEW d \in Live' \ {c}
        PROVE  d \in Live /\ SlotAt(d) /\ SameAt(m, m', clients[d].fd)
    <3>1. d \in Live /\ clients'[d] = clients[d] /\ clients[d].fd # fd
        BY <2>1, <2>3, <2>5 DEF Live
    <3> QED BY <2>4, <3>1 DEF SlotAt, SameAt
  <2> QED BY <2>3, <2>4, <2>5, <2>6, <2>7, OthersAttended
<1>7. CASE ReadNothing \/ ReadRequest
  <2>1. cur \in Live
      BY <1>7 DEF ReadNothing, ReadRequest, IInv, Serving, Live
  <2> QED BY <1>6, <1>7, <2>1
<1> QED BY <1>3, <1>4, <1>5, <1>7 DEF Serve

LEMMA RestartAttended ==
    ASSUME IInv, QueueInv, Nested(m), AttendedInv, Restart
    PROVE  AttendedInv'
<1>1. CASE Reset
  <2>1. UNCHANGED <<clients, m, grabClient, grabWaiters>>
      BY <1>1 DEF Reset, grabVars
  <2>2. \A d \in Live' : d \in Live /\ SlotAt(d) BY <2>1 DEF SlotAt, Live
  <2> QED BY <2>1, <2>2, AllAttendedKept
<1>2. ASSUME NEW c \in Clients, KillAllClients(c)
      PROVE  AttendedInv'
    BY <1>2, CloseAttended DEF KillAllClients, CloseDownModes
<1> QED BY <1>1, <1>2 DEF Restart

(* The request of a client that is ignored from then on.                   *)
LEMMA IgnoredAttended ==
    ASSUME IInv, AttendedInv, NEW c \in Live, c \in Live',
           NEW s \in Masks, Nested(s), clients[c].fd \in s.all,
           m' = IgnoreClient(s, clients[c].fd), s.grab = m.grab, UNCHANGED grabClient,
           \A e : e # clients[c].fd => SameAt(m, s, e),
           \A d \in Live' \ {c} :
               /\ d \in Live /\ clients'[d] = clients[d]
               /\ d \in grabWaiters' <=> d \in grabWaiters,
           Attended(c)'
    PROVE  AttendedInv'
<1> DEFINE fd == clients[c].fd
<1>1. fd \in Fd BY KnownFd DEF IInv
<1>2. /\ m'.grab = s.grab
      /\ m'.savedAll = s.savedAll /\ m'.savedCwi = s.savedCwi
      /\ \A e : e # fd => /\ e \in m'.all <=> e \in s.all
                          /\ e \in m'.cwi <=> e \in s.cwi
                          /\ e \in m'.ignored <=> e \in s.ignored
    BY <1>1, IgnoreHears
<1>3. ASSUME NEW d \in Live' \ {c}
      PROVE  SlotAt(d) /\ SameAt(m, m', clients[d].fd)
  <2>1. clients[d].fd # fd BY KnownFd DEF IInv
  <2>2. SameAt(m, s, clients[d].fd) BY <2>1
  <2> QED BY <1>2, <2>1, <2>2 DEF SlotAt, SameAt
<1> QED BY <1>2, <1>3, OthersAttended

LEMMA ExecuteAttended ==
    ASSUME Steady, IInv, GrabInv, QueueInv, HeardInv, AttendedInv, Execute
    PROVE  AttendedInv'
<1> USE DEF slotVars, grabVars, schedVars
<1>1. PICK c : c = cur OBVIOUS
<1> DEFINE fd == clients[c].fd
<1>2. /\ pc = "execute" /\ InTurn /\ InRound
      /\ c \in Live /\ c \in Clients /\ fd \in Fd
      /\ m \in Masks /\ Nested(m)
      /\ clients \in [Clients -> ClientRec]
    BY <1>1, InRequest, Served DEF HeardInv
<1>3. fd \in m.all BY <1>1, <1>2 DEF HeardInv, TurnsHeard
<1>4. /\ Attended(c)
      /\ \A d \in Live : d # c => clients[d].fd # fd
    BY <1>2, KnownFd DEF IInv, AttendedInv
<1>5. "Impervious" \notin Kinds =>
          /\ ~clients[c].asleep /\ grabWaiters = {}
          /\ m.grab # 0 => c = grabClient
    BY <1>1, <1>2, <1>3, <1>4, GrabberServed, QueueImpervious
       DEF QueueInv, Attended, SleepsUnheard
<1>6. SleepersPervious => ~clients[c].asleep
    BY <1>2, <1>5 DEF SleepersPervious, QueueInv
<1>7. \A e : SameAt(m, m, e) BY DEF SameAt
<1>8. ASSUME UNCHANGED <<m, grabClient, grabWaiters>>, \A d \in Clients : SlotAt(d)
      PROVE  AttendedInv'
  <2>1. \A d \in Live' : d \in Live /\ SlotAt(d) BY <1>8 DEF SlotAt, Live
  <2> QED BY <1>8, <2>1, AllAttendedKept
<1>9. CASE SetUp \/ Other
  <2>1. \A d \in Clients : SlotAt(d)
      BY <1>2, <1>1, <1>9 DEF SetUp, Other, ClientRec, SlotAt
  <2> QED BY <1>8, <1>9, <2>1 DEF SetUp, Other
<1>10. ASSUME NEW mode \in CloseDownModes, ProcChangeCloseDownMode(mode)
       PROVE  AttendedInv'
  <2>1. \A d \in Clients : SlotAt(d)
      BY <1>1, <1>2, <1>10 DEF ProcChangeCloseDownMode, ClientRec, SlotAt
  <2> QED BY <1>8, <1>10, <2>1 DEF ProcChangeCloseDownMode
<1>11. CASE KillTemporary
  <2>1. \A d \in Clients : \/ clients'[d] = clients[d]
                            \/ clients'[d] = NoClient
      BY <1>2, <1>11 DEF KillTemporary
  <2>2. \A d \in Clients : clients'[d].fd = clients[d].fd
      BY <1>11, KillTemporaryKeepsData DEF IInv
  <2>3. NoClient.fd = 0 BY DEF NoClient
  <2>4. \A d \in Live' : d \in Live /\ SlotAt(d)
      BY <2>1, <2>2, <2>3 DEF Live, SlotAt
  <2>5. UNCHANGED <<m, grabClient, grabWaiters>> BY <1>11 DEF KillTemporary
  <2> QED BY <2>4, <2>5, AllAttendedKept
<1>12. CASE ProcGrabServer
  <2>1. /\ m' = OnlyListenToOneClient(m, c, fd)
        /\ grabClient' = c /\ UNCHANGED grabWaiters
        /\ m.grab # 0 => c = grabClient
      BY <1>1, <1>12 DEF ProcGrabServer, GrabbedByOther, GrabInv, GrabSets
  <2>2. \A d \in Clients : SlotAt(d)
      BY <1>1, <1>2, <1>12 DEF ProcGrabServer, ClientRec, SlotAt
  <2>3. Live' = Live BY <2>2 DEF SlotAt, Live
  <2>4. /\ fd \in m'.all /\ m'.grab # 0 /\ m'.ignored = m.ignored
        /\ \A e : Hears(m, e) => Hears(m', e)
        /\ \A e : e \notin m.all /\ (m.grab # 0 => e \notin m.savedAll) => ~Hears(m', e)
        /\ m.grab = 0 => m'.savedAll = m.all
        /\ m.grab = 0 => \A e \in m.cwi : IF e \in m'.all THEN e \in m'.cwi
                                          ELSE e \in m'.savedCwi
      BY <1>2, <1>3, <2>1, OnlyListenHears
  <2>5. m.grab # 0 => m' = m BY <2>1 DEF OnlyListenToOneClient
  <2> SUFFICES ASSUME NEW d \in Live PROVE Attended(d)' BY <2>3 DEF AttendedInv
  <2>6. SlotAt(d) /\ Attended(d) BY <2>2 DEF Live, AttendedInv
  <2>7. (Ignored(d) <=> Ignored(d)') BY <2>1, <2>6 DEF Ignored, SlotAt
  <2>8. ~Ignored(d)' => Hears(m', clients'[d].fd)
      BY <2>4, <2>6, <2>7 DEF Attended, SlotAt
  <2>9. "Impervious" \notin Kinds => SleepsUnheard(d)'
    <3> SUFFICES ASSUME "Impervious" \notin Kinds, clients[d].asleep
                 PROVE  SleepsUnheard(d)'
        BY <2>6 DEF SlotAt, SleepsUnheard
    <3>1. d # c BY <1>5
    <3>2. clients[d].fd \notin m.all /\ (m.grab # 0 => clients[d].fd \notin m.savedAll)
        BY <2>1, <2>6, <3>1 DEF Attended, SleepsUnheard
    <3>3. ~Hears(m', clients[d].fd) BY <2>4, <3>2
    <3> QED BY <2>6, <3>3 DEF SlotAt, SleepsUnheard, Hears
  <2>10. SleepersPervious => Recalled(d)'
    <3> SUFFICES ASSUME SleepersPervious PROVE Recalled(d)' OBVIOUS
    <3>1. Recalled(d) BY <2>6 DEF Attended
    <3>2. clients[d].buffered > 0 => Remembers(d)'
      <4>1. CASE Ignored(d)
          BY <2>4, <2>6, <2>7, <3>1, <4>1 DEF Recalled, Remembers, SlotAt
      <4>2. CASE ~Ignored(d)
          BY <2>4, <2>5, <2>6, <2>7, <3>1, <4>2 DEF Recalled, Remembers, SlotAt
      <4> QED BY <4>1, <4>2
    <3> QED BY <2>1, <2>4, <2>6, <3>1, <3>2 DEF Recalled, SlotAt
  <2>11. "Sleep" \notin Kinds => KnownToAll(d)'
      BY <2>4, <2>5, <2>6 DEF Attended, KnownToAll, SlotAt
  <2> QED BY <2>8, <2>9, <2>10, <2>11 DEF Attended
<1>13. CASE ProcGrabServerWaits
  <2> DEFINE s == ResetCurrentRequest(fd)
  <2>1. /\ s \in Masks /\ Nested(s) /\ fd \in s.all /\ s.grab = m.grab
        /\ fd \in s.cwi /\ \A e : e # fd => SameAt(m, s, e)
      BY <1>2, <1>3 DEF ResetCurrentRequest, Masks, Nested, SameAt
  <2>2. /\ clients' = [clients EXCEPT ![c].buffered = @ + 1, ![c].retry = TRUE]
        /\ grabWaiters' = grabWaiters \cup {c} /\ m' = IgnoreClient(s, fd)
        /\ UNCHANGED grabClient
      BY <1>1, <1>13 DEF ProcGrabServerWaits
  <2> HIDE DEF s
  <2>3. /\ \A d \in Clients \ {c} : clients'[d] = clients[d]
        /\ clients'[c].fd = fd
        /\ clients'[c].asleep = clients[c].asleep
      BY <1>2, <2>2 DEF ClientRec
  <2>4. Live' = Live BY <1>2, <2>3 DEF Live
  <2>5. "Impervious" \in Kinds
    <3>1. m.grab # 0 /\ c # grabClient
        BY <1>1, <1>13 DEF ProcGrabServerWaits, GrabbedByOther, GrabInv, GrabSets
    <3> QED BY <1>5, <3>1
  <2>6. fd \in m'.ignored /\ m'.grab = m.grab /\ m'.savedAll = s.savedAll
      BY <1>2, <2>1, <2>2, IgnoreHears
  <2>7. "Sleep" \notin Kinds => KnownToAll(c)'
    <3>1. m.grab # 0 BY <1>13 DEF ProcGrabServerWaits, GrabbedByOther, GrabInv, GrabSets
    <3>2. s.savedAll = m.savedAll BY <1>2 DEF s, ResetCurrentRequest, Masks
    <3> QED BY <1>4, <2>3, <2>6, <3>1, <3>2 DEF Attended, KnownToAll
  <2>8. Attended(c)'
      BY <2>2, <2>3, <2>5, <2>6, <2>7 DEF Attended, Ignored, Recalled, Remembers
  <2>9. \A d \in Live' \ {c} :
               /\ d \in Live /\ clients'[d] = clients[d]
               /\ d \in grabWaiters' <=> d \in grabWaiters
      BY <2>2, <2>3, <2>4 DEF Live
  <2> QED BY <1>2, <2>1, <2>2, <2>4, <2>8, <2>9, IgnoredAttended
<1>14. CASE ProcUngrabServer
  <2>1. PICK w \in Clients \cup {0} :
            /\ IsFirstWaiter(w) /\ m' = Ungrabbed(w)
            /\ grabWaiters' = grabWaiters \ {w}
      BY <1>14 DEF ProcUngrabServer
  <2>2. UNCHANGED <<clients, grabClient>> BY <1>14 DEF ProcUngrabServer
  <2>3. /\ m'.grab = 0
        /\ w = 0 \/ w \in grabWaiters
        /\ \A d \in Live : IF d = w THEN WokenAt(m, m', clients[d].fd)
                           ELSE OpenedAt(m, m', clients[d].fd)
      BY <1>2, <2>1, UngrabHears
  <2>4. Live' = Live BY <2>2 DEF Live
  <2> SUFFICES ASSUME NEW d \in Live PROVE Attended(d)' BY <2>4 DEF AttendedInv
  <2>5. Attended(d) /\ SlotAt(d) /\ d \in Clients /\ d # 0
      BY <2>2, ClientsAssumption DEF SlotAt, AttendedInv, Live, Clients
  <2>6. CASE d = w
    <3>1. d \in grabWaiters /\ d \notin grabWaiters' BY <2>1, <2>3, <2>5, <2>6
    <3>2. WokenAt(m, m', clients[d].fd) BY <2>3, <2>6
    <3> QED BY <2>3, <2>5, <3>1, <3>2, AttendedWoken
  <2>7. CASE d # w
    <3>1. (d \in grabWaiters' <=> d \in grabWaiters) BY <2>1, <2>7
    <3>2. OpenedAt(m, m', clients[d].fd) BY <2>3, <2>7
    <3>3. "Impervious" \notin Kinds =>
              (m.grab # 0 /\ clients[d].asleep => grabClient # d)
        BY <1>5
    <3> QED BY <1>2, <2>3, <2>5, <3>1, <3>2, <3>3, AttendedOpened
  <2> QED BY <2>6, <2>7
<1>15. CASE GrabControlImpervious \/ GrabControlPervious
  <2>1. UNCHANGED <<clients, grabClient, grabWaiters>>
      BY <1>15 DEF GrabControlImpervious, GrabControlPervious
  <2>2. Live' = Live BY <2>1 DEF Live
  <2>3. /\ m'.grab = m.grab /\ m'.savedAll = m.savedAll /\ m'.ignored = m.ignored
        /\ Suspended(fd) \/ NotSuspended
    <3>1. CASE GrabControlImpervious
        BY <1>2, <3>1
           DEF GrabControlImpervious, MakeClientGrabImpervious, Masks, NotSuspended
    <3>2. CASE GrabControlPervious BY <1>1, <3>2, PerviousHears
    <3> QED BY <1>15, <3>1, <3>2
  <2> SUFFICES ASSUME NEW d \in Live PROVE Attended(d)' BY <2>2 DEF AttendedInv
  <2>4. Attended(d) /\ SlotAt(d) BY <2>1 DEF AttendedInv, SlotAt
  <2>5. CASE NotSuspended \/ d # c
    <3>1. SameAt(m, m', clients[d].fd)
        BY <1>4, <2>3, <2>5 DEF SameAt, Suspended, NotSuspended
    <3> QED BY <2>1, <2>3, <2>4, <3>1, AttendedKept
  <2>6. CASE Suspended(fd) /\ d = c
    <3>1. KnownToAll(c)' /\ Hears(m', clients'[c].fd)
        BY <2>1, <2>3, <2>6 DEF Suspended, KnownToAll, Hears
    <3>2. SleepersPervious => Recalled(c)'
      <4> SUFFICES ASSUME SleepersPervious PROVE Recalled(c)' OBVIOUS
      <4>1. Recalled(c) BY <1>4 DEF Attended
      <4>2. CASE Ignored(c)
          BY <2>1, <2>3, <4>1, <4>2 DEF Recalled, Remembers, Ignored
      <4>3. CASE ~Ignored(c)
          BY <1>3, <2>1, <2>3, <2>6, <4>1, <4>3
             DEF Recalled, Remembers, Ignored, Suspended
      <4> QED BY <4>2, <4>3
    <3> QED BY <2>6, <3>1, <3>2 DEF Attended, Suspended
  <2> QED BY <2>3, <2>5, <2>6
<1>16. CASE Sleep
  <2>1. /\ clients' = [clients EXCEPT ![c].asleep = TRUE]
        /\ m' = IgnoreClient(m, fd) /\ "Sleep" \in Kinds
        /\ UNCHANGED <<grabClient, grabWaiters>>
      BY <1>1, <1>16 DEF Sleep, Executes
  <2>2. /\ \A d \in Clients \ {c} : clients'[d] = clients[d]
        /\ clients'[c].fd = fd /\ clients'[c].asleep
        /\ clients'[c].buffered = clients[c].buffered
      BY <1>2, <2>1 DEF ClientRec
  <2>3. Live' = Live BY <1>2, <2>2 DEF Live
  <2>4. /\ m'.grab = m.grab /\ fd \notin m'.all
        /\ fd \in m'.ignored <=> fd \in m.cwi
      BY <1>2, <1>3, <2>1, IgnoreHears
  <2>5. "Impervious" \notin Kinds => SleepsUnheard(c)'
      BY <1>5, <2>1, <2>2, <2>4 DEF SleepsUnheard
  <2>6. SleepersPervious => Recalled(c)'
    <3> SUFFICES ASSUME SleepersPervious PROVE Recalled(c)' OBVIOUS
    <3>1. grabWaiters = {} /\ ~Ignored(c)
        BY <1>5, <1>6, <2>1 DEF SleepersPervious, Ignored
    <3>2. clients[c].buffered > 0 => fd \in m.cwi
        BY <1>3, <1>4, <3>1 DEF Attended, Recalled, Remembers
    <3> QED BY <2>1, <2>2, <2>4, <3>1, <3>2 DEF Recalled, Remembers, Ignored
  <2>7. Attended(c)' BY <2>1, <2>2, <2>5, <2>6 DEF Attended, Ignored
  <2>8. \A d \in Live' \ {c} :
               /\ d \in Live /\ clients'[d] = clients[d]
               /\ d \in grabWaiters' <=> d \in grabWaiters
      BY <2>1, <2>2, <2>3 DEF Live
  <2> QED BY <1>2, <1>3, <1>7, <2>1, <2>3, <2>7, <2>8, IgnoredAttended
<1>17. ASSUME NEW d \in Clients, ProcKillClient(d)
       PROVE  AttendedInv'
    BY <1>2, <1>17, CloseModeAttended DEF ProcKillClient
<1> QED BY <1>9, <1>10, <1>11, <1>12, <1>13, <1>14, <1>15, <1>16, <1>17 DEF Execute

-----------------------------------------------------------------------------
(* The invariance, and what follows from it.                               *)

ServedInv == IInv /\ GrabInv /\ QueueInv /\ HeardInv /\ AttendedInv

LEMMA InitServed == Init => ServedInv
<1> SUFFICES ASSUME Init PROVE QueueInv /\ HeardInv /\ AttendedInv
    BY InitInv, InitGrab DEF ServedInv
<1>1. Live = {} BY DEF Init, Live, NoClient
<1>2. QueueInv BY DEF Init, InitMasks, NoClient, QueueInv, HoldsInv
<1>3. HeardInv
    BY DEF Init, InitMasks, HeardInv, Nested, TurnsHeard, InTurn, InRound
<1> QED BY <1>1, <1>2, <1>3 DEF AttendedInv

LEMMA StepServed ==
    ASSUME Steady, ServedInv, [Next]_vars
    PROVE  ServedInv'
<1>1. IInv /\ GrabInv /\ QueueInv /\ HeardInv /\ AttendedInv /\ Nested(m)
    BY DEF ServedInv, HeardInv
<1>2. IInv' /\ GrabInv' BY <1>1, StepInv, StepGrab
<1>3. CASE Next
  <2>1. QueueInv' BY <1>1, <1>3, StepQueues
  <2>2. CASE Environment
    <3>1. PICK c \in Clients : Send(c) \/ HangUp(c) \/ WriteFails(c)
        BY <2>2 DEF Environment
    <3>2. UNCHANGED <<m, grabState, schedVars>>
        BY <3>1 DEF Send, HangUp, WriteFails, grabVars
    <3>3. \A d \in Clients : clients'[d].fd = clients[d].fd
      <4>1. CASE Send(c) BY <4>1, <1>1, GrabTypes DEF Send, ClientRec
      <4>2. CASE HangUp(c) BY <4>2, <1>1, GrabTypes DEF HangUp, ClientRec
      <4>3. CASE WriteFails(c) BY <4>3, <1>1, GrabTypes DEF WriteFails, ClientRec
      <4> QED BY <3>1, <4>1, <4>2, <4>3
    <3>4. Live' = Live BY <3>3 DEF Live
    <3>5. HeardInv'
        BY <1>1, <3>2, <3>3, <3>4
           DEF HeardInv, Nested, TurnsHeard, InTurn, InRound, RoundHeard, Hears,
               schedVars, Live
    <3>6. AttendedInv' BY <1>1, <2>2, EnvironmentAttended
    <3> QED BY <1>2, <2>1, <3>5, <3>6 DEF ServedInv
  <2>3. CASE Wait
      BY <1>1, <1>2, <2>1, <2>3, WaitHeard, WaitAttended DEF ServedInv
  <2>4. CASE Establish
      BY <1>1, <1>2, <2>1, <2>4, EstablishHeard, EstablishAttended DEF ServedInv
  <2>5. CASE Serve
      BY <1>1, <1>2, <2>1, <2>5, ServeHeard, ServeAttended DEF ServedInv
  <2>6. CASE Execute
      BY <1>1, <1>2, <2>1, <2>6, ExecuteHeard, ExecuteAttended DEF ServedInv
  <2>7. CASE Restart
      BY <1>1, <1>2, <2>1, <2>7, RestartHeard, RestartAttended DEF ServedInv
  <2> QED BY <1>3, <2>2, <2>3, <2>4, <2>5, <2>6, <2>7 DEF Next, Server
<1>4. CASE UNCHANGED vars
  <2>1. UNCHANGED <<clients, m, grabState, grabClient, grabWaiters, holds, workQueue,
                    pc, ready, cur, yield>>
      BY <1>4 DEF vars, slotVars, grabVars, schedVars
  <2>2. Live' = Live BY <2>1 DEF Live
  <2>3. QueueInv' BY <1>1, <2>1 DEF QueueInv, HoldsInv
  <2>4. HeardInv'
      BY <1>1, <2>1, <2>2
         DEF HeardInv, Nested, TurnsHeard, InTurn, InRound, RoundHeard, Hears
  <2>5. \A d \in Live' : d \in Live /\ SlotAt(d) BY <2>1, <2>2 DEF SlotAt
  <2>6. AttendedInv' BY <1>1, <2>1, <2>5, AllAttendedKept
  <2> QED BY <1>2, <2>3, <2>4, <2>6 DEF ServedInv
<1> QED BY <1>3, <1>4

LEMMA ServedInvariance ==
    ASSUME Steady
    PROVE  Spec => []ServedInv
<1>1. ServedInv /\ [Next]_vars => ServedInv' BY StepServed
<1> QED BY <1>1, InitServed, PTL DEF Spec

(* Unless clients may sleep, become impervious and pervious again, every    *)
(* connected client that neither sleeps nor waits for the grab is in       *)
(* AllClients or will be when the grab ends: grabs that begin and end,     *)
(* kickouts, waiters woken, clients that connect, sleep, wake and die      *)
(* during the grab of another lose nobody.  (Run pervious_forgotten shows  *)
(* who is lost otherwise.)                                                 *)
THEOREM NobodyForgottenCorrect ==
    ASSUME Steady
    PROVE  Spec => []NobodyForgotten
<1>1. ServedInv => NobodyForgotten
    BY DEF ServedInv, AttendedInv, Attended, Hears, NobodyForgotten, Saved
<1> QED BY <1>1, ServedInvariance, PTL

(* Without impervious clients, no request of a client is executed between  *)
(* ClientSleep and ClientWakeup, though grabs end meanwhile and put back   *)
(* the sets of before.                                                     *)
THEOREM SleepCorrect ==
    ASSUME "Impervious" \notin Kinds
    PROVE  Spec => []AsleepNotServed
<1>1. ServedInv => AsleepNotServed
  <2> SUFFICES ASSUME ServedInv, pc = "execute" PROVE ~clients[cur].asleep
      BY DEF AsleepNotServed
  <2>1. cur \in Live BY DEF ServedInv, IInv, Serving
  <2>2. clients[cur].fd \in m.all BY <2>1 DEF ServedInv, HeardInv, TurnsHeard, InTurn
  <2> QED BY <2>1, <2>2 DEF ServedInv, AttendedInv, Attended, SleepsUnheard
<1>2. Steady BY DEF Steady
<1> QED BY <1>1, <1>2, ServedInvariance, PTL

(* A whole request in a buffer is in ClientsWithInput, in the saved copy   *)
(* or, of a client that sleeps or waits for the grab, in                   *)
(* IgnoredClientsWithInput: where AttendClient looks for it.               *)
THEOREM BuffersCorrect ==
    ASSUME SleepersPervious
    PROVE  Spec => []BufferedRemembered
<1>1. ServedInv => BufferedRemembered
    BY DEF ServedInv, AttendedInv, Attended, Recalled, Remembers, BufferedRemembered, Saved
<1>2. Steady BY DEF Steady, SleepersPervious
<1> QED BY <1>1, <1>2, ServedInvariance, PTL

-----------------------------------------------------------------------------
(* Nobody is read from after its connection.                               *)

(* Only a round of several clients can hold one that was killed since it   *)
(* was collected; and it is passed over if its slot was emptied, which it  *)
(* is when no client retains its resources.                                *)
ReadsSafely == ~SmartScheduleDisable \/ "SetCloseDownMode" \notin Kinds

NobodyRetained ==
    \A c \in Clients : clients[c].mode = "DestroyAll" /\ clients[c].state # "Retained"

(* The round of one client.                                                *)
OneReady ==
    /\ \E c \in Clients : ready \subseteq {c}
    /\ pc = "round" => ready \subseteq Live
    /\ pc \in {"run", "execute", "close"} => ready = {}

ReadInv ==
    /\ pc = "run" /\ ~yield => cur \in Live
    /\ ~SmartScheduleDisable => OneReady
    /\ "SetCloseDownMode" \notin Kinds => NobodyRetained

LEMMA CloseRetainsNobody ==
    ASSUME IInv, NobodyRetained, NEW c \in Clients, CloseDownClient(c, "DestroyAll")
    PROVE  NobodyRetained'
<1>1. clients' = [clients EXCEPT ![c] = NoClient]
    BY DEF CloseDownClient, ClosedSlot
<1>2. NoClient.mode = "DestroyAll" /\ NoClient.state # "Retained" BY DEF NoClient
<1>3. clients'[c] = NoClient /\ \A d \in Clients \ {c} : clients'[d] = clients[d]
    BY <1>1, GrabTypes
<1> QED BY <1>2, <1>3 DEF NobodyRetained

LEMMA StepRetained ==
    ASSUME "SetCloseDownMode" \notin Kinds, IInv, NobodyRetained, Next
    PROVE  NobodyRetained'
<1> USE DEF slotVars, grabVars, schedVars
<1>1. clients \in [Clients -> ClientRec] BY GrabTypes
<1>2. ASSUME \A d \in Clients :
                /\ clients'[d].mode = clients[d].mode
                /\ clients'[d].state \in {clients[d].state, "Running"}
      PROVE  NobodyRetained'
    BY <1>2 DEF NobodyRetained
<1>3. ASSUME NEW c \in Clients, CloseDownClient(c, clients[c].mode)
      PROVE  NobodyRetained'
  <2>1. clients[c].mode = "DestroyAll" BY DEF NobodyRetained
  <2> QED BY <1>3, <2>1, CloseRetainsNobody
<1>4. CASE Environment
  <2>1. PICK c \in Clients : Send(c) \/ HangUp(c) \/ WriteFails(c)
      BY <1>4 DEF Environment
  <2>2. CASE Send(c) BY <1>1, <1>2, <2>2 DEF Send, ClientRec
  <2>3. CASE HangUp(c) BY <1>1, <1>2, <2>3 DEF HangUp, ClientRec
  <2>4. CASE WriteFails(c) BY <1>1, <1>2, <2>4 DEF WriteFails, ClientRec
  <2> QED BY <2>1, <2>2, <2>3, <2>4
<1>5. CASE Wait
  <2>1. CASE WorkEstablish \/ WaitStops \/ ReturnBuffered \/ SelectFails
      BY <1>2, <2>1 DEF WorkEstablish, WaitStops, ReturnBuffered, SelectFails
  <2>2. ASSUME NEW c \in Clients, WorkWakeup(c) PROVE NobodyRetained'
      BY <1>1, <1>2, <2>2 DEF WorkWakeup, ClientRec
  <2>3. CASE CheckConnections
    <3>1. CASE \E fd \in checking \cap m.all : IsBad(fd)
      <4>1. PICK fd \in checking \cap m.all : CloseDownClient(conn[fd], clients[conn[fd]].mode)
          BY <2>3, <3>1 DEF CheckConnections
      <4>2. conn[fd] \in Clients
          BY DEF IInv, DataInv, DataTypeOK, Within, Known
      <4> QED BY <1>3, <4>1, <4>2
    <3>2. CASE ~ \E fd \in checking \cap m.all : IsBad(fd)
        BY <1>2, <2>3, <3>2 DEF CheckConnections
    <3> QED BY <3>1, <3>2
  <2>4. ASSUME NEW newConnection \in BOOLEAN,
               NEW answered \in SUBSET {c \in Clients : clients[c].asleep},
               Select(newConnection, answered)
        PROVE  NobodyRetained'
      BY <1>2, <2>4 DEF Select
  <2> QED BY <1>5, <2>1, <2>2, <2>3, <2>4 DEF Wait
<1>6. CASE Establish
  <2>1. CASE StragglersDone \/ AcceptFails
      BY <1>2, <2>1 DEF StragglersDone, AcceptFails
  <2>2. ASSUME NEW c \in Clients, KillStraggler(c) PROVE NobodyRetained'
      BY <1>3, <2>2 DEF KillStraggler
  <2>3. ASSUME NEW fd \in Fd, AcceptReused(fd) PROVE NobodyRetained'
    <3>1. conn[fd] \in Clients BY <2>3 DEF AcceptReused, IInv, DataInv, DataTypeOK
    <3> QED BY <1>3, <2>3, <3>1 DEF AcceptReused
  <2>4. ASSUME NEW fd \in Fd, Accept(fd) PROVE NobodyRetained'
    <3> DEFINE new == [NoClient EXCEPT !.state = "Initial", !.fd = fd, !.open = TRUE]
    <3>1. \A d \in Clients : clients'[d] = clients[d] \/ clients'[d] = new
        BY <1>1, <2>4 DEF Accept
    <3>2. new.mode = "DestroyAll" /\ new.state = "Initial" BY DEF NoClient
    <3> HIDE DEF new
    <3> QED BY <3>1, <3>2 DEF NobodyRetained
  <2> QED BY <1>6, <2>1, <2>2, <2>3, <2>4 DEF Establish
<1>7. CASE Serve
  <2>1. CASE RoundDone \/ TurnDone \/ ReadNothing \/ ReadFails
      BY <1>2, <2>1 DEF RoundDone, TurnDone, ReadNothing, ReadFails
  <2>2. ASSUME NEW c \in Clients, NextClient(c) PROVE NobodyRetained'
      BY <1>2, <2>2 DEF NextClient
  <2>3. CASE ReadRequest BY <1>1, <1>2, <2>3 DEF ReadRequest, ClientRec
  <2>4. CASE Close
    <3>1. cur \in Clients BY <2>4 DEF IInv, Serving, Live, Close
    <3> QED BY <1>3, <2>4, <3>1 DEF Close
  <2> QED BY <1>7, <2>1, <2>2, <2>3, <2>4 DEF Serve
<1>8. CASE Restart
  <2>1. CASE Reset BY <1>2, <2>1 DEF Reset
  <2>2. ASSUME NEW c \in Clients, KillAllClients(c) PROVE NobodyRetained'
      BY <2>2, CloseRetainsNobody DEF KillAllClients
  <2> QED BY <1>8, <2>1, <2>2 DEF Restart
<1>9. CASE Execute
  <2>1. CASE Other \/ GrabControlImpervious \/ GrabControlPervious \/ ProcUngrabServer
      BY <1>2, <2>1 DEF Other, GrabControlImpervious, GrabControlPervious, ProcUngrabServer
  <2>2. CASE SetUp BY <1>1, <1>2, <2>2 DEF SetUp, ClientRec
  <2>3. CASE ProcGrabServer BY <1>1, <1>2, <2>3 DEF ProcGrabServer, ClientRec
  <2>4. CASE ProcGrabServerWaits BY <1>1, <1>2, <2>4 DEF ProcGrabServerWaits, ClientRec
  <2>5. CASE Sleep BY <1>1, <1>2, <2>5 DEF Sleep, ClientRec
  <2>6. ASSUME NEW c \in Clients, ProcKillClient(c) PROVE NobodyRetained'
      BY <1>3, <2>6 DEF ProcKillClient
  <2>7. CASE KillTemporary
    <3>1. \A d \in Clients : clients'[d] = clients[d] \/ clients'[d] = NoClient
        BY <1>1, <2>7 DEF KillTemporary
    <3>2. NoClient.mode = "DestroyAll" /\ NoClient.state # "Retained" BY DEF NoClient
    <3> QED BY <3>1, <3>2 DEF NobodyRetained
  <2>8. ASSUME NEW mode \in CloseDownModes, ProcChangeCloseDownMode(mode)
        PROVE  NobodyRetained'
      BY <2>8 DEF ProcChangeCloseDownMode, Executes
  <2> QED BY <1>9, <2>1, <2>2, <2>3, <2>4, <2>5, <2>6, <2>7, <2>8 DEF Execute
<1> QED BY <1>4, <1>5, <1>6, <1>7, <1>8, <1>9 DEF Next, Server

LEMMA StepOneReady ==
    ASSUME ~SmartScheduleDisable, IInv, OneReady, Next
    PROVE  OneReady'
<1> USE DEF slotVars, grabVars, schedVars
<1>1. ASSUME ready' \subseteq ready, pc' \notin {"round", "run", "execute", "close"}
      PROVE  OneReady'
    BY <1>1 DEF OneReady
<1>2. ASSUME UNCHANGED ready, pc \in {"run", "execute", "close"}
      PROVE  OneReady'
    BY <1>2 DEF OneReady
<1>3. ASSUME NEW S \in SUBSET Known, Return(S), UNCHANGED <<clients, conn>>,
             pc' \in {"wait", "round"}
      PROVE  OneReady'
  <2>1. 1 \in Clients BY ClientsAssumption DEF Clients
  <2>2. \A fd \in S : conn[fd] \in Live /\ conn[fd] \in Clients
      BY <1>3, FdAssumption DEF IInv, DataInv, DataTypeOK, TranslationAgrees, Known, Live, Fd
  <2>3. Live' = Live BY <1>3 DEF Live
  <2>4. ready' = {} \/ \E fd \in S : ready' = {conn[fd]} BY <1>3 DEF Return
  <2> QED BY <1>3, <2>1, <2>2, <2>3, <2>4 DEF OneReady
<1>4. CASE Environment
  <2>1. PICK c \in Clients : Send(c) \/ HangUp(c) \/ WriteFails(c)
      BY <1>4 DEF Environment
  <2>2. \A d \in Clients : clients'[d].fd = clients[d].fd
    <3>1. CASE Send(c) BY <3>1, GrabTypes DEF Send, ClientRec
    <3>2. CASE HangUp(c) BY <3>2, GrabTypes DEF HangUp, ClientRec
    <3>3. CASE WriteFails(c) BY <3>3, GrabTypes DEF WriteFails, ClientRec
    <3> QED BY <2>1, <3>1, <3>2, <3>3
  <2>3. UNCHANGED <<ready, pc>> BY <2>1 DEF Send, HangUp, WriteFails
  <2>4. Live' = Live BY <2>2 DEF Live
  <2> QED BY <2>3, <2>4 DEF OneReady
<1>5. CASE Wait
  <2>1. CASE WorkEstablish \/ WaitStops \/ SelectFails \/ CheckConnections
      BY <1>1, <2>1 DEF WorkEstablish, WaitStops, SelectFails, CheckConnections
  <2>2. ASSUME NEW c \in Clients, WorkWakeup(c) PROVE OneReady'
      BY <1>1, <2>2 DEF WorkWakeup
  <2>3. CASE ReturnBuffered BY <2>3 DEF ReturnBuffered
  <2>4. ASSUME NEW newConnection \in BOOLEAN,
               NEW answered \in SUBSET {c \in Clients : clients[c].asleep},
               Select(newConnection, answered)
        PROVE  OneReady'
    <3> DEFINE news == {fd \in SelectMask : HasNews(fd)}
               some == news # {} \/ newConnection \/ answered # {}
               readable == IF some THEN (news \cup m.cwi) \cap m.all ELSE m.cwi
    <3>1. /\ Return(readable) /\ pc' = IF readable = {} THEN "wait" ELSE "round"
          /\ UNCHANGED <<clients, conn>>
        BY <2>4 DEF Select
    <3>2. readable \in SUBSET Known BY DEF IInv, DataInv, Within
    <3> HIDE DEF readable
    <3> QED BY <1>3, <3>1, <3>2
  <2> QED BY <1>5, <2>1, <2>2, <2>3, <2>4 DEF Wait
<1>6. CASE Establish
  <2>1. UNCHANGED ready /\ pc' \in {"stragglers", "accept", "wait"}
      BY <1>6 DEF Establish, KillStraggler, StragglersDone, AcceptFails, AcceptReused, Accept
  <2> QED BY <1>1, <2>1
<1>7. CASE Serve
  <2>1. CASE RoundDone BY <1>1, <2>1 DEF RoundDone
  <2>2. ASSUME NEW c \in Clients, NextClient(c) PROVE OneReady'
    <3>1. /\ UNCHANGED clients /\ pc = "round" /\ c \in ready
          /\ ready' \subseteq ready \ {c}
        BY <2>2 DEF NextClient
    <3>2. ready' = {} BY <3>1 DEF OneReady
    <3> QED BY <2>2, <3>2 DEF OneReady
  <2>3. CASE TurnDone \/ ReadNothing \/ ReadFails \/ ReadRequest \/ Close
      BY <1>2, <2>3 DEF TurnDone, ReadNothing, ReadFails, ReadRequest, Close
  <2> QED BY <1>7, <2>1, <2>2, <2>3 DEF Serve
<1>8. CASE Restart
  <2>1. UNCHANGED ready /\ pc' \in {"wait", "reset"}
      BY <1>8 DEF Restart, Reset, KillAllClients
  <2> QED BY <1>1, <2>1
<1>9. CASE Execute
  <2>1. UNCHANGED ready
      BY <1>9 DEF Execute, SetUp, Other, ProcGrabServer, ProcGrabServerWaits,
             ProcUngrabServer, GrabControlImpervious, GrabControlPervious, Sleep,
             ProcKillClient, KillTemporary, ProcChangeCloseDownMode
  <2> QED BY <1>2, <1>9, <2>1, InRequest
<1> QED BY <1>4, <1>5, <1>6, <1>7, <1>8, <1>9 DEF Next, Server

LEMMA StepRead ==
    ASSUME ReadsSafely, IInv, ReadInv, Next
    PROVE  ReadInv'
<1> USE DEF slotVars, grabVars, schedVars
<1>1. ~SmartScheduleDisable => OneReady' BY StepOneReady DEF ReadInv
<1>2. "SetCloseDownMode" \notin Kinds => NobodyRetained' BY StepRetained DEF ReadInv
<1> SUFFICES ASSUME pc' = "run", ~yield' PROVE cur' \in Live'
    BY <1>1, <1>2 DEF ReadInv
<1>3. ASSUME \A d \in Clients : clients'[d].fd = clients[d].fd, UNCHANGED cur,
             cur \in Live
      PROVE  cur' \in Live'
    BY <1>3 DEF Live
<1>4. clients \in [Clients -> ClientRec] BY GrabTypes
<1>5. CASE Environment
  <2>1. PICK c \in Clients : Send(c) \/ HangUp(c) \/ WriteFails(c)
      BY <1>5 DEF Environment
  <2>2. \A d \in Clients : clients'[d].fd = clients[d].fd
    <3>1. CASE Send(c) BY <1>4, <3>1 DEF Send, ClientRec
    <3>2. CASE HangUp(c) BY <1>4, <3>2 DEF HangUp, ClientRec
    <3>3. CASE WriteFails(c) BY <1>4, <3>3 DEF WriteFails, ClientRec
    <3> QED BY <2>1, <3>1, <3>2, <3>3
  <2>3. UNCHANGED <<cur, pc, yield>> BY <2>1 DEF Send, HangUp, WriteFails
  <2> QED BY <1>3, <2>2, <2>3 DEF ReadInv
<1>6. CASE Wait
    BY <1>6 DEF Wait, WorkEstablish, WorkWakeup, WaitStops, ReturnBuffered, SelectFails,
           CheckConnections, Select
<1>7. CASE Establish
    BY <1>7 DEF Establish, KillStraggler, StragglersDone, AcceptFails, AcceptReused, Accept
<1>8. CASE Serve
  <2>1. PICK c \in Clients : NextClient(c)
      BY <1>8 DEF Serve, RoundDone, TurnDone, ReadNothing, ReadFails, ReadRequest, Close
  <2>2. /\ UNCHANGED clients /\ pc = "round" /\ c \in ready
        /\ cur' = c /\ clients[c].state # "Gone"
      BY <2>1 DEF NextClient, Emptied
  <2>3. c \in Live
    <3>1. CASE ~SmartScheduleDisable BY <2>2, <3>1 DEF ReadInv, OneReady
    <3>2. CASE "SetCloseDownMode" \notin Kinds
      <4>1. clients[c].state \in {"Gone", "Initial", "Running", "Retained"}
          BY <1>4 DEF ClientRec
      <4>2. clients[c].state # "Retained" BY <3>2 DEF ReadInv, NobodyRetained
      <4>3. clients[c].fd # 0 BY <2>2, <4>1, <4>2 DEF IInv, DataInv, Slots
      <4> QED BY <4>3 DEF Live
    <3> QED BY <3>1, <3>2 DEF ReadsSafely
  <2> QED BY <2>2, <2>3 DEF Live
<1>9. CASE Restart
    BY <1>9 DEF Restart, Reset, KillAllClients
<1>10. CASE Execute
  <2>1. cur \in Live /\ cur \in Clients BY <1>10, InRequest, Served
  <2>2. CASE Other \/ GrabControlImpervious \/ GrabControlPervious \/ ProcUngrabServer
      BY <1>3, <2>1, <2>2
         DEF Other, GrabControlImpervious, GrabControlPervious, ProcUngrabServer
  <2>3. CASE SetUp BY <1>3, <1>4, <2>1, <2>3 DEF SetUp, ClientRec
  <2>4. CASE ProcGrabServer BY <1>3, <1>4, <2>1, <2>4 DEF ProcGrabServer, ClientRec
  <2>5. CASE ProcGrabServerWaits \/ Sleep BY <2>5 DEF ProcGrabServerWaits, Sleep
  <2>6. ASSUME NEW c \in Clients, ProcKillClient(c) PROVE cur' \in Live'
    <3>1. c # cur /\ UNCHANGED cur BY <2>6 DEF ProcKillClient, Yields
    <3> QED BY <2>1, <2>6, <3>1, CloseInMode DEF ProcKillClient, IInv
  <2>7. CASE KillTemporary
      BY <1>3, <2>1, <2>7, KillTemporaryKeepsData DEF IInv, KillTemporary
  <2>8. ASSUME NEW mode \in CloseDownModes, ProcChangeCloseDownMode(mode)
        PROVE  cur' \in Live'
      BY <1>3, <1>4, <2>1, <2>8 DEF ProcChangeCloseDownMode, ClientRec
  <2> QED BY <1>10, <2>2, <2>3, <2>4, <2>5, <2>6, <2>7, <2>8 DEF Execute
<1> QED BY <1>5, <1>6, <1>7, <1>8, <1>9, <1>10 DEF Next, Server

(* With the smart scheduler, whose rounds have one client, or when nobody  *)
(* retains its resources, so that the slot of a client killed in a round   *)
(* is emptied: Dispatch never reads from a client whose connection is      *)
(* closed, whose osPrivate is NULL.                                        *)
THEOREM ReadsCorrect ==
    ASSUME ReadsSafely
    PROVE  Spec => []NeverReadsClosed
<1>1. Init => ReadInv
    BY ClientsAssumption
       DEF Init, ReadInv, OneReady, NobodyRetained, NoClient, Clients
<1>2. IInv /\ ReadInv /\ [Next]_vars => ReadInv'
  <2>1. CASE UNCHANGED vars
      BY <2>1 DEF vars, slotVars, schedVars, ReadInv, OneReady, NobodyRetained, Live
  <2> QED BY <2>1, StepRead
<1>3. ReadInv => NeverReadsClosed BY DEF ReadInv, NeverReadsClosed
<1> QED BY <1>1, <1>2, <1>3, Invariance, PTL DEF Spec

================================================================================
