------------------------- MODULE ClientSchedulerProofs -------------------------
(***************************************************************************)
(* What holds of the scheduler for any number of clients and descriptors,  *)
(* any mix of requests and faults, with and without the smart scheduler.   *)
(***************************************************************************)
EXTENDS ClientScheduler, FiniteSetTheorems, TLAPS

-----------------------------------------------------------------------------
(* The operations of os/connection.c on the descriptor sets.               *)

(* The sets hold descriptors of K only, and the sockets that are selected  *)
(* on are those that are served.                                           *)
Within(s, K) ==
    /\ s.all \cup s.cwi \cup s.impervious \subseteq K
    /\ s.grab # 0 => s.savedAll \cup s.savedCwi \subseteq K
    /\ s.socks = s.all
    /\ s.grab # 0 => s.savedSocks = s.savedAll

LEMMA ListenToAllWithin ==
    ASSUME NEW s \in Masks, NEW K, Within(s, K)
    PROVE  /\ ListenToAllClients(s) \in Masks
           /\ Within(ListenToAllClients(s), K)
           /\ ListenToAllClients(s).grab = 0
           /\ ListenToAllClients(s).impervious = s.impervious
    BY DEF Masks, Within, ListenToAllClients

LEMMA AttendWithin ==
    ASSUME NEW s \in Masks, NEW K, Within(s, K), NEW c \in Clients,
           NEW fd \in Fd, fd \in K
    PROVE  /\ AttendClient(s, c, fd) \in Masks
           /\ Within(AttendClient(s, c, fd), K)
           /\ AttendClient(s, c, fd).grab = s.grab
           /\ AttendClient(s, c, fd).impervious = s.impervious
<1>1. CASE s.grab \in {0, c} \/ fd \in s.impervious
    BY <1>1 DEF Masks, Within, AttendClient
<1>2. CASE ~(s.grab \in {0, c} \/ fd \in s.impervious)
    BY <1>2 DEF Masks, Within, AttendClient
<1> QED BY <1>1, <1>2

LEMMA CloseWithin ==
    ASSUME NEW s \in Masks, NEW K, Within(s, K), NEW fd \in Fd
    PROVE  /\ CloseDownFileDescriptor(s, fd) \in Masks
           /\ Within(CloseDownFileDescriptor(s, fd), K \ {fd})
           /\ CloseDownFileDescriptor(s, fd).grab = s.grab
           /\ CloseDownFileDescriptor(s, fd).impervious = s.impervious \ {fd}
<1> DEFINE r == CloseDownFileDescriptor(s, fd)
<1>1. r \in Masks
  <2> DEFINE main == [s EXCEPT !.all = @ \ {fd}, !.socks = @ \ {fd}, !.cwi = @ \ {fd},
                               !.impervious = @ \ {fd}]
  <2>1. main \in Masks
    BY DEF Masks
  <2>2. CASE s.grab = 0
    BY <2>1, <2>2 DEF CloseDownFileDescriptor
  <2>3. CASE s.grab # 0
    <3> HIDE DEF main
    <3>1. [main EXCEPT !.savedAll = @ \ {fd}, !.savedSocks = @ \ {fd},
                       !.savedCwi = @ \ {fd}] \in Masks
      BY <2>1 DEF Masks
    <3> QED BY <2>3, <3>1 DEF CloseDownFileDescriptor, main
  <2> QED BY <2>2, <2>3
<1>2. /\ r.all = s.all \ {fd} /\ r.socks = s.socks \ {fd} /\ r.cwi = s.cwi \ {fd}
      /\ r.impervious = s.impervious \ {fd}
      /\ r.grab = s.grab
    BY DEF Masks, CloseDownFileDescriptor
<1>3. s.grab # 0 => /\ r.savedAll = s.savedAll \ {fd}
                    /\ r.savedSocks = s.savedSocks \ {fd}
                    /\ r.savedCwi = s.savedCwi \ {fd}
    BY DEF Masks, CloseDownFileDescriptor
<1> HIDE DEF r
<1>4. Within(r, K \ {fd})
    BY <1>2, <1>3 DEF Within
<1> QED BY <1>1, <1>2, <1>4 DEF r

LEMMA IgnoreWithin ==
    ASSUME NEW s \in Masks, NEW K, Within(s, K), NEW fd \in Fd
    PROVE  /\ IgnoreClient(s, fd) \in Masks
           /\ Within(IgnoreClient(s, fd), K)
           /\ IgnoreClient(s, fd).grab = s.grab
           /\ IgnoreClient(s, fd).impervious = s.impervious
<1> DEFINE r == IgnoreClient(s, fd)
<1>1. r \in Masks
    BY DEF Masks, IgnoreClient, With
<1>2. /\ r.all \subseteq s.all /\ r.cwi \subseteq s.cwi
      /\ r.savedAll \subseteq s.savedAll /\ r.savedCwi \subseteq s.savedCwi
      /\ r.impervious = s.impervious /\ r.grab = s.grab
    BY DEF Masks, IgnoreClient
<1>3. /\ s.socks = s.all => r.socks = r.all
      /\ s.savedSocks = s.savedAll => r.savedSocks = r.savedAll
    BY DEF Masks, IgnoreClient
<1> HIDE DEF r
<1>4. Within(r, K)
    BY <1>2, <1>3 DEF Within
<1> QED BY <1>1, <1>2, <1>4 DEF r

LEMMA OnlyListenWithin ==
    ASSUME NEW s \in Masks, NEW K, Within(s, K), NEW c \in Clients,
           NEW fd \in Fd, fd \in K
    PROVE  /\ OnlyListenToOneClient(s, c, fd) \in Masks
           /\ Within(OnlyListenToOneClient(s, c, fd), K)
           /\ OnlyListenToOneClient(s, c, fd).impervious = s.impervious
<1> DEFINE r == OnlyListenToOneClient(s, c, fd)
<1>1. CASE s.grab # 0
    BY <1>1 DEF OnlyListenToOneClient
<1>2. CASE s.grab = 0
  <2>1. r \in Masks
    BY <1>2 DEF Masks, OnlyListenToOneClient
  <2>2. /\ r.all = (s.all \cap s.impervious) \cup {fd}
        /\ r.socks = (s.socks \ s.all) \cup r.all
        /\ r.cwi \subseteq s.cwi
        /\ r.impervious = s.impervious
    BY <1>2 DEF Masks, OnlyListenToOneClient
  <2>3. r.savedAll = s.all /\ r.savedSocks = s.socks /\ r.savedCwi \subseteq s.cwi
    BY <1>2 DEF Masks, OnlyListenToOneClient
  <2> HIDE DEF r
  <2>4. Within(r, K)
    BY <2>2, <2>3 DEF Within
  <2> QED BY <2>1, <2>2, <2>4 DEF r
<1> QED BY <1>1, <1>2

LEMMA AddWithin ==
    ASSUME NEW s \in Masks, NEW K, Within(s, K), NEW fd \in Fd
    PROVE  /\ AddConnection(s, fd) \in Masks
           /\ Within(AddConnection(s, fd), K \cup {fd})
           /\ AddConnection(s, fd).grab = s.grab
           /\ AddConnection(s, fd).impervious = s.impervious
    BY DEF Masks, Within, AddConnection

LEMMA PerviousWithin ==
    ASSUME NEW s \in Masks, NEW K, Within(s, K), NEW c \in Clients,
           NEW fd \in Fd, fd \in K
    PROVE  /\ MakeClientGrabPervious(s, c, fd) \in Masks
           /\ Within(MakeClientGrabPervious(s, c, fd), K)
           /\ MakeClientGrabPervious(s, c, fd).grab = s.grab
           /\ MakeClientGrabPervious(s, c, fd).impervious = s.impervious \ {fd}
<1>1. CASE Suspends(s, c)
    BY <1>1 DEF Masks, Within, MakeClientGrabPervious, Suspends
<1>2. CASE ~Suspends(s, c)
    BY <1>2 DEF Masks, Within, MakeClientGrabPervious
<1> QED BY <1>1, <1>2

-----------------------------------------------------------------------------
(* The inductive invariant.                                                *)

(* A client has a descriptor exactly while it is connected, and only then  *)
(* a transport or a sleep; its close-down mode changes once it runs.       *)
Slots ==
    \A c \in Clients :
        /\ clients[c].state \in {"Initial", "Running"} <=> clients[c].fd # 0
        /\ clients[c].asleep \/ clients[c].open => clients[c].fd # 0
        /\ clients[c].state = "Initial" => clients[c].mode = "DestroyAll"

(* Nobody waits for the grab, or has work queued, after its connection.    *)
Queues ==
    /\ grabWaiters \subseteq Live
    /\ workQueue \subseteq Live \cup {0}

DataTypeOK ==
    /\ clients \in [Clients -> ClientRec]
    /\ conn \in [Fd -> Clients \cup {0}]
    /\ m \in Masks
    /\ grabState \in GrabStates
    /\ grabClient \in Clients \cup {0}
    /\ nClients \in Nat
    /\ nextFreeClientID \in 1 .. MAXCLIENTS
    /\ dispatchException \in BOOLEAN
    /\ holds \subseteq Clients

DataInv ==
    /\ DataTypeOK
    /\ Slots
    /\ Queues
    /\ TranslationAgrees
    /\ Within(m, Known)
    /\ LeastFreeSlot
    /\ CountsRunning

SchedTypeOK ==
    /\ pc \in Places
    /\ checking \subseteq Fd
    /\ ready \subseteq Clients
    /\ cur \in Clients \cup {0}
    /\ yield \in BOOLEAN
    /\ times \in 0 .. MAX_TIMES_PER

(* The client served is connected from the reading of a request to its     *)
(* end, and has room to put the request back.                              *)
Serving ==
    /\ pc \in {"execute", "close"} => cur \in Live
    /\ pc = "execute" => clients[cur].buffered < MaxPending
    /\ pc \in {"run", "execute", "close"} => cur \in Clients \ ready

IInv == DataInv /\ SchedTypeOK /\ Serving

LEMMA InvImplies == IInv => TypeOK /\ SetsAgree /\ LeastFreeSlot /\ CountsRunning
    BY DEF IInv, DataInv, DataTypeOK, SchedTypeOK, Within, SetsAgree, TypeOK, Queues,
           Live, Saved

(* A step that moves the server and changes nothing it works on.           *)
LEMMA Frame ==
    ASSUME DataInv, UNCHANGED <<slotVars, m, grabVars, workQueue>>
    PROVE  DataInv'
    BY DEF DataInv, DataTypeOK, Slots, Queues, TranslationAgrees, Within, Known, Live,
           LeastFreeSlot, LeastAbove, CountsRunning, Running, slotVars, grabVars

(* A step that connects, counts and closes nobody.                         *)
LEMMA Keep ==
    ASSUME DataInv,
           clients' \in [Clients -> ClientRec],
           \A d \in Clients :
               /\ clients'[d].fd = clients[d].fd
               /\ clients'[d].state = clients[d].state
               /\ clients'[d].asleep \/ clients'[d].open => clients'[d].fd # 0
               /\ clients'[d].state = "Initial" => clients'[d].mode = "DestroyAll",
           UNCHANGED <<conn, nextFreeClientID, nClients, dispatchException>>,
           m' \in Masks, Within(m', Known),
           grabState' \in GrabStates, grabClient' \in Clients \cup {0},
           grabWaiters' \subseteq Live, holds' \subseteq Clients,
           workQueue' \subseteq Live \cup {0}
    PROVE  DataInv'
<1>1. Live' = Live /\ Known' = Known /\ Running' = Running
    BY DEF Live, Known, Running
<1>2. DataTypeOK' BY DEF DataInv, DataTypeOK
<1>3. Slots' BY DEF DataInv, Slots
<1>4. Queues' BY <1>1 DEF Queues
<1>5. TranslationAgrees'
  <2>1. \A c \in Live' : conn'[clients'[c].fd] = c
      BY <1>1 DEF DataInv, TranslationAgrees, Live
  <2>2. \A fd \in Known' : clients'[conn'[fd]].fd = fd
      BY <1>1 DEF DataInv, DataTypeOK, TranslationAgrees, Known
  <2> QED BY <2>1, <2>2 DEF TranslationAgrees
<1>6. Within(m, Known)' BY <1>1 DEF Within
<1>7. LeastFreeSlot' BY DEF DataInv, LeastFreeSlot, LeastAbove
<1>8. CountsRunning' BY <1>1 DEF DataInv, CountsRunning
<1> QED BY <1>2, <1>3, <1>4, <1>5, <1>6, <1>7, <1>8 DEF DataInv

-----------------------------------------------------------------------------
(* Connections that come and go.                                           *)

LEMMA KnownFd ==
    ASSUME DataInv, NEW c \in Live
    PROVE  /\ clients[c].fd \in Fd /\ clients[c].fd \in Known
           /\ conn[clients[c].fd] = c
    BY DEF DataInv, DataTypeOK, TranslationAgrees, Live, Known, ClientRec, Clients

LEMMA RunningFinite == IsFiniteSet(Running) /\ Cardinality(Running) \in Nat
<1>1. IsFiniteSet(Clients)
    BY FS_Interval, ClientsAssumption DEF Clients
<1>2. Running \subseteq Clients BY DEF Running
<1> QED BY <1>1, <1>2, FS_Subset, FS_CardinalityType

(* UngrabServer keeps the sets within the descriptors in use.              *)
LEMMA UngrabWithin ==
    ASSUME DataInv, NEW w \in Clients \cup {0}, IsFirstWaiter(w)
    PROVE  /\ Ungrabbed(w) \in Masks /\ Within(Ungrabbed(w), Known)
           /\ Ungrabbed(w).grab = 0
           /\ Ungrabbed(w).impervious = m.impervious
           /\ w # 0 => w \in grabWaiters
<1>1. w # 0 => w \in grabWaiters BY DEF IsFirstWaiter
<1>2. /\ ListenToAllClients(m) \in Masks /\ Within(ListenToAllClients(m), Known)
      /\ ListenToAllClients(m).grab = 0
      /\ ListenToAllClients(m).impervious = m.impervious
    BY ListenToAllWithin DEF DataInv, DataTypeOK
<1>3. CASE w = 0 BY <1>1, <1>2, <1>3 DEF Ungrabbed
<1>4. CASE w # 0
  <2>1. w \in Live /\ w \in Clients BY <1>1, <1>4 DEF DataInv, Queues
  <2>2. clients[w].fd \in Fd /\ clients[w].fd \in Known BY <2>1, KnownFd
  <2>3. /\ AttendClient(ListenToAllClients(m), w, clients[w].fd) \in Masks
        /\ Within(AttendClient(ListenToAllClients(m), w, clients[w].fd), Known)
        /\ AttendClient(ListenToAllClients(m), w, clients[w].fd).grab = 0
        /\ AttendClient(ListenToAllClients(m), w, clients[w].fd).impervious = m.impervious
      BY <1>2, <2>1, <2>2, AttendWithin
  <2> QED BY <1>1, <1>4, <2>3 DEF Ungrabbed
<1> QED BY <1>3, <1>4

LEMMA ClosedSlotType ==
    ASSUME NEW k \in ClientRec, NEW really \in BOOLEAN
    PROVE  /\ ClosedSlot(k, really) \in ClientRec
           /\ ClosedSlot(k, really).fd = 0
           /\ ClosedSlot(k, really).state = IF really THEN "Gone" ELSE "Retained"
           /\ ~ClosedSlot(k, really).asleep /\ ~ClosedSlot(k, really).open
<1>1. 0 \in 0 .. MaxPending BY SchedulerAssumption
<1>2. CASE really
    BY <1>1, <1>2 DEF ClosedSlot, ClientRec, NoClient, CloseDownModes
<1>3. CASE ~really
    BY <1>1, <1>3 DEF ClosedSlot, ClientRec
<1> QED BY <1>2, <1>3

LEMMA CloseKeepsData ==
    ASSUME DataInv, NEW c \in Clients, NEW mode \in CloseDownModes,
           clients[c].state = "Initial" => mode = "DestroyAll",
           CloseDownClient(c, mode)
    PROVE  /\ DataInv'
           /\ \A d \in Clients \ {c} : clients'[d] = clients[d]
           /\ Live' = Live \ {c}
           /\ UNCHANGED grabClient
<1> DEFINE k == clients[c]
           gone == k.fd = 0
           really == gone \/ mode = "DestroyAll"
           ungrabs == ~gone /\ grabState # "GrabNone" /\ grabClient = c
<1>1. PICK w \in Clients \cup {0} :
        /\ IF ungrabs THEN IsFirstWaiter(w) ELSE w = 0
        /\ grabState' = IF ungrabs THEN "GrabNone" ELSE grabState
        /\ grabWaiters' = IF gone THEN grabWaiters ELSE grabWaiters \ {w, c}
        /\ m' = IF gone THEN m
                ELSE CloseDownFileDescriptor(IF ungrabs THEN Ungrabbed(w) ELSE m, k.fd)
        /\ conn' = IF gone THEN conn ELSE [conn EXCEPT ![k.fd] = 0]
        /\ workQueue' = workQueue \ {c}
        /\ nClients' = IF ~gone /\ CountsConnection(k.state) THEN nClients - 1 ELSE nClients
        /\ dispatchException' = \/ dispatchException
                                \/ really /\ MayReset(k.state, nClients')
        /\ clients' = [clients EXCEPT ![c] = ClosedSlot(k, really)]
        /\ nextFreeClientID' = IF really THEN Least(nextFreeClientID, c)
                               ELSE nextFreeClientID
        /\ holds' = holds \ {c}
        /\ UNCHANGED grabClient
    BY DEF CloseDownClient
<1>2. k \in ClientRec /\ gone \in BOOLEAN /\ really \in BOOLEAN /\ ungrabs \in BOOLEAN
    BY DEF DataInv, DataTypeOK
<1>3. /\ clients' \in [Clients -> ClientRec]
      /\ \A d \in Clients \ {c} : clients'[d] = clients[d]
      /\ clients'[c].fd = 0
      /\ clients'[c].state = IF really THEN "Gone" ELSE "Retained"
      /\ ~clients'[c].asleep /\ ~clients'[c].open
  <2>1. /\ ClosedSlot(k, really) \in ClientRec
        /\ ClosedSlot(k, really).fd = 0
        /\ ClosedSlot(k, really).state = IF really THEN "Gone" ELSE "Retained"
        /\ ~ClosedSlot(k, really).asleep /\ ~ClosedSlot(k, really).open
      BY <1>2, ClosedSlotType
  <2>2. clients \in [Clients -> ClientRec] BY DEF DataInv, DataTypeOK
  <2> HIDE DEF really, k
  <2> QED BY <1>1, <2>1, <2>2
<1>4. Live' = Live \ {c}
    BY <1>3 DEF Live
<1>5. Known' = IF gone THEN Known ELSE Known \ {k.fd}
    BY <1>1 DEF Known, DataInv, DataTypeOK
<1>6. m' \in Masks /\ Within(m', Known')
  <2>1. CASE gone
      BY <1>1, <1>5, <2>1 DEF DataInv, DataTypeOK
  <2>2. CASE ~gone
    <3>1. k.fd \in Fd BY <1>2, <2>2 DEF ClientRec
    <3>2. CASE ungrabs
      <4>1. Ungrabbed(w) \in Masks /\ Within(Ungrabbed(w), Known)
          BY <1>1, <3>2, UngrabWithin
      <4>2. /\ CloseDownFileDescriptor(Ungrabbed(w), k.fd) \in Masks
            /\ Within(CloseDownFileDescriptor(Ungrabbed(w), k.fd), Known \ {k.fd})
          BY <4>1, <3>1, CloseWithin
      <4> QED BY <1>1, <1>5, <2>2, <3>2, <4>2
    <3>3. CASE ~ungrabs
      <4>1. m \in Masks /\ Within(m, Known) BY DEF DataInv, DataTypeOK
      <4>2. /\ CloseDownFileDescriptor(m, k.fd) \in Masks
            /\ Within(CloseDownFileDescriptor(m, k.fd), Known \ {k.fd})
          BY <4>1, <3>1, CloseWithin
      <4> QED BY <1>1, <1>5, <2>2, <3>3, <4>2
    <3> QED BY <3>2, <3>3
  <2> QED BY <2>1, <2>2
<1>7. nClients' \in Nat /\ nClients' = Cardinality(Running')
  <2>1. nClients \in Nat /\ nClients = Cardinality(Running)
      BY DEF DataInv, DataTypeOK, CountsRunning
  <2>2. gone <=> k.state \notin {"Initial", "Running"}
      BY DEF DataInv, Slots
  <2>3. CASE k.state = "Running"
    <3>1. c \in Running /\ Running' = Running \ {c} BY <1>3, <2>3 DEF Running
    <3>2. Cardinality(Running') = Cardinality(Running) - 1 /\ Cardinality(Running) # 0
      <4>1. Cardinality(Running \ {c}) = Cardinality(Running) - 1
          BY <3>1, RunningFinite, FS_RemoveElement
      <4>2. Cardinality(Running) # 0 BY <3>1, RunningFinite, FS_EmptySet
      <4> QED BY <3>1, <4>1, <4>2
    <3>3. nClients' = nClients - 1 BY <1>1, <2>2, <2>3 DEF CountsConnection
    <3> QED BY <2>1, <3>2, <3>3
  <2>4. CASE k.state # "Running"
    <3>1. Running' = Running BY <1>3, <2>4 DEF Running
    <3>2. nClients' = nClients BY <1>1, <2>2, <2>4 DEF CountsConnection
    <3> QED BY <2>1, <3>1, <3>2
  <2> QED BY <2>3, <2>4
<1>8. nextFreeClientID' \in 1 .. MAXCLIENTS /\ LeastFreeSlot'
  <2>1. nextFreeClientID \in 1 .. MAXCLIENTS /\ LeastAbove(1, nextFreeClientID, clients)
      BY DEF DataInv, DataTypeOK, LeastFreeSlot
  <2>2. k.fd # 0 => k.state # "Gone" BY DEF DataInv, Slots
  <2>3. \A d \in Clients : d # c => clients'[d] = clients[d] BY <1>3
  <2>4. CASE really
    <3>1. nextFreeClientID' = IF c < nextFreeClientID THEN c ELSE nextFreeClientID
        BY <1>1, <2>4 DEF Least
    <3>2. clients'[c].state = "Gone" BY <1>3, <2>4
    <3> HIDE DEF really
    <3> QED BY <2>1, <2>3, <3>1, <3>2, ClientsAssumption
            DEF LeastFreeSlot, LeastAbove, Clients
  <2>5. CASE ~really
    <3>1. nextFreeClientID' = nextFreeClientID BY <1>1, <2>5
    <3>2. k.state # "Gone" /\ clients'[c].state # "Gone" BY <1>3, <2>2, <2>5
    <3> HIDE DEF really
    <3> QED BY <2>1, <2>3, <3>1, <3>2, ClientsAssumption
            DEF LeastFreeSlot, LeastAbove, Clients
  <2> QED BY <2>4, <2>5
<1>9. DataTypeOK'
  <2>1. conn' \in [Fd -> Clients \cup {0}]
      BY <1>1 DEF DataInv, DataTypeOK
  <2>2. dispatchException' \in BOOLEAN
      BY <1>1, <1>2 DEF DataInv, DataTypeOK, MayReset
  <2>3. grabState' \in GrabStates /\ grabClient' \in Clients \cup {0} /\ holds' \subseteq Clients
      BY <1>1 DEF DataInv, DataTypeOK, GrabStates
  <2> QED BY <1>3, <1>6, <1>7, <1>8, <2>1, <2>2, <2>3 DEF DataTypeOK
<1>10. Slots'
  <2>1. ~(clients'[c].state \in {"Initial", "Running"}) /\ clients'[c].state # "Initial"
      BY <1>3
  <2> QED BY <1>3, <2>1 DEF DataInv, Slots
<1>11. Queues'
  <2>1. grabWaiters' \subseteq Live \ {c}
    <3>1. CASE gone
        BY <1>1, <3>1 DEF DataInv, Queues, Live
    <3>2. CASE ~gone
        BY <1>1, <3>2 DEF DataInv, Queues
    <3> QED BY <3>1, <3>2
  <2>2. workQueue' \subseteq (Live \ {c}) \cup {0}
      BY <1>1 DEF DataInv, Queues
  <2> QED BY <1>4, <2>1, <2>2 DEF Queues
<1>12. TranslationAgrees'
  <2>1. ASSUME NEW d \in Live'
        PROVE  conn'[clients'[d].fd] = d
    <3>1. d \in Live /\ d # c /\ clients'[d] = clients[d] /\ d \in Clients
        BY <1>3, <1>4, <2>1 DEF Live
    <3>2. conn[clients[d].fd] = d /\ clients[d].fd \in Fd BY <3>1, KnownFd
    <3>3. ~gone => conn[k.fd] = c BY KnownFd DEF Live
    <3> QED BY <1>1, <3>1, <3>2, <3>3 DEF DataInv, DataTypeOK
  <2>2. ASSUME NEW fd \in Known'
        PROVE  clients'[conn'[fd]].fd = fd
    <3>1. fd \in Known /\ (~gone => fd # k.fd) /\ fd \in Fd
        BY <1>5, <2>2 DEF Known
    <3>2. conn'[fd] = conn[fd] /\ conn[fd] \in Clients
        BY <1>1, <3>1 DEF DataInv, DataTypeOK, Known
    <3>3. clients[conn[fd]].fd = fd BY <3>1 DEF DataInv, TranslationAgrees
    <3>4. conn[fd] # c
      <4>1. k.fd = 0 => fd # k.fd BY <3>1, FdAssumption DEF Fd
      <4> QED BY <3>1, <3>3, <4>1
    <3> QED BY <1>3, <3>2, <3>3, <3>4
  <2> QED BY <2>1, <2>2 DEF TranslationAgrees
<1> QED BY <1>1, <1>3, <1>4, <1>6, <1>7, <1>8, <1>9, <1>10, <1>11, <1>12
        DEF DataInv, CountsRunning

(* A new connection takes the slot at nextFreeClientID, a free one.        *)
LEMMA AcceptKeepsData ==
    ASSUME DataInv, NEW fd \in Fd, Accept(fd)
    PROVE  DataInv'
<1> DEFINE i == nextFreeClientID
           new == [NoClient EXCEPT !.state = "Initial", !.fd = fd, !.open = TRUE]
<1>1. /\ i \in Clients /\ conn[fd] = 0
      /\ clients' = [clients EXCEPT ![i] = new]
      /\ nextFreeClientID' \in i .. MAXCLIENTS
      /\ LeastAbove(i, nextFreeClientID', clients')
      /\ conn' = [conn EXCEPT ![fd] = i]
      /\ m' = AddConnection(m, fd)
      /\ UNCHANGED <<nClients, dispatchException, grabVars, workQueue>>
    BY ClientsAssumption DEF Accept, DataInv, DataTypeOK, Clients
<1>2. /\ new \in ClientRec /\ new.state = "Initial" /\ new.mode = "DestroyAll"
      /\ new.fd = fd /\ ~new.asleep
  <2>1. 0 \in 0 .. MaxPending BY SchedulerAssumption
  <2> QED BY <2>1 DEF ClientRec, NoClient, CloseDownModes
<1> HIDE DEF new
<1>3. /\ clients' \in [Clients -> ClientRec]
      /\ clients'[i] = new
      /\ \A d \in Clients \ {i} : clients'[d] = clients[d]
    BY <1>1, <1>2 DEF DataInv, DataTypeOK
<1>4. LeastAbove(1, i, clients) /\ clients[i].state = "Gone" /\ clients[i].fd = 0
  <2>1. LeastAbove(1, i, clients) /\ i \in 1 .. MAXCLIENTS
      BY DEF DataInv, DataTypeOK, LeastFreeSlot
  <2>2. clients[i].state = "Gone" BY <1>1, <2>1, ClientsAssumption DEF LeastAbove
  <2> QED BY <1>1, <2>1, <2>2 DEF DataInv, Slots
<1>5. fd # 0 BY FdAssumption DEF Fd
<1>6. Live' = Live \cup {i} BY <1>1, <1>2, <1>3, <1>5 DEF Live
<1>7. Known' = Known \cup {fd}
    BY <1>1, ClientsAssumption DEF Known, DataInv, DataTypeOK, Clients
<1>8. Running' = Running BY <1>1, <1>2, <1>3, <1>4 DEF Running
<1>9. m' \in Masks /\ Within(m', Known')
    BY <1>1, <1>7, AddWithin DEF DataInv, DataTypeOK
<1>10. nextFreeClientID' \in 1 .. MAXCLIENTS /\ LeastFreeSlot'
  <2>1. i \in 1 .. MAXCLIENTS /\ MAXCLIENTS \in Nat
      BY ClientsAssumption DEF DataInv, DataTypeOK
  <2>2. nextFreeClientID' \in i .. MAXCLIENTS BY <1>1
  <2>3. \A h \in Clients : h < i => clients'[h].state # "Gone"
      BY <1>3, <1>4, <2>1 DEF LeastAbove, Clients
  <2> HIDE DEF i
  <2> QED BY <1>1, <2>1, <2>2, <2>3 DEF LeastFreeSlot, LeastAbove, Clients
<1>11. DataTypeOK'
  <2>1. conn' \in [Fd -> Clients \cup {0}] BY <1>1 DEF DataInv, DataTypeOK
  <2> QED BY <1>1, <1>3, <1>9, <1>10, <2>1 DEF DataInv, DataTypeOK, grabVars
<1>12. Slots'
    BY <1>2, <1>3, <1>5 DEF DataInv, Slots
<1>13. Queues'
    BY <1>1, <1>6 DEF DataInv, Queues, grabVars
<1>14. TranslationAgrees'
  <2>1. ASSUME NEW d \in Live'
        PROVE  conn'[clients'[d].fd] = d
    <3>1. CASE d = i BY <1>1, <1>2, <1>3, <3>1 DEF DataInv, DataTypeOK
    <3>2. CASE d # i
      <4>1. d \in Live /\ clients'[d] = clients[d] BY <1>3, <1>6, <2>1, <3>2 DEF Live
      <4>2. clients[d].fd \in Fd /\ conn[clients[d].fd] = d BY <4>1, KnownFd
      <4>3. clients[d].fd # fd
          BY <1>1, <4>1, <4>2, ClientsAssumption DEF Live, Clients
      <4> QED BY <1>1, <4>1, <4>2, <4>3 DEF DataInv, DataTypeOK
    <3> QED BY <3>1, <3>2
  <2>2. ASSUME NEW f \in Known'
        PROVE  clients'[conn'[f]].fd = f
    <3>1. CASE f = fd BY <1>1, <1>2, <1>3, <3>1 DEF DataInv, DataTypeOK
    <3>2. CASE f # fd
      <4>1. f \in Known /\ f \in Fd BY <1>7, <2>2, <3>2 DEF Known
      <4>2. conn'[f] = conn[f] /\ conn[f] \in Clients /\ clients[conn[f]].fd = f
          BY <1>1, <3>2, <4>1 DEF DataInv, DataTypeOK, TranslationAgrees, Known
      <4>3. conn[f] # i
          BY <1>4, <4>1, <4>2, FdAssumption DEF Fd
      <4> QED BY <1>3, <4>2, <4>3
    <3> QED BY <3>1, <3>2
  <2> QED BY <2>1, <2>2 DEF TranslationAgrees
<1>15. CountsRunning'
    BY <1>1, <1>8 DEF DataInv, CountsRunning
<1> QED BY <1>9, <1>10, <1>11, <1>12, <1>13, <1>14, <1>15 DEF DataInv

(* A client refused at its set-up is not counted; one admitted is.         *)
LEMMA SetUpKeepsData ==
    ASSUME DataInv, Serving, SetUp
    PROVE  DataInv'
<1>1. cur \in Live /\ cur \in Clients /\ clients[cur].state = "Initial"
      /\ clients[cur] \in ClientRec
    BY DEF SetUp, Serving, Live, DataInv, DataTypeOK
<1>2. UNCHANGED <<conn, nextFreeClientID, dispatchException, m, grabVars, workQueue>>
    BY DEF SetUp
<1>3. CASE /\ clients' = [clients EXCEPT ![cur].exception = TRUE]
           /\ UNCHANGED nClients
  <2>1. clients' \in [Clients -> ClientRec]
      BY <1>1, <1>3 DEF DataInv, DataTypeOK, ClientRec
  <2>2. \A d \in Clients :
            /\ clients'[d].fd = clients[d].fd
            /\ clients'[d].state = clients[d].state
            /\ clients'[d].asleep = clients[d].asleep
            /\ clients'[d].open = clients[d].open
            /\ clients'[d].mode = clients[d].mode
      BY <1>1, <1>3 DEF DataInv, DataTypeOK, ClientRec
  <2> QED BY <1>2, <1>3, <2>1, <2>2, Keep DEF DataInv, DataTypeOK, Slots, Queues, grabVars
<1>4. CASE /\ clients' = [clients EXCEPT ![cur].state = "Running"]
           /\ nClients' = nClients + 1
  <2>1. clients' \in [Clients -> ClientRec]
      BY <1>1, <1>4 DEF DataInv, DataTypeOK, ClientRec
  <2>2. /\ clients'[cur].state = "Running"
        /\ \A d \in Clients :
            /\ d # cur => clients'[d].state = clients[d].state
            /\ clients'[d].fd = clients[d].fd
            /\ clients'[d].asleep = clients[d].asleep
            /\ clients'[d].open = clients[d].open
            /\ clients'[d].mode = clients[d].mode
      BY <1>1, <1>4 DEF DataInv, DataTypeOK, ClientRec
  <2>3. Live' = Live /\ Known' = Known
      BY <1>2, <2>2 DEF Live, Known
  <2>4. nClients' \in Nat /\ nClients' = Cardinality(Running')
    <3>1. cur \notin Running /\ Running' = Running \cup {cur}
        BY <1>1, <2>2 DEF Running
    <3>2. Cardinality(Running \cup {cur}) = Cardinality(Running) + 1
        BY <3>1, RunningFinite, FS_AddElement
    <3> QED BY <1>4, <3>1, <3>2, RunningFinite DEF DataInv, CountsRunning
  <2>5. DataTypeOK'
      BY <1>2, <2>1, <2>4 DEF DataInv, DataTypeOK, grabVars
  <2>6. Slots' BY <1>1, <2>2 DEF DataInv, Slots, Live
  <2>7. Queues' BY <1>2, <2>3 DEF DataInv, Queues, grabVars
  <2>8. TranslationAgrees'
    <3>1. \A c \in Live' : conn'[clients'[c].fd] = c
        BY <1>2, <2>2, <2>3 DEF DataInv, TranslationAgrees, Live
    <3>2. \A fd \in Known' : clients'[conn'[fd]].fd = fd
        BY <1>2, <2>2, <2>3 DEF DataInv, DataTypeOK, TranslationAgrees, Known
    <3> QED BY <3>1, <3>2 DEF TranslationAgrees
  <2>9. Within(m, Known)' BY <1>2, <2>3 DEF DataInv, Within
  <2>10. LeastFreeSlot'
      BY <1>1, <1>2, <2>2 DEF DataInv, LeastFreeSlot, LeastAbove
  <2> QED BY <2>4, <2>5, <2>6, <2>7, <2>8, <2>9, <2>10 DEF DataInv, CountsRunning
<1> QED BY <1>3, <1>4 DEF SetUp

(* CloseDownRetainedResources frees slots of clients long disconnected.    *)
LEMMA KillTemporaryKeepsData ==
    ASSUME DataInv, KillTemporary
    PROVE  /\ DataInv'
           /\ \A d \in Clients : clients'[d].fd = clients[d].fd
<1> DEFINE dead == {c \in Clients : clients[c].state = "Retained"
                                    /\ clients[c].mode = "RetainTemporary"}
<1>1. /\ clients' = [c \in Clients |-> IF c \in dead THEN NoClient ELSE clients[c]]
      /\ nextFreeClientID' \in dead \cup {nextFreeClientID}
      /\ \A c \in dead \cup {nextFreeClientID} : nextFreeClientID' <= c
      /\ UNCHANGED <<conn, nClients, dispatchException, m, grabVars, workQueue>>
    BY DEF KillTemporary
<1>2. NoClient \in ClientRec
  <2>1. 0 \in 0 .. MaxPending BY SchedulerAssumption
  <2> QED BY <2>1 DEF ClientRec, NoClient, CloseDownModes
<1>3. /\ clients' \in [Clients -> ClientRec]
      /\ \A d \in Clients : d \notin dead => clients'[d] = clients[d]
      /\ \A d \in dead : /\ clients'[d].state = "Gone" /\ clients'[d].fd = 0
                         /\ ~clients'[d].asleep /\ ~clients'[d].open
    BY <1>1, <1>2 DEF DataInv, DataTypeOK, NoClient
<1>4. /\ \A d \in dead : clients[d].fd = 0 /\ clients[d].state = "Retained"
      /\ dead \subseteq Clients
    BY DEF DataInv, Slots
<1> HIDE DEF dead
<1>5. \A d \in Clients : clients'[d].fd = clients[d].fd
    BY <1>3, <1>4
<1>6. Live' = Live /\ Known' = Known
    BY <1>1, <1>5 DEF Live, Known
<1>7. Running' = Running
    BY <1>3, <1>4 DEF Running
<1>8. nextFreeClientID' \in 1 .. MAXCLIENTS /\ LeastFreeSlot'
  <2>1. nextFreeClientID \in 1 .. MAXCLIENTS /\ LeastAbove(1, nextFreeClientID, clients)
      BY DEF DataInv, DataTypeOK, LeastFreeSlot
  <2>2. nextFreeClientID' \in 1 .. MAXCLIENTS /\ nextFreeClientID' <= nextFreeClientID
      BY <1>1, <1>4, <2>1, ClientsAssumption DEF Clients
  <2>3. nextFreeClientID' \in Clients => clients'[nextFreeClientID'].state = "Gone"
      BY <1>1, <1>3, <2>1 DEF LeastAbove
  <2>4. ASSUME NEW h \in Clients, h < nextFreeClientID'
        PROVE  clients'[h].state # "Gone"
    <3>1. h \notin dead BY <1>1, <1>4, <2>2, <2>4, ClientsAssumption DEF Clients
    <3>2. clients[h].state # "Gone"
        BY <2>1, <2>2, <2>4, ClientsAssumption DEF LeastAbove, Clients
    <3> QED BY <1>3, <3>1, <3>2
  <2> QED BY <2>2, <2>3, <2>4 DEF LeastFreeSlot, LeastAbove
<1>9. DataTypeOK' BY <1>1, <1>3, <1>8 DEF DataInv, DataTypeOK, grabVars
<1>10. Slots'
  <2>1. ASSUME NEW d \in Clients, d \in dead
        PROVE  /\ clients'[d].state \in {"Initial", "Running"} <=> clients'[d].fd # 0
               /\ clients'[d].asleep \/ clients'[d].open => clients'[d].fd # 0
               /\ clients'[d].state = "Initial" => clients'[d].mode = "DestroyAll"
      BY <1>3, <2>1
  <2>2. ASSUME NEW d \in Clients, d \notin dead
        PROVE  /\ clients'[d].state \in {"Initial", "Running"} <=> clients'[d].fd # 0
               /\ clients'[d].asleep \/ clients'[d].open => clients'[d].fd # 0
               /\ clients'[d].state = "Initial" => clients'[d].mode = "DestroyAll"
      BY <1>3, <2>2 DEF DataInv, Slots
  <2> QED BY <2>1, <2>2 DEF Slots
<1>11. Queues' BY <1>1, <1>6 DEF DataInv, Queues, grabVars
<1>12. TranslationAgrees'
  <2>1. \A c \in Live' : conn'[clients'[c].fd] = c
      BY <1>1, <1>5, <1>6 DEF DataInv, TranslationAgrees, Live
  <2>2. \A fd \in Known' : clients'[conn'[fd]].fd = fd
      BY <1>1, <1>5, <1>6 DEF DataInv, DataTypeOK, TranslationAgrees, Known
  <2> QED BY <2>1, <2>2 DEF TranslationAgrees
<1>13. Within(m, Known)' BY <1>1, <1>6 DEF DataInv, Within
<1>14. CountsRunning' BY <1>1, <1>7 DEF DataInv, CountsRunning
<1> QED BY <1>5, <1>8, <1>9, <1>10, <1>11, <1>12, <1>13, <1>14 DEF DataInv

(* Dispatch starts over with an empty table.                               *)
LEMMA ResetKeepsData ==
    ASSUME DataInv, Reset
    PROVE  DataInv'
<1>1. /\ \A c \in Clients : clients[c].state = "Gone"
      /\ nextFreeClientID' = 1 /\ nClients' = 0 /\ dispatchException' = FALSE
      /\ UNCHANGED <<clients, conn, m, grabVars, workQueue>>
    BY DEF Reset
<1>2. Live' = Live /\ Known' = Known BY <1>1 DEF Live, Known
<1>3. CountsRunning'
  <2>1. Running' = {} BY <1>1 DEF Running
  <2> QED BY <1>1, <2>1, FS_EmptySet DEF CountsRunning
<1>4. LeastFreeSlot'
    BY <1>1, ClientsAssumption DEF LeastFreeSlot, LeastAbove, Clients
<1>5. DataTypeOK'
  <2>1. nextFreeClientID' \in 1 .. MAXCLIENTS /\ nClients' \in Nat
      BY <1>1, ClientsAssumption
  <2>2. dispatchException' \in BOOLEAN BY <1>1
  <2> QED BY <1>1, <2>1, <2>2 DEF DataInv, DataTypeOK, grabVars
<1>6. Slots' /\ Queues'
    BY <1>1, <1>2 DEF DataInv, Slots, Queues, grabVars
<1>7. TranslationAgrees' /\ Within(m, Known)'
    BY <1>1, <1>2 DEF DataInv, TranslationAgrees, Within
<1> QED BY <1>3, <1>4, <1>5, <1>6, <1>7 DEF DataInv

-----------------------------------------------------------------------------
(* The invariant along every action.                                       *)

(* A step that changes slots, but not who is connected or counted, nor the *)
(* server's place: its client keeps its descriptor and its buffer.         *)
LEMMA ServingKept ==
    ASSUME IInv, UNCHANGED <<checking, schedVars>>,
           \A d \in Clients : /\ clients'[d].fd = clients[d].fd
                              /\ clients'[d].buffered = clients[d].buffered
    PROVE  SchedTypeOK' /\ Serving'
    BY DEF IInv, SchedTypeOK, Serving, Live, schedVars

(* A request that returned: its client is still connected.                 *)
LEMMA ReturnKept ==
    ASSUME IInv, pc = "execute", UNCHANGED <<checking, ready, cur>>,
           pc' \in {"run", "close"}, yield' \in BOOLEAN, times' \in 0 .. MAX_TIMES_PER,
           \A d \in Clients : clients'[d].fd = clients[d].fd
    PROVE  SchedTypeOK' /\ Serving'
    BY DEF IInv, SchedTypeOK, Serving, Live, Places

(* What is known of the client whose request is executed.                  *)
LEMMA Served ==
    ASSUME IInv, pc = "execute"
    PROVE  /\ cur \in Live /\ cur \in Clients /\ clients[cur] \in ClientRec
           /\ clients[cur].fd \in Fd /\ clients[cur].fd \in Known
           /\ clients[cur].buffered \in 0 .. MaxPending - 1
           /\ m \in Masks /\ Within(m, Known)
           /\ grabState \in GrabStates /\ grabClient \in Clients \cup {0}
           /\ grabWaiters \subseteq Live /\ workQueue \subseteq Live \cup {0}
           /\ holds \subseteq Clients
           /\ clients \in [Clients -> ClientRec]
<1>1. cur \in Live /\ cur \in Clients BY DEF IInv, Serving, Live
<1>2. clients[cur] \in ClientRec BY <1>1 DEF IInv, DataInv, DataTypeOK
<1>3. clients[cur].fd \in Fd /\ clients[cur].fd \in Known
    BY <1>1, KnownFd DEF IInv
<1>4. clients[cur].buffered \in 0 .. MaxPending - 1
    BY <1>2, SchedulerAssumption DEF IInv, Serving, ClientRec
<1> QED BY <1>1, <1>2, <1>3, <1>4 DEF IInv, DataInv, DataTypeOK, Queues

(* A step that only changes the descriptor sets, the grab and the queues.  *)
LEMMA KeepSlots ==
    ASSUME DataInv, UNCHANGED slotVars, m' \in Masks, Within(m', Known),
           grabState' \in GrabStates, grabClient' \in Clients \cup {0},
           grabWaiters' \subseteq Live, holds' \subseteq Clients,
           workQueue' \subseteq Live \cup {0}
    PROVE  DataInv'
<1>1. clients' = clients /\ UNCHANGED <<conn, nextFreeClientID, nClients, dispatchException>>
    BY DEF slotVars
<1> QED BY <1>1, Keep DEF DataInv, DataTypeOK, Slots

(* A step that overwrites one field of a slot that says nothing of who is  *)
(* connected.                                                              *)
LEMMA KeepGrab ==
    ASSUME DataInv, clients' \in [Clients -> ClientRec],
           \A d \in Clients :
               /\ clients'[d].fd = clients[d].fd
               /\ clients'[d].state = clients[d].state
               /\ clients'[d].asleep \/ clients'[d].open => clients'[d].fd # 0
               /\ clients'[d].state = "Initial" => clients'[d].mode = "DestroyAll",
           UNCHANGED <<conn, nextFreeClientID, nClients, dispatchException, m, grabVars>>,
           workQueue' \subseteq Live \cup {0}
    PROVE  DataInv'
    BY Keep DEF DataInv, DataTypeOK, Queues, grabVars

LEMMA EnvironmentStep ==
    ASSUME IInv, Environment
    PROVE  IInv'
<1>1. PICK c \in Clients : Send(c) \/ HangUp(c) \/ WriteFails(c) BY DEF Environment
<1>2. clients \in [Clients -> ClientRec] /\ Slots /\ Queues
    BY DEF IInv, DataInv, DataTypeOK
<1>3. CASE Send(c)
  <2>1. /\ clients' = [clients EXCEPT ![c].sent = @ + 1]
        /\ clients[c].sent < MaxPending
      BY <1>3 DEF Send
  <2>2. clients[c].sent + 1 \in 0 .. MaxPending
      BY <1>2, <2>1, SchedulerAssumption DEF ClientRec
  <2>3. clients' \in [Clients -> ClientRec] BY <1>2, <2>1, <2>2 DEF ClientRec
  <2>4. \A d \in Clients :
            /\ clients'[d].fd = clients[d].fd /\ clients'[d].state = clients[d].state
            /\ clients'[d].asleep = clients[d].asleep /\ clients'[d].open = clients[d].open
            /\ clients'[d].mode = clients[d].mode
            /\ clients'[d].buffered = clients[d].buffered
      BY <1>2, <2>1 DEF ClientRec
  <2> QED BY <1>2, <1>3, <2>3, <2>4, KeepGrab, ServingKept DEF IInv, Send, Slots, Queues
<1>4. CASE HangUp(c)
  <2>1. clients' = [clients EXCEPT ![c].hungup = TRUE] BY <1>4 DEF HangUp
  <2>2. clients' \in [Clients -> ClientRec]
    <3>1. [clients[c] EXCEPT !.hungup = TRUE] \in ClientRec BY <1>2 DEF ClientRec
    <3> QED BY <1>2, <2>1, <3>1
  <2>3. \A d \in Clients :
            /\ clients'[d].fd = clients[d].fd /\ clients'[d].state = clients[d].state
            /\ clients'[d].asleep = clients[d].asleep /\ clients'[d].open = clients[d].open
            /\ clients'[d].mode = clients[d].mode
            /\ clients'[d].buffered = clients[d].buffered
      BY <1>2, <2>1 DEF ClientRec
  <2> QED BY <1>2, <1>4, <2>2, <2>3, KeepGrab, ServingKept DEF IInv, HangUp, Slots, Queues
<1>5. CASE WriteFails(c)
  <2>1. clients' = [clients EXCEPT ![c].open = FALSE, ![c].exception = TRUE]
      BY <1>5 DEF WriteFails
  <2>2. clients' \in [Clients -> ClientRec]
    <3>1. [clients[c] EXCEPT !.open = FALSE, !.exception = TRUE] \in ClientRec
        BY <1>2 DEF ClientRec
    <3>2. clients' = [clients EXCEPT ![c] = [clients[c] EXCEPT !.open = FALSE,
                                                               !.exception = TRUE]]
        BY <1>2, <2>1 DEF ClientRec
    <3> QED BY <1>2, <3>1, <3>2
  <2>3. \A d \in Clients :
            /\ clients'[d].fd = clients[d].fd /\ clients'[d].state = clients[d].state
            /\ clients'[d].asleep = clients[d].asleep
            /\ clients'[d].open => clients[d].open
            /\ clients'[d].mode = clients[d].mode
            /\ clients'[d].buffered = clients[d].buffered
      BY <1>2, <2>1 DEF ClientRec
  <2> QED BY <1>2, <1>5, <2>2, <2>3, KeepGrab, ServingKept DEF IInv, WriteFails, Slots, Queues
<1> QED BY <1>1, <1>3, <1>4, <1>5

(* The closing of a client in the mode it asked for.                       *)
LEMMA CloseInMode ==
    ASSUME DataInv, NEW c \in Clients, CloseDownClient(c, clients[c].mode)
    PROVE  /\ DataInv'
           /\ \A d \in Clients \ {c} : clients'[d] = clients[d]
           /\ Live' = Live \ {c}
<1>1. clients[c].mode \in CloseDownModes
    BY DEF DataInv, DataTypeOK, ClientRec
<1>2. clients[c].state = "Initial" => clients[c].mode = "DestroyAll"
    BY DEF DataInv, Slots
<1> QED BY <1>1, <1>2, CloseKeepsData

(* The copy CheckConnections goes through is its own.                      *)
LEMMA CloseKeepsCopy ==
    ASSUME NEW c, NEW mode, CloseDownClient(c, mode)
    PROVE  UNCHANGED checking
    BY DEF CloseDownClient

LEMMA WaitStep ==
    ASSUME IInv, Wait
    PROVE  IInv'
<1> USE DEF slotVars, grabVars, schedVars, Places
<1>1. CASE WorkEstablish
  <2>1. SchedTypeOK' /\ Serving'
      BY <1>1 DEF IInv, SchedTypeOK, Serving, WorkEstablish
  <2>2. DataInv'
      BY <1>1, KeepSlots DEF IInv, DataInv, DataTypeOK, Queues, WorkEstablish
  <2> QED BY <2>1, <2>2 DEF IInv
<1>2. ASSUME NEW c \in Clients, WorkWakeup(c)
      PROVE  IInv'
  <2>1. /\ c \in workQueue
        /\ clients' = [clients EXCEPT ![c].asleep = FALSE]
        /\ m' = AttendClient(m, c, clients[c].fd)
        /\ workQueue' = workQueue \ {c}
        /\ UNCHANGED <<conn, nextFreeClientID, nClients, dispatchException, grabVars,
                       checking, schedVars>>
      BY <1>2 DEF WorkWakeup
  <2>2. c # 0 /\ c \in Live
      BY <2>1, ClientsAssumption DEF IInv, DataInv, Queues, Clients
  <2>3. m' \in Masks /\ Within(m', Known)
      BY <2>1, <2>2, KnownFd, AttendWithin DEF IInv, DataInv, DataTypeOK
  <2>4. clients' \in [Clients -> ClientRec]
    <3>1. clients \in [Clients -> ClientRec] BY DEF IInv, DataInv, DataTypeOK
    <3>2. [clients[c] EXCEPT !.asleep = FALSE] \in ClientRec BY <3>1 DEF ClientRec
    <3> QED BY <2>1, <3>1, <3>2
  <2>5. \A d \in Clients :
            /\ clients'[d].fd = clients[d].fd /\ clients'[d].state = clients[d].state
            /\ clients'[d].asleep => clients[d].asleep
            /\ clients'[d].open = clients[d].open /\ clients'[d].mode = clients[d].mode
            /\ clients'[d].buffered = clients[d].buffered
      BY <2>1 DEF IInv, DataInv, DataTypeOK, ClientRec
  <2>6. DataInv'
      BY <2>1, <2>3, <2>4, <2>5, Keep DEF IInv, DataInv, DataTypeOK, Slots, Queues
  <2>7. SchedTypeOK' /\ Serving' BY <2>1, <2>5, ServingKept
  <2> QED BY <2>6, <2>7 DEF IInv
<1>3. CASE WaitStops
  <2>1. SchedTypeOK' /\ Serving' BY <1>3 DEF IInv, SchedTypeOK, Serving, WaitStops
  <2> QED BY <1>3, <2>1, Frame DEF IInv, WaitStops
<1>4. ASSUME NEW S \in SUBSET Known, Return(S)
      PROVE  ready' \subseteq Clients
    BY <1>4 DEF IInv, DataInv, DataTypeOK, Return, Known
<1>5. CASE ReturnBuffered
  <2>1. ready' \subseteq Clients
      BY <1>4, <1>5 DEF ReturnBuffered, IInv, DataInv, Within
  <2>2. SchedTypeOK' /\ Serving'
      BY <1>5, <2>1 DEF IInv, SchedTypeOK, Serving, ReturnBuffered
  <2> QED BY <1>5, <2>2, Frame DEF IInv, ReturnBuffered
<1>6. CASE SelectFails
  <2>1. m.all \subseteq Fd BY DEF IInv, DataInv, DataTypeOK, Masks
  <2>2. SchedTypeOK' /\ Serving'
      BY <1>6, <2>1 DEF IInv, SchedTypeOK, Serving, SelectFails
  <2> QED BY <1>6, <2>2, Frame DEF IInv, SelectFails
<1>7. CASE CheckConnections
  <2>1. CASE \E fd \in checking \cap m.all : IsBad(fd)
    <3>1. PICK fd \in checking \cap m.all : /\ IsBad(fd)
                              /\ CloseDownClient(conn[fd], clients[conn[fd]].mode)
        BY <1>7, <2>1 DEF CheckConnections
    <3>2. conn[fd] \in Clients
        BY DEF IInv, DataInv, DataTypeOK, Within, Known
    <3>3. DataInv' BY <3>1, <3>2, CloseInMode DEF IInv
    <3>4. pc = "check" /\ UNCHANGED <<pc, ready, cur, yield, times>>
        BY <1>7, <2>1 DEF CheckConnections, schedVars
    <3>5. SchedTypeOK' /\ Serving' BY <3>1, <3>4, CloseKeepsCopy DEF IInv, SchedTypeOK, Serving
    <3> QED BY <3>3, <3>5 DEF IInv
  <2>2. CASE ~ \E fd \in checking \cap m.all : IsBad(fd)
    <3>1. /\ pc' = "wait" /\ checking' = {}
          /\ UNCHANGED <<slotVars, m, grabVars, workQueue, ready, cur, yield, times>>
        BY <1>7, <2>2 DEF CheckConnections
    <3>2. SchedTypeOK' /\ Serving' BY <3>1 DEF IInv, SchedTypeOK, Serving
    <3> QED BY <3>1, <3>2, Frame DEF IInv
  <2> QED BY <2>1, <2>2
<1>8. ASSUME NEW newConnection \in BOOLEAN,
             NEW answered \in SUBSET {c \in Clients : clients[c].asleep},
             Select(newConnection, answered)
      PROVE  IInv'
  <2>1. PICK readable \in SUBSET Known :
            /\ Return(readable)
            /\ pc' = IF readable = {} THEN "wait" ELSE "round"
    <3> DEFINE news == {fd \in SelectMask : HasNews(fd)}
               some == news # {} \/ newConnection \/ answered # {}
               readable == IF some THEN (news \cup m.cwi) \cap m.all ELSE m.cwi
    <3>1. Return(readable) /\ pc' = IF readable = {} THEN "wait" ELSE "round"
        BY <1>8 DEF Select
    <3>2. readable \subseteq m.all \cup m.cwi OBVIOUS
    <3>3. readable \in SUBSET Known BY <3>2 DEF IInv, DataInv, Within
    <3> HIDE DEF readable
    <3> QED BY <3>1, <3>3
  <2>2. /\ workQueue' = answered \cup (IF newConnection THEN {0} ELSE {})
        /\ UNCHANGED <<slotVars, m, grabVars, checking, cur, yield, times>>
      BY <1>8 DEF Select
  <2>3. answered \subseteq Live BY DEF IInv, DataInv, Slots, Live
  <2>4. ready' \subseteq Clients BY <1>4, <2>1
  <2>5. SchedTypeOK' /\ Serving' BY <2>1, <2>2, <2>4 DEF IInv, SchedTypeOK, Serving
  <2>6. workQueue' \subseteq Live \cup {0} BY <2>2, <2>3
  <2>7. DataInv'
      BY <2>2, <2>6, KeepSlots DEF IInv, DataInv, DataTypeOK, Queues
  <2> QED BY <2>5, <2>7 DEF IInv
<1> QED BY <1>1, <1>2, <1>3, <1>5, <1>6, <1>7, <1>8 DEF Wait

LEMMA EstablishStep ==
    ASSUME IInv, Establish
    PROVE  IInv'
<1> USE DEF Places
<1>1. ASSUME NEW c \in Clients, KillStraggler(c)
      PROVE  IInv'
  <2>1. DataInv' BY <1>1, CloseInMode DEF IInv, KillStraggler
  <2>2. SchedTypeOK' /\ Serving'
      BY <1>1, CloseKeepsCopy DEF IInv, SchedTypeOK, Serving, KillStraggler
  <2> QED BY <2>1, <2>2 DEF IInv
<1>2. CASE StragglersDone
  <2>1. SchedTypeOK' /\ Serving' BY <1>2 DEF IInv, SchedTypeOK, Serving, StragglersDone
  <2> QED BY <1>2, <2>1, Frame DEF IInv, StragglersDone
<1>3. CASE AcceptFails
  <2>1. SchedTypeOK' /\ Serving' BY <1>3 DEF IInv, SchedTypeOK, Serving, AcceptFails
  <2> QED BY <1>3, <2>1, Frame DEF IInv, AcceptFails
<1>4. ASSUME NEW fd \in Fd, AcceptReused(fd)
      PROVE  IInv'
  <2>1. conn[fd] \in Clients BY <1>4 DEF AcceptReused, IInv, DataInv, DataTypeOK
  <2>2. DataInv' BY <1>4, <2>1, CloseInMode DEF IInv, AcceptReused
  <2>3. SchedTypeOK' /\ Serving'
      BY <1>4, <2>1, CloseKeepsCopy DEF IInv, SchedTypeOK, Serving, AcceptReused
  <2> QED BY <2>2, <2>3 DEF IInv
<1>5. ASSUME NEW fd \in Fd, Accept(fd)
      PROVE  IInv'
  <2>1. SchedTypeOK' /\ Serving'
      BY <1>5, SchedulerAssumption DEF IInv, SchedTypeOK, Serving, Accept
  <2> QED BY <1>5, <2>1, AcceptKeepsData DEF IInv
<1> QED BY <1>1, <1>2, <1>3, <1>4, <1>5 DEF Establish

LEMMA ServeStep ==
    ASSUME IInv, Serve
    PROVE  IInv'
<1> USE DEF Places
<1>1. CASE RoundDone
  <2>1. SchedTypeOK' /\ Serving' BY <1>1 DEF IInv, SchedTypeOK, Serving, RoundDone
  <2> QED BY <1>1, <2>1, Frame DEF IInv, RoundDone
<1>2. ASSUME NEW c \in Clients, NextClient(c)
      PROVE  IInv'
  <2>1. SchedTypeOK' /\ Serving' BY <1>2 DEF IInv, SchedTypeOK, Serving, NextClient
  <2>2. grabState' \in GrabStates
      BY <1>2 DEF IInv, DataInv, DataTypeOK, GrabStates, NextClient
  <2>3. DataInv'
      BY <1>2, <2>2, KeepSlots DEF IInv, DataInv, DataTypeOK, Queues, NextClient
  <2> QED BY <2>1, <2>3 DEF IInv
<1>3. CASE TurnDone
  <2>1. SchedTypeOK' /\ Serving' BY <1>3 DEF IInv, SchedTypeOK, Serving, TurnDone
  <2> QED BY <1>3, <2>1, Frame DEF IInv, TurnDone
<1>4. CASE ReadNothing
  <2>1. SchedTypeOK' /\ Serving'
      BY <1>4, SchedulerAssumption DEF IInv, SchedTypeOK, Serving, ReadNothing
  <2>2. m' \in Masks /\ Within(m', Known)
    <3>1. m \in Masks /\ Within(m, Known) BY DEF IInv, DataInv, DataTypeOK
    <3>2. m' = [m EXCEPT !.cwi = @ \ {clients[cur].fd}] BY <1>4 DEF ReadNothing
    <3> QED BY <3>1, <3>2 DEF Masks, Within
  <2>3. UNCHANGED <<slotVars, grabVars, workQueue>> BY <1>4 DEF ReadNothing
  <2>4. DataInv'
      BY <2>2, <2>3, KeepSlots DEF IInv, DataInv, DataTypeOK, Queues, grabVars
  <2> QED BY <2>1, <2>4 DEF IInv
<1>5. CASE ReadFails
  <2>1. SchedTypeOK' /\ Serving'
    <3>1. /\ cur \in Live /\ cur \in Clients \ ready
          /\ pc' = "close" /\ times' = 0
          /\ UNCHANGED <<clients, checking, ready, cur, yield>>
        BY <1>5 DEF IInv, Serving, Live, ReadFails, slotVars
    <3> QED BY <3>1, SchedulerAssumption DEF IInv, SchedTypeOK, Serving, Live
  <2> QED BY <1>5, <2>1, Frame DEF IInv, ReadFails
<1>6. CASE ReadRequest
  <2> DEFINE k == clients[cur]
             left == (IF FromSocket(k) THEN k.sent ELSE k.buffered) - 1
             turns == IF left = 0 THEN 1 ELSE times + 1
  <2>1. /\ pc = "run" /\ k.fd # 0
        /\ k.buffered > 0 \/ (k.open /\ k.sent > 0)
        /\ clients' = [clients EXCEPT ![cur].buffered = left,
                                      ![cur].sent = IF FromSocket(k) THEN 0 ELSE @]
        /\ m' = [m EXCEPT !.cwi = With(@, k.fd, left > 0)]
        /\ yield' = (SmartScheduleDisable /\ (left = 0 \/ turns >= MAX_TIMES_PER))
        /\ times' = IF ~SmartScheduleDisable THEN times
                    ELSE IF turns >= MAX_TIMES_PER THEN 0 ELSE turns
        /\ pc' = "execute"
        /\ UNCHANGED <<conn, nextFreeClientID, nClients, dispatchException, grabVars,
                       workQueue, ready, cur>>
      BY <1>6 DEF ReadRequest
  <2>2. /\ cur \in Clients \ ready /\ cur \in Live
        /\ k \in ClientRec /\ times \in 0 .. MAX_TIMES_PER
      BY <1>6 DEF IInv, DataInv, DataTypeOK, SchedTypeOK, Serving, Live, ReadRequest
  <2>3. left \in 0 .. MaxPending - 1
    <3>1. k.buffered \in 0 .. MaxPending /\ k.sent \in 0 .. MaxPending
        BY <2>2 DEF ClientRec
    <3>2. k.buffered > 0 \/ k.sent > 0 BY <1>6 DEF ReadRequest
    <3> QED BY <3>1, <3>2, SchedulerAssumption DEF FromSocket
  <2> HIDE DEF left
  <2>4. /\ clients' \in [Clients -> ClientRec]
        /\ clients'[cur].buffered = left
        /\ \A d \in Clients :
            /\ clients'[d].fd = clients[d].fd /\ clients'[d].state = clients[d].state
            /\ clients'[d].asleep = clients[d].asleep
            /\ clients'[d].open = clients[d].open /\ clients'[d].mode = clients[d].mode
    <3>1. left \in 0 .. MaxPending BY <2>3, SchedulerAssumption
    <3>2. (IF FromSocket(k) THEN 0 ELSE k.sent) \in 0 .. MaxPending
        BY <2>2, SchedulerAssumption DEF ClientRec
    <3> QED BY <2>1, <2>2, <3>1, <3>2 DEF IInv, DataInv, DataTypeOK, ClientRec
  <2>5. m' \in Masks /\ Within(m', Known)
    <3>1. m \in Masks /\ Within(m, Known) BY DEF IInv, DataInv, DataTypeOK
    <3>2. k.fd \in Fd /\ k.fd \in Known BY <2>2, KnownFd DEF IInv
    <3> HIDE DEF k
    <3> QED BY <2>1, <3>1, <3>2 DEF Masks, Within, With
  <2>6. DataInv'
      BY <2>1, <2>4, <2>5, Keep DEF IInv, DataInv, DataTypeOK, Slots, Queues, grabVars
  <2>7. times' \in 0 .. MAX_TIMES_PER /\ yield' \in BOOLEAN
    <3>1. turns \in Nat BY <2>2, SchedulerAssumption
    <3>2. times' \in 0 .. MAX_TIMES_PER BY <2>1, <2>2, <3>1, SchedulerAssumption
    <3>3. yield' \in BOOLEAN BY <2>1, SchedulerAssumption
    <3> QED BY <3>2, <3>3
  <2>8. SchedTypeOK' BY <1>6, <2>1, <2>7 DEF ReadRequest, IInv, SchedTypeOK
  <2>9. Serving'
    <3>1. clients'[cur'].buffered < MaxPending
        BY <2>1, <2>3, <2>4, SchedulerAssumption
    <3>2. cur' \in Live' BY <2>1, <2>2, <2>4 DEF Live
    <3> QED BY <2>1, <2>2, <3>1, <3>2 DEF Serving
  <2> QED BY <2>6, <2>8, <2>9 DEF IInv
<1>7. CASE Close
  <2>1. cur \in Clients BY <1>7 DEF IInv, Serving, Live, Close
  <2>2. DataInv' BY <1>7, <2>1, CloseInMode DEF IInv, Close
  <2>3. SchedTypeOK' /\ Serving'
      BY <1>7, CloseKeepsCopy DEF IInv, SchedTypeOK, Serving, Close
  <2> QED BY <2>2, <2>3 DEF IInv
<1> QED BY <1>1, <1>2, <1>3, <1>4, <1>5, <1>6, <1>7 DEF Serve

LEMMA RestartStep ==
    ASSUME IInv, Restart
    PROVE  IInv'
<1> USE DEF Places
<1>1. CASE Reset
  <2>1. SchedTypeOK' /\ Serving' BY <1>1 DEF IInv, SchedTypeOK, Serving, Reset
  <2> QED BY <1>1, <2>1, ResetKeepsData DEF IInv
<1>2. ASSUME NEW c \in Clients, KillAllClients(c)
      PROVE  IInv'
  <2>1. DataInv'
      BY <1>2, CloseKeepsData DEF IInv, KillAllClients, CloseDownModes
  <2>2. SchedTypeOK' /\ Serving'
      BY <1>2, CloseKeepsCopy DEF IInv, SchedTypeOK, Serving, KillAllClients, schedVars
  <2> QED BY <2>1, <2>2 DEF IInv
<1> QED BY <1>1, <1>2 DEF Restart

LEMMA ExecuteStep ==
    ASSUME IInv, Execute
    PROVE  IInv'
<1> USE DEF slotVars, grabVars, schedVars, Executes
<1>1. pc = "execute"
    BY DEF Execute, SetUp, Other, ProcGrabServer, ProcGrabServerWaits, ProcUngrabServer,
           GrabControlImpervious, GrabControlPervious, Sleep, ProcKillClient,
           KillTemporary, ProcChangeCloseDownMode
<1>2. /\ cur \in Live /\ cur \in Clients /\ clients[cur] \in ClientRec
      /\ clients[cur].fd \in Fd /\ clients[cur].fd \in Known
      /\ clients[cur].buffered \in 0 .. MaxPending - 1
      /\ m \in Masks /\ Within(m, Known)
      /\ grabState \in GrabStates /\ grabClient \in Clients \cup {0}
      /\ grabWaiters \subseteq Live /\ workQueue \subseteq Live \cup {0}
      /\ holds \subseteq Clients
      /\ clients \in [Clients -> ClientRec]
    BY <1>1, Served
<1>3. yield \in BOOLEAN /\ times \in 0 .. MAX_TIMES_PER /\ 0 \in 0 .. MAX_TIMES_PER
    BY SchedulerAssumption DEF IInv, SchedTypeOK
<1>4. Returned => pc' \in {"run", "close"} BY DEF Returned
<1>5. DataInv /\ Slots BY DEF IInv, DataInv
<1>6. CASE SetUp
  <2>1. DataInv' BY <1>5, <1>6, SetUpKeepsData DEF IInv
  <2>2. \A d \in Clients : clients'[d].fd = clients[d].fd
      BY <1>2, <1>6 DEF SetUp, ClientRec
  <2>3. SchedTypeOK' /\ Serving'
      BY <1>1, <1>3, <1>4, <1>6, <2>2, ReturnKept DEF SetUp
  <2> QED BY <2>1, <2>3 DEF IInv
<1>7. CASE Other
  <2>1. SchedTypeOK' /\ Serving' BY <1>1, <1>3, <1>4, <1>7, ReturnKept DEF Other
  <2> QED BY <1>5, <1>7, <2>1, Frame DEF IInv, Other
<1>8. CASE ProcGrabServer
  <2>1. /\ clients' = [clients EXCEPT ![cur].retry = FALSE]
        /\ m' = OnlyListenToOneClient(m, cur, clients[cur].fd)
        /\ grabState' = "GrabKickout" /\ grabClient' = cur
        /\ holds' = holds \cup {cur}
        /\ UNCHANGED <<conn, nextFreeClientID, nClients, dispatchException,
                       grabWaiters, workQueue, ready, cur, yield, times>>
      BY <1>8 DEF ProcGrabServer
  <2>2. m' \in Masks /\ Within(m', Known) BY <1>2, <2>1, OnlyListenWithin
  <2>3. clients' \in [Clients -> ClientRec] BY <1>2, <2>1 DEF ClientRec
  <2>4. \A d \in Clients :
            /\ clients'[d].fd = clients[d].fd /\ clients'[d].state = clients[d].state
            /\ clients'[d].asleep = clients[d].asleep
            /\ clients'[d].open = clients[d].open /\ clients'[d].mode = clients[d].mode
      BY <1>2, <2>1 DEF ClientRec
  <2>5. grabState' \in GrabStates BY <2>1 DEF GrabStates
  <2>6. DataInv' BY <1>2, <1>5, <2>1, <2>2, <2>3, <2>4, <2>5, Keep DEF Slots
  <2>7. SchedTypeOK' /\ Serving'
      BY <1>1, <1>3, <1>4, <1>8, <2>1, <2>4, ReturnKept DEF ProcGrabServer
  <2> QED BY <2>6, <2>7 DEF IInv
<1>9. CASE ProcGrabServerWaits
  <2> DEFINE fd == clients[cur].fd
  <2>1. /\ clients' = [clients EXCEPT ![cur].buffered = @ + 1, ![cur].retry = TRUE]
        /\ grabWaiters' = grabWaiters \cup {cur}
        /\ m' = IgnoreClient(ResetCurrentRequest(fd), fd)
        /\ yield' = TRUE /\ times' = 0
        /\ UNCHANGED <<conn, nextFreeClientID, nClients, dispatchException, grabState,
                       grabClient, holds, workQueue, ready, cur>>
      BY <1>9 DEF ProcGrabServerWaits
  <2>2. ResetCurrentRequest(fd) \in Masks /\ Within(ResetCurrentRequest(fd), Known)
      BY <1>2 DEF ResetCurrentRequest, Masks, Within
  <2>3. m' \in Masks /\ Within(m', Known) BY <1>2, <2>1, <2>2, IgnoreWithin
  <2>4. clients[cur].buffered + 1 \in 0 .. MaxPending BY <1>2, SchedulerAssumption
  <2>5. clients' \in [Clients -> ClientRec] BY <1>2, <2>1, <2>4 DEF ClientRec
  <2>6. \A d \in Clients :
            /\ clients'[d].fd = clients[d].fd /\ clients'[d].state = clients[d].state
            /\ clients'[d].asleep = clients[d].asleep
            /\ clients'[d].open = clients[d].open /\ clients'[d].mode = clients[d].mode
      BY <1>2, <2>1 DEF ClientRec
  <2>7. grabWaiters' \subseteq Live BY <1>2, <2>1
  <2>8. DataInv' BY <1>2, <1>5, <2>1, <2>3, <2>5, <2>6, <2>7, Keep DEF Slots
  <2>9. SchedTypeOK' /\ Serving'
      BY <1>1, <1>3, <1>4, <1>9, <2>1, <2>6, ReturnKept DEF ProcGrabServerWaits
  <2> QED BY <2>8, <2>9 DEF IInv
<1>10. CASE ProcUngrabServer
  <2>1. PICK w \in Clients \cup {0} :
            /\ IsFirstWaiter(w)
            /\ grabState' = "GrabNone"
            /\ m' = Ungrabbed(w)
            /\ grabWaiters' = grabWaiters \ {w}
      BY <1>10 DEF ProcUngrabServer
  <2>2. m' \in Masks /\ Within(m', Known) BY <1>5, <2>1, UngrabWithin
  <2>3. /\ grabState' \in GrabStates /\ grabWaiters' \subseteq Live
        /\ holds' \subseteq Clients
      BY <1>2, <1>10, <2>1 DEF GrabStates, ProcUngrabServer
  <2>4. DataInv'
      BY <1>2, <1>5, <1>10, <2>2, <2>3, KeepSlots DEF ProcUngrabServer
  <2>5. SchedTypeOK' /\ Serving'
      BY <1>1, <1>3, <1>4, <1>10, ReturnKept DEF ProcUngrabServer
  <2> QED BY <2>4, <2>5 DEF IInv
<1>11. CASE GrabControlImpervious
  <2>1. m' \in Masks /\ Within(m', Known)
      BY <1>2, <1>11 DEF GrabControlImpervious, MakeClientGrabImpervious, Masks, Within
  <2>2. DataInv' BY <1>2, <1>5, <1>11, <2>1, KeepSlots DEF GrabControlImpervious
  <2>3. SchedTypeOK' /\ Serving'
      BY <1>1, <1>3, <1>4, <1>11, ReturnKept DEF GrabControlImpervious
  <2> QED BY <2>2, <2>3 DEF IInv
<1>12. CASE GrabControlPervious
  <2>1. m' \in Masks /\ Within(m', Known)
      BY <1>2, <1>12, PerviousWithin DEF GrabControlPervious
  <2>2. DataInv' BY <1>2, <1>5, <1>12, <2>1, KeepSlots DEF GrabControlPervious
  <2>3. yield' \in BOOLEAN BY <1>3, <1>12 DEF GrabControlPervious, Suspends
  <2>4. SchedTypeOK' /\ Serving'
      BY <1>1, <1>3, <1>4, <1>12, <2>3, ReturnKept DEF GrabControlPervious
  <2> QED BY <2>2, <2>4 DEF IInv
<1>13. CASE Sleep
  <2>1. /\ clients' = [clients EXCEPT ![cur].asleep = TRUE]
        /\ m' = IgnoreClient(m, clients[cur].fd)
        /\ UNCHANGED <<conn, nextFreeClientID, nClients, dispatchException, grabVars,
                       workQueue, ready, cur, times>>
      BY <1>13 DEF Sleep
  <2>2. m' \in Masks /\ Within(m', Known) BY <1>2, <2>1, IgnoreWithin
  <2>3. clients' \in [Clients -> ClientRec] BY <1>2, <2>1 DEF ClientRec
  <2>4. \A d \in Clients :
            /\ clients'[d].fd = clients[d].fd /\ clients'[d].state = clients[d].state
            /\ d # cur => clients'[d].asleep = clients[d].asleep
            /\ clients'[d].open = clients[d].open /\ clients'[d].mode = clients[d].mode
      BY <1>2, <2>1 DEF ClientRec
  <2>5. DataInv' BY <1>2, <1>5, <2>1, <2>2, <2>3, <2>4, Keep DEF Slots, Live
  <2>6. SchedTypeOK' /\ Serving'
      BY <1>1, <1>3, <1>4, <1>13, <2>1, <2>4, ReturnKept DEF Sleep
  <2> QED BY <2>5, <2>6 DEF IInv
<1>14. ASSUME NEW c \in Clients, ProcKillClient(c)
       PROVE  IInv'
  <2>1. /\ DataInv'
        /\ \A d \in Clients \ {c} : clients'[d] = clients[d]
        /\ Live' = Live \ {c}
      BY <1>5, <1>14, CloseInMode DEF ProcKillClient
  <2>2. /\ yield' = Yields(c) /\ UNCHANGED <<ready, cur, times>>
        /\ pc' = IF Yields(c) \/ ~clients[cur].exception THEN "run" ELSE "close"
        /\ UNCHANGED checking
      BY <1>14, CloseKeepsCopy DEF ProcKillClient
  <2>3. SchedTypeOK'
      BY <1>3, <2>2 DEF IInv, SchedTypeOK, Yields, Places
  <2>4. Serving'
    <3>1. cur \in Clients \ ready BY <1>1 DEF IInv, Serving
    <3>2. pc' \in {"run", "close"} BY <2>2
    <3>3. pc' = "close" => cur' \in Live' BY <1>2, <2>1, <2>2 DEF Yields
    <3> QED BY <2>2, <3>1, <3>2, <3>3 DEF Serving
  <2> QED BY <2>1, <2>3, <2>4 DEF IInv
<1>15. CASE KillTemporary
  <2>1. DataInv' /\ \A d \in Clients : clients'[d].fd = clients[d].fd
      BY <1>5, <1>15, KillTemporaryKeepsData
  <2>2. SchedTypeOK' /\ Serving'
      BY <1>1, <1>3, <1>4, <1>15, <2>1, ReturnKept DEF KillTemporary
  <2> QED BY <2>1, <2>2 DEF IInv
<1>16. ASSUME NEW mode \in CloseDownModes, ProcChangeCloseDownMode(mode)
       PROVE  IInv'
  <2>1. /\ clients' = [clients EXCEPT ![cur].mode = mode]
        /\ clients[cur].state = "Running"
        /\ UNCHANGED <<conn, nextFreeClientID, nClients, dispatchException, m, grabVars,
                       workQueue, ready, cur, yield, times>>
      BY <1>16 DEF ProcChangeCloseDownMode
  <2>2. clients' \in [Clients -> ClientRec] BY <1>2, <2>1 DEF ClientRec
  <2>3. \A d \in Clients :
            /\ clients'[d].fd = clients[d].fd /\ clients'[d].state = clients[d].state
            /\ clients'[d].asleep = clients[d].asleep
            /\ clients'[d].open = clients[d].open
            /\ d # cur => clients'[d].mode = clients[d].mode
      BY <1>2, <2>1 DEF ClientRec
  <2>4. DataInv'
      BY <1>2, <1>5, <2>1, <2>2, <2>3, KeepGrab DEF Slots
  <2>5. SchedTypeOK' /\ Serving'
      BY <1>1, <1>3, <1>4, <1>16, <2>1, <2>3, ReturnKept DEF ProcChangeCloseDownMode
  <2> QED BY <2>4, <2>5 DEF IInv
<1> QED BY <1>6, <1>7, <1>8, <1>9, <1>10, <1>11, <1>12, <1>13, <1>14, <1>15, <1>16
        DEF Execute

-----------------------------------------------------------------------------
LEMMA InitInv == Init => IInv
<1> SUFFICES ASSUME Init PROVE IInv
    OBVIOUS
<1>1. DataTypeOK
  <2>1. NoClient \in ClientRec
    <3>1. 0 \in 0 .. MaxPending BY SchedulerAssumption
    <3> QED BY <3>1 DEF ClientRec, NoClient, CloseDownModes
  <2>2. InitMasks \in Masks BY DEF InitMasks, Masks
  <2>3. 1 \in 1 .. MAXCLIENTS BY ClientsAssumption
  <2>4. dispatchException \in BOOLEAN BY DEF Init
  <2> QED BY <2>1, <2>2, <2>3, <2>4 DEF Init, DataTypeOK, GrabStates
<1>2. \A c \in Clients : /\ clients[c].state = "Gone" /\ clients[c].fd = 0
                         /\ ~clients[c].asleep /\ ~clients[c].open
    BY DEF Init, NoClient
<1>3. Live = {} /\ Running = {} BY <1>2 DEF Live, Running
<1>4. Known = {} BY DEF Init, Known
<1>5. Slots BY <1>2 DEF Slots
<1>6. Queues /\ TranslationAgrees BY <1>3, <1>4 DEF Queues, TranslationAgrees, Init
<1>7. Within(m, Known) BY DEF Init, InitMasks, Within
<1>8. LeastFreeSlot
    BY <1>2, ClientsAssumption DEF Init, LeastFreeSlot, LeastAbove, Clients
<1>9. CountsRunning BY <1>3, FS_EmptySet DEF Init, CountsRunning
<1>10. SchedTypeOK /\ Serving
  <2>1. yield \in BOOLEAN BY DEF Init
  <2> QED BY <2>1, SchedulerAssumption DEF Init, SchedTypeOK, Serving, Places
<1> QED BY <1>1, <1>5, <1>6, <1>7, <1>8, <1>9, <1>10 DEF IInv, DataInv

LEMMA StepInv == IInv /\ [Next]_vars => IInv'
<1> SUFFICES ASSUME IInv, [Next]_vars PROVE IInv'
    OBVIOUS
<1>1. CASE Next
    BY <1>1, EnvironmentStep, WaitStep, EstablishStep, ServeStep, ExecuteStep, RestartStep
       DEF Next, Server
<1>2. CASE UNCHANGED vars
  <2>1. DataInv' BY <1>2, Frame DEF IInv, vars
  <2>2. SchedTypeOK' /\ Serving'
      BY <1>2 DEF IInv, SchedTypeOK, Serving, Live, vars, slotVars, schedVars
  <2> QED BY <2>1, <2>2 DEF IInv
<1> QED BY <1>1, <1>2

LEMMA Invariance == Spec => []IInv
    BY InitInv, StepInv, PTL DEF Spec

(* Every variable of the scheduler keeps its type: in particular the count *)
(* of clients never falls below zero, and a request that is put back by a  *)
(* waiting GrabServer has room in its buffer.                              *)
THEOREM TypeCorrect == Spec => []TypeOK
    BY Invariance, InvImplies, PTL

(* However clients connect, grab, sleep, are killed, break and come back,  *)
(* os/connection.c selects on and serves only descriptors in use, and no   *)
(* descriptor leads to the client that had it before.                      *)
THEOREM SetsCorrect == Spec => []SetsAgree
    BY Invariance, InvImplies, PTL

(* nextFreeClientID is always the lowest free slot of clients[].           *)
THEOREM SlotsCorrect == Spec => []LeastFreeSlot
    BY Invariance, InvImplies, PTL

(* nClients, on which the reset of the server hangs, is always the number  *)
(* of the clients that run.                                                *)
THEOREM CountCorrect == Spec => []CountsRunning
    BY Invariance, InvImplies, PTL

-----------------------------------------------------------------------------
(* The reset.                                                              *)

(* Once DE_RESET is up, Dispatch reads no further request.                 *)
ResetInv ==
    dispatchException => /\ Running = {}
                         /\ pc \notin {"execute", "close"}
                         /\ pc = "run" => yield

(* The close of the last running client is the only one that raises it.    *)
LEMMA CloseResets ==
    ASSUME IInv, ResetInv, NEW c \in Clients, NEW mode \in CloseDownModes,
           clients[c].state = "Initial" => mode = "DestroyAll",
           CloseDownClient(c, mode)
    PROVE  dispatchException' => Running' = {}
<1>1. DataInv' /\ \A d \in Clients \ {c} : clients'[d] = clients[d]
    BY CloseKeepsData DEF IInv
<1>2. dispatchException' => dispatchException \/ nClients' = 0
    BY DEF CloseDownClient, MayReset
<1>3. nClients' = 0 => Running' = {}
  <2>1. Running' \subseteq Clients BY DEF Running
  <2>2. IsFiniteSet(Clients) BY FS_Interval, ClientsAssumption DEF Clients
  <2>3. IsFiniteSet(Running') BY <2>1, <2>2, FS_Subset
  <2> QED BY <1>1, <2>3, FS_EmptySet DEF DataInv, CountsRunning
<1>4. dispatchException => Running' = {}
  <2>1. SUFFICES ASSUME Running = {} PROVE Running' = {} BY DEF ResetInv
  <2>2. clients'[c].state # "Running"
    <3>1. clients[c] \in ClientRec /\ clients \in [Clients -> ClientRec]
        BY DEF IInv, DataInv, DataTypeOK
    <3>2. \E really \in BOOLEAN :
              clients' = [clients EXCEPT ![c] = ClosedSlot(clients[c], really)]
        BY DEF CloseDownClient
    <3>3. \A really \in BOOLEAN : ClosedSlot(clients[c], really).state # "Running"
        BY <3>1, ClosedSlotType
    <3> QED BY <3>1, <3>2, <3>3
  <2> QED BY <1>1, <2>1, <2>2 DEF Running
<1> QED BY <1>2, <1>3, <1>4

LEMMA StepReset ==
    ASSUME IInv, ResetInv, Next
    PROVE  ResetInv'
<1> USE DEF slotVars, schedVars, Executes
<1>1. clients \in [Clients -> ClientRec] BY DEF IInv, DataInv, DataTypeOK
<1>2. ASSUME NEW c \in Clients, CloseDownClient(c, clients[c].mode)
      PROVE  dispatchException' => Running' = {}
  <2>1. /\ clients[c].mode \in CloseDownModes
        /\ clients[c].state = "Initial" => clients[c].mode = "DestroyAll"
      BY <1>1 DEF IInv, DataInv, ClientRec, Slots
  <2> QED BY <1>2, <2>1, CloseResets
<1>3. ASSUME UNCHANGED dispatchException, \A d \in Clients : clients'[d].state = clients[d].state,
             pc' \notin {"run", "execute", "close"} \/ ~dispatchException
      PROVE  ResetInv'
    BY <1>3 DEF ResetInv, Running
<1>4. CASE Environment
  <2>1. UNCHANGED <<dispatchException, pc, yield>>
      BY <1>4 DEF Environment, Send, HangUp, WriteFails
  <2>2. PICK c \in Clients : Send(c) \/ HangUp(c) \/ WriteFails(c)
      BY <1>4 DEF Environment
  <2>3. CASE Send(c)
      BY <1>1, <2>1, <2>3 DEF ResetInv, Running, Send, ClientRec
  <2>4. CASE HangUp(c)
      BY <1>1, <2>1, <2>4 DEF ResetInv, Running, HangUp, ClientRec
  <2>5. CASE WriteFails(c)
      BY <1>1, <2>1, <2>5 DEF ResetInv, Running, WriteFails, ClientRec
  <2> QED BY <2>2, <2>3, <2>4, <2>5
<1>5. CASE Wait
  <2>1. CASE WorkEstablish \/ WaitStops \/ ReturnBuffered \/ SelectFails
      BY <1>3, <2>1 DEF WorkEstablish, WaitStops, ReturnBuffered, SelectFails
  <2>2. ASSUME NEW c \in Clients, WorkWakeup(c) PROVE ResetInv'
    <3>1. \A d \in Clients : clients'[d].state = clients[d].state
        BY <1>1, <2>2 DEF WorkWakeup, ClientRec
    <3> QED BY <1>3, <2>2, <3>1 DEF WorkWakeup
  <2>3. CASE CheckConnections
    <3>1. CASE \E fd \in checking \cap m.all : IsBad(fd)
      <4>1. PICK fd \in checking \cap m.all : CloseDownClient(conn[fd], clients[conn[fd]].mode)
          BY <2>3, <3>1 DEF CheckConnections
      <4>2. conn[fd] \in Clients BY DEF IInv, DataInv, DataTypeOK, Within, Known
      <4>3. dispatchException' => Running' = {} BY <1>2, <4>1, <4>2
      <4>4. pc' = "check" BY <2>3, <3>1 DEF CheckConnections
      <4> QED BY <4>3, <4>4 DEF ResetInv
    <3>2. CASE ~ \E fd \in checking \cap m.all : IsBad(fd)
        BY <1>3, <2>3, <3>2 DEF CheckConnections
    <3> QED BY <3>1, <3>2
  <2>4. ASSUME NEW newConnection \in BOOLEAN,
               NEW answered \in SUBSET {c \in Clients : clients[c].asleep},
               Select(newConnection, answered)
        PROVE  ResetInv'
      BY <1>3, <2>4 DEF Select
  <2> QED BY <1>5, <2>1, <2>2, <2>3, <2>4 DEF Wait
<1>6. CASE Establish
  <2>1. CASE StragglersDone \/ AcceptFails
      BY <1>3, <2>1 DEF StragglersDone, AcceptFails
  <2>2. ASSUME NEW c \in Clients, KillStraggler(c) PROVE ResetInv'
      BY <1>2, <2>2 DEF KillStraggler, ResetInv
  <2>3. ASSUME NEW fd \in Fd, AcceptReused(fd) PROVE ResetInv'
    <3>1. conn[fd] \in Clients BY <2>3 DEF AcceptReused, IInv, DataInv, DataTypeOK
    <3> QED BY <1>2, <2>3, <3>1 DEF AcceptReused, ResetInv
  <2>4. ASSUME NEW fd \in Fd, Accept(fd) PROVE ResetInv'
    <3>1. Running' \subseteq Running
        BY <1>1, <2>4 DEF Accept, Running, NoClient
    <3>2. UNCHANGED dispatchException /\ pc' = "wait" BY <2>4 DEF Accept
    <3> QED BY <3>1, <3>2 DEF ResetInv
  <2> QED BY <1>6, <2>1, <2>2, <2>3, <2>4 DEF Establish
<1>7. CASE Serve
  <2>1. CASE RoundDone
    <3>1. UNCHANGED <<clients, dispatchException>> /\ pc' \in {"reset", "wait"}
        BY <2>1 DEF RoundDone
    <3> QED BY <1>3, <3>1
  <2>2. CASE TurnDone \/ ReadNothing
      BY <1>3, <2>2 DEF TurnDone, ReadNothing
  <2>3. ASSUME NEW c \in Clients, NextClient(c) PROVE ResetInv'
      BY <1>3, <2>3 DEF NextClient
  <2>4. CASE ReadFails BY <1>3, <2>4 DEF ReadFails, ResetInv
  <2>5. CASE ReadRequest
      BY <2>5 DEF ReadRequest, ResetInv
  <2>6. CASE Close
    <3>1. cur \in Clients BY <2>6 DEF IInv, Serving, Live, Close
    <3> QED BY <1>2, <2>6, <3>1 DEF Close, ResetInv
  <2> QED BY <1>7, <2>1, <2>2, <2>3, <2>4, <2>5, <2>6 DEF Serve
<1>8. CASE Execute
  <2>1. CASE SetUp \/ Other \/ ProcGrabServer \/ ProcGrabServerWaits \/ ProcUngrabServer
             \/ GrabControlImpervious \/ GrabControlPervious \/ Sleep \/ KillTemporary
             \/ \E mode \in CloseDownModes : ProcChangeCloseDownMode(mode)
    <3>1. pc = "execute" /\ UNCHANGED dispatchException
        BY <2>1 DEF SetUp, Other, ProcGrabServer, ProcGrabServerWaits, ProcUngrabServer,
               GrabControlImpervious, GrabControlPervious, Sleep, KillTemporary,
               ProcChangeCloseDownMode
    <3> QED BY <3>1 DEF ResetInv
  <2>2. ASSUME NEW c \in Clients, ProcKillClient(c) PROVE ResetInv'
    <3>1. cur \in Clients /\ clients[cur].state = "Running" /\ pc = "execute"
        BY <2>2 DEF ProcKillClient, IInv, Serving, Live
    <3>2. dispatchException' => Running' = {} BY <1>2, <2>2 DEF ProcKillClient
    <3>3. \A d \in Clients \ {c} : clients'[d] = clients[d]
        BY <2>2, CloseInMode DEF IInv, ProcKillClient
    <3>4. dispatchException' => c = cur BY <3>1, <3>2, <3>3 DEF Running
    <3>5. c = cur => pc' = "run" /\ yield' BY <2>2 DEF ProcKillClient, Yields
    <3> QED BY <3>2, <3>4, <3>5 DEF ResetInv
  <2> QED BY <1>8, <2>1, <2>2 DEF Execute
<1>9. CASE Restart
  <2>1. CASE Reset BY <2>1 DEF Reset, ResetInv
  <2>2. ASSUME NEW c \in Clients, KillAllClients(c) PROVE ResetInv'
    <3>1. dispatchException' => Running' = {}
        BY <2>2, CloseResets DEF KillAllClients, CloseDownModes
    <3> QED BY <2>2, <3>1 DEF KillAllClients, ResetInv
  <2> QED BY <1>9, <2>1, <2>2 DEF Restart
<1> QED BY <1>4, <1>5, <1>6, <1>7, <1>8, <1>9 DEF Next, Server

(* The server resets, which destroys everything, only when no connected    *)
(* client has completed its set-up: a client that connects while the last  *)
(* one leaves is either counted or not yet admitted.                       *)
THEOREM ResetCorrect == Spec => []ResetsAlone
<1>1. Init => ResetInv BY DEF Init, ResetInv
<1>2. IInv /\ ResetInv /\ [Next]_vars => ResetInv'
  <2>1. CASE UNCHANGED vars
      BY <2>1 DEF vars, slotVars, schedVars, ResetInv, Running
  <2> QED BY <2>1, StepReset
<1>3. ResetInv => ResetsAlone BY DEF ResetInv, ResetsAlone
<1> QED BY <1>1, <1>2, <1>3, Invariance, PTL DEF Spec

================================================================================
