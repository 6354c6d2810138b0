--------------------------- MODULE DeviceFreezeProofs ---------------------------
(***************************************************************************)
(* Proofs about DeviceFreeze for any clients, windows, passive grabs and   *)
(* number of events: the types with the tail of the queue, that each       *)
(* freeze has an active grab behind it, that no grab outlives its client,  *)
(* and that events are replayed and processed in order.                    *)
(***************************************************************************)
EXTENDS DeviceFreeze, TLAPS, SequenceTheorems

\* The devices have their types, and an event is kept where one is said to be.
Typed(D) ==
    /\ D \in [Devices -> DeviceRec]
    /\ \A d \in Devices : D[d].state = "FROZEN_WITH_EVENT" => D[d].event \in Event

\* What holds before FreezeThaw: who is frozen by another's grab is frozen by one
\* that is active.
Linked(D) ==
    /\ Typed(D)
    /\ \A d \in Devices :
          /\ D[d].grab = None <=> D[d].state = "NOT_GRABBED"
          /\ D[d].other # None => D[d].other # d /\ D[D[d].other].grab # None

Thawed(D) ==
    \A d \in Devices : D[d].frozen <=> D[d].other # None \/ D[d].state \in FrozenStates

Accounted(D) == Linked(D) /\ Thawed(D)

\* All grabs are those of clients in C.
GrabsOf(D, C) == \A d \in Devices : D[d].grab # None => D[d].grab.client \in C

----------------------------------------------------------------------------
\* A device record in terms of its fields.
LEMMA DeviceRecFields ==
    ASSUME NEW r \in DeviceRec
    PROVE  /\ r.grab \in Grab \cup {None} /\ r.state \in States
           /\ r.other \in Devices \cup {None} /\ r.frozen \in BOOLEAN
           /\ r.event \in Event \cup {None} /\ r.fromPassive \in BOOLEAN
  BY DEF DeviceRec

\* A device record with some of its fields changed.
WithFrozen(r, b) == [r EXCEPT !.frozen = b]
WithGrab(r, g, b) == [r EXCEPT !.grab = g, !.fromPassive = b]
WithState(r, q, o) == [r EXCEPT !.state = q, !.other = o]
WithOther(r, o) == [r EXCEPT !.other = o]
WithoutGrab(r) == [r EXCEPT !.grab = None, !.state = "NOT_GRABBED", !.fromPassive = FALSE]
WithEvent(r, e) == [r EXCEPT !.state = "FROZEN_WITH_EVENT", !.frozen = TRUE, !.event = e]

LEMMA FrozenSet ==
    ASSUME NEW r \in DeviceRec, NEW b \in BOOLEAN
    PROVE  LET x == WithFrozen(r, b) IN
           /\ x \in DeviceRec /\ x.grab = r.grab /\ x.state = r.state /\ x.other = r.other
           /\ x.event = r.event /\ x.frozen = b
  BY DEF DeviceRec, WithFrozen

LEMMA GrabSet ==
    ASSUME NEW r \in DeviceRec, NEW g \in Grab \cup {None}, NEW b \in BOOLEAN
    PROVE  LET x == WithGrab(r, g, b) IN
           /\ x \in DeviceRec /\ x.grab = g /\ x.state = r.state /\ x.other = r.other
           /\ x.event = r.event
  BY DEF DeviceRec, WithGrab

LEMMA StateSet ==
    ASSUME NEW r \in DeviceRec, NEW q \in States, NEW o \in Devices \cup {None}
    PROVE  LET x == WithState(r, q, o) IN
           x \in DeviceRec /\ x.grab = r.grab /\ x.state = q /\ x.other = o /\ x.event = r.event
  BY DEF DeviceRec, WithState

LEMMA OtherSet ==
    ASSUME NEW r \in DeviceRec, NEW o \in Devices \cup {None}
    PROVE  LET x == WithOther(r, o) IN
           x \in DeviceRec /\ x.grab = r.grab /\ x.state = r.state /\ x.other = o /\ x.event = r.event
  BY DEF DeviceRec, WithOther

LEMMA GrabCleared ==
    ASSUME NEW r \in DeviceRec
    PROVE  WithoutGrab(r) \in DeviceRec /\ WithoutGrab(r).state = "NOT_GRABBED"
<1>1. "NOT_GRABBED" \in States BY DEF States
<1> QED BY <1>1 DEF DeviceRec, WithoutGrab

LEMMA EventSet ==
    ASSUME NEW r \in DeviceRec, NEW e \in Event
    PROVE  LET x == WithEvent(r, e) IN
           /\ x \in DeviceRec /\ x.grab = r.grab /\ x.state = "FROZEN_WITH_EVENT"
           /\ x.other = r.other /\ x.frozen /\ x.event = e
<1>1. "FROZEN_WITH_EVENT" \in States BY DEF States, FrozenStates
<1> QED BY <1>1 DEF DeviceRec, WithEvent

\* FreezeThaw sets frozen to what it must be and changes nothing else.
LEMMA FreezeThawLemma ==
    ASSUME NEW D, Linked(D)
    PROVE  /\ Accounted(FreezeThaw(D))
           /\ \A d \in Devices : FreezeThaw(D)[d].grab = D[d].grab
<1> DEFINE F == FreezeThaw(D)
<1>1. \A d \in Devices :
         /\ F[d] = [D[d] EXCEPT !.frozen = (D[d].other # None \/ D[d].state \in FrozenStates)]
         /\ D[d] \in DeviceRec
  BY DEF FreezeThaw, Linked, Typed
<1>2. \A d \in Devices : (D[d].other # None \/ D[d].state \in FrozenStates) \in BOOLEAN
  OBVIOUS
<1>3. \A d \in Devices :
         /\ F[d] \in DeviceRec /\ F[d].grab = D[d].grab /\ F[d].state = D[d].state
         /\ F[d].other = D[d].other /\ F[d].event = D[d].event
         /\ F[d].frozen = (D[d].other # None \/ D[d].state \in FrozenStates)
  <2>1. \A d \in Devices :
           F[d] = WithFrozen(D[d], (D[d].other # None \/ D[d].state \in FrozenStates))
    BY <1>1 DEF WithFrozen
  <2> HIDE DEF F
  <2>2. ASSUME NEW d \in Devices
        PROVE  /\ F[d] \in DeviceRec /\ F[d].grab = D[d].grab /\ F[d].state = D[d].state
               /\ F[d].other = D[d].other /\ F[d].event = D[d].event
               /\ F[d].frozen = (D[d].other # None \/ D[d].state \in FrozenStates)
    <3>1. PICK b \in BOOLEAN : b = (D[d].other # None \/ D[d].state \in FrozenStates)
      OBVIOUS
    <3>2. F[d] = WithFrozen(D[d], b) /\ D[d] \in DeviceRec
      BY <1>1, <2>1, <3>1
    <3>3. \A r \in DeviceRec :
             /\ WithFrozen(r, b) \in DeviceRec /\ WithFrozen(r, b).grab = r.grab
             /\ WithFrozen(r, b).state = r.state /\ WithFrozen(r, b).other = r.other
             /\ WithFrozen(r, b).event = r.event /\ WithFrozen(r, b).frozen = b
      BY FrozenSet
    <3>4. /\ F[d] \in DeviceRec /\ F[d].grab = D[d].grab /\ F[d].state = D[d].state
          /\ F[d].other = D[d].other /\ F[d].event = D[d].event /\ F[d].frozen = b
      BY <3>2, <3>3, Zenon
    <3> QED
      BY <3>1, <3>4, Zenon
  <2> QED
    BY <2>2
<1>4. F \in [Devices -> DeviceRec]
  BY <1>3 DEF FreezeThaw
<1>5. Linked(F)
  <2>1. \A d \in Devices : D[d].other # None => D[d].other \in Devices
    BY <1>1, DeviceRecFields
  <2> QED
    BY <1>3, <1>4, <2>1 DEF Linked, Typed
<1>6. Thawed(F)
  BY <1>3 DEF Thawed
<1> QED
  BY <1>3, <1>5, <1>6 DEF Accounted

\* A grab that is activated is linked to what it freezes.
LEMMA ActivateLemma ==
    ASSUME NEW D, Linked(D), NEW d \in Devices, NEW grab \in Grab,
           NEW this \in Modes, NEW that \in Modes, NEW auto \in BOOLEAN
    PROVE  /\ Accounted(Activate(D, d, grab, this, that, auto))
           /\ \A x \in Devices : Activate(D, d, grab, this, that, auto)[x].grab =
                                    IF x = d THEN grab ELSE D[x].grab
           /\ Activate(D, d, grab, this, that, auto)[d].state
                 = IF this = "Sync" THEN "FROZEN_NO_EVENT" ELSE "THAWED"
<1> DEFINE E == [D EXCEPT ![d].grab = grab, ![d].fromPassive = auto]
           c == E[d].grab.client
           r == IF this = "Sync" THEN [E[d] EXCEPT !.state = "FROZEN_NO_EVENT"]
                ELSE [E[d] EXCEPT !.state = "THAWED", !.other = Without(E, d, c)]
           o(x) == [E[x] EXCEPT !.other = IF that = "Sync" THEN d ELSE Without(E, x, c)]
           F == [x \in Devices |-> IF x = d THEN r ELSE o(x)]
<1>0. grab # None
  BY DevicesAssumption
<1>1. /\ E \in [Devices -> DeviceRec]
      /\ \A x \in Devices : /\ E[x].grab = (IF x = d THEN grab ELSE D[x].grab)
                            /\ E[x].state = D[x].state /\ E[x].other = D[x].other
                            /\ E[x].event = D[x].event /\ D[x] \in DeviceRec /\ E[x] \in DeviceRec
  <2>1. D \in [Devices -> DeviceRec]
    BY DEF Linked, Typed
  <2>2. \A x \in Devices \ {d} : E[x] = D[x]
    BY <2>1
  <2>3. E[d] = [D[d] EXCEPT !.grab = grab, !.fromPassive = auto]
    BY <2>1
  <2>4. /\ E[d] \in DeviceRec /\ E[d].grab = grab /\ E[d].state = D[d].state
        /\ E[d].other = D[d].other /\ E[d].event = D[d].event
    <3>1. D[d] \in DeviceRec /\ grab \in Grab \cup {None} /\ auto \in BOOLEAN
      BY <2>1
    <3>2. E[d] = WithGrab(D[d], grab, auto)
      BY <2>3 DEF WithGrab
    <3> HIDE DEF E
    <3> QED
      BY <3>1, <3>2, GrabSet
  <2>5. DOMAIN E = Devices /\ E = [x \in Devices |-> E[x]]
    BY <2>1
  <2> HIDE DEF E
  <2> QED
    BY <2>1, <2>2, <2>4, <2>5
<1>2. \A x \in Devices : Without(E, x, c) = None \/ Without(E, x, c) = D[x].other
  BY <1>1 DEF Without
<1>3. \A x \in Devices : D[x].other \in Devices \cup {None} /\ D[x].other # x
  BY <1>1, DeviceRecFields, DevicesAssumption DEF Linked
<1> HIDE DEF E, c
<1>4. \A x \in Devices \ {d} :
         /\ F[x] \in DeviceRec /\ F[x].grab = D[x].grab /\ F[x].state = D[x].state
         /\ F[x].event = D[x].event
         /\ F[x].other \in {None, d, D[x].other}
  BY <1>1, <1>2, <1>3 DEF DeviceRec
<1>5. /\ F[d] \in DeviceRec /\ F[d].grab = grab /\ F[d].other \in {None, D[d].other}
      /\ F[d].state = IF this = "Sync" THEN "FROZEN_NO_EVENT" ELSE "THAWED"
  <2>1. CASE this = "Sync"
    BY <1>1, <2>1 DEF DeviceRec, States, FrozenStates
  <2>2. CASE this # "Sync"
    <3>1. F[d] = WithState(E[d], "THAWED", Without(E, d, c))
      BY <2>2 DEF WithState
    <3>2. Without(E, d, c) \in Devices \cup {None} /\ "THAWED" \in States
      BY <1>2, <1>3 DEF States
    <3> HIDE DEF F
    <3>3. F[d] \in DeviceRec /\ F[d].grab = E[d].grab /\ F[d].state = "THAWED"
          /\ F[d].other = Without(E, d, c)
      BY <1>1, <3>1, <3>2, StateSet
    <3> QED
      BY <1>1, <1>2, <2>2, <3>3
  <2> QED
    BY <2>1, <2>2
<1>6. F \in [Devices -> DeviceRec]
  BY <1>4, <1>5
<1> HIDE DEF F
<1>7. Linked(F)
  <2>1. \A x \in Devices : F[x].state = "FROZEN_WITH_EVENT" => F[x].event \in Event
    BY <1>4, <1>5 DEF Linked, Typed
  <2>2. \A x \in Devices : F[x].grab = None <=> F[x].state = "NOT_GRABBED"
    BY <1>0, <1>4, <1>5 DEF Linked
  <2>3. \A x \in Devices : F[x].other # None => F[x].other # x /\ F[F[x].other].grab # None
    BY <1>0, <1>3, <1>4, <1>5 DEF Linked
  <2> QED
    BY <1>6, <2>1, <2>2, <2>3 DEF Linked, Typed
<1>8. Activate(D, d, grab, this, that, auto) = FreezeThaw(F)
  BY DEF Activate, CheckGrabForSyncs, F, E, c
<1>9. FreezeThaw(F)[d].state = F[d].state
  BY <1>6 DEF FreezeThaw, DeviceRec
<1> QED
  BY <1>4, <1>5, <1>7, <1>8, <1>9, FreezeThawLemma

\* A grab that ends leaves nothing frozen on its behalf.
LEMMA DeactivateLemma ==
    ASSUME NEW D, Linked(D), NEW d \in Devices
    PROVE  /\ Accounted(Deactivate(D, d))
           /\ \A x \in Devices : Deactivate(D, d)[x].grab = IF x = d THEN None ELSE D[x].grab
<1> DEFINE E == [D EXCEPT ![d].grab = None, ![d].state = "NOT_GRABBED", ![d].fromPassive = FALSE]
           F == [e \in Devices |-> [E[e] EXCEPT !.other = IF @ = d THEN None ELSE @]]
<1>1. \A x \in Devices :
         /\ D[x] \in DeviceRec /\ E[x] \in DeviceRec
         /\ E[x].grab = IF x = d THEN None ELSE D[x].grab
         /\ E[x].state = IF x = d THEN "NOT_GRABBED" ELSE D[x].state
         /\ E[x].other = D[x].other /\ E[x].event = D[x].event
  <2>1. D \in [Devices -> DeviceRec]
    BY DEF Linked, Typed
  <2>2. \A x \in Devices \ {d} : E[x] = D[x]
    BY <2>1
  <2>3. E[d] = [D[d] EXCEPT !.grab = None, !.state = "NOT_GRABBED", !.fromPassive = FALSE]
    BY <2>1
  <2>4. /\ E[d] \in DeviceRec /\ E[d].grab = None /\ E[d].state = "NOT_GRABBED"
        /\ E[d].other = D[d].other /\ E[d].event = D[d].event
    <3> HIDE DEF E
    <3>1. D[d] \in DeviceRec /\ "NOT_GRABBED" \in States
      BY <2>1 DEF States
    <3>2. \A b \in BOOLEAN, r \in DeviceRec :
             E[d] = [r EXCEPT !.grab = None, !.state = "NOT_GRABBED", !.fromPassive = b] =>
                /\ E[d] \in DeviceRec /\ E[d].grab = None /\ E[d].state = "NOT_GRABBED"
                /\ E[d].other = r.other /\ E[d].event = r.event
      BY <3>1 DEF DeviceRec
    <3> QED
      BY <2>3, <3>1, <3>2, Zenon
  <2> HIDE DEF E
  <2> QED
    BY <2>1, <2>2, <2>4
<1> HIDE DEF E
<1>2. \A x \in Devices :
         /\ F[x] \in DeviceRec /\ F[x].grab = E[x].grab /\ F[x].state = E[x].state
         /\ F[x].event = E[x].event
         /\ F[x].other = IF D[x].other = d THEN None ELSE D[x].other
  BY <1>1 DEF DeviceRec
<1>3. F \in [Devices -> DeviceRec]
  BY <1>2
<1>4. \A x \in Devices : D[x].other \in Devices \cup {None}
  BY <1>1, DeviceRecFields
<1> HIDE DEF F
<1>5. Linked(F)
  BY <1>1, <1>2, <1>3, <1>4 DEF Linked, Typed
<1>6. Deactivate(D, d) = FreezeThaw(F)
  BY DEF Deactivate, F, E
<1> QED
  BY <1>1, <1>2, <1>5, <1>6, FreezeThawLemma

\* A passive grab that an event activates; the event is kept if it freezes the device.
LEMMA ActivatePassiveLemma ==
    ASSUME NEW D, Linked(D), NEW g \in PassiveGrabs, NEW e \in Event
    PROVE  /\ Accounted(ActivatePassive(D, g, e))
           /\ \A C : GrabsOf(D, C) /\ g.client \in C => GrabsOf(ActivatePassive(D, g, e), C)
<1> DEFINE grab == [client |-> g.client, window |-> g.window]
           A == Activate(D, e.dev, grab, g.thisMode, g.otherMode, TRUE)
           B == [A EXCEPT ![e.dev].state = "FROZEN_WITH_EVENT", ![e.dev].event = e]
<1>0. /\ e.dev \in Devices /\ grab \in Grab /\ g.thisMode \in Modes /\ g.otherMode \in Modes
  BY DevicesAssumption DEF Event, Grab
<1>1. TRUE \in BOOLEAN
  OBVIOUS
<1>2. /\ Accounted(A)
      /\ \A x \in Devices : A[x].grab = IF x = e.dev THEN grab ELSE D[x].grab
      /\ A[e.dev].state = IF g.thisMode = "Sync" THEN "FROZEN_NO_EVENT" ELSE "THAWED"
  <2>1. \A auto \in BOOLEAN :
           LET R == Activate(D, e.dev, grab, g.thisMode, g.otherMode, auto)
           IN  /\ Accounted(R)
               /\ \A x \in Devices : R[x].grab = IF x = e.dev THEN grab ELSE D[x].grab
               /\ R[e.dev].state = IF g.thisMode = "Sync" THEN "FROZEN_NO_EVENT" ELSE "THAWED"
    <3> HIDE DEF grab
    <3> QED
      BY <1>0, ActivateLemma
  <2> QED
    BY <1>1, <2>1, Zenon
<1> HIDE DEF A
<1>3. CASE A[e.dev].state # "FROZEN_NO_EVENT"
  <2>1. ActivatePassive(D, g, e) = A
    BY <1>3 DEF ActivatePassive, A
  <2> QED
    BY <1>2, <2>1 DEF GrabsOf
<1>4. CASE A[e.dev].state = "FROZEN_NO_EVENT"
  <2>1. ActivatePassive(D, g, e) = B
    BY <1>4 DEF ActivatePassive, A
  <2>2. A \in [Devices -> DeviceRec] /\ A[e.dev] \in DeviceRec
    BY <1>0, <1>2 DEF Accounted, Linked, Typed
  <2>3. \A x \in Devices \ {e.dev} : B[x] = A[x]
    BY <2>2
  <2>4. B[e.dev] = [A[e.dev] EXCEPT !.state = "FROZEN_WITH_EVENT", !.event = e]
    BY <1>0, <2>2
  <2>5. /\ B[e.dev] \in DeviceRec /\ B[e.dev].grab = A[e.dev].grab
        /\ B[e.dev].state = "FROZEN_WITH_EVENT" /\ B[e.dev].event = e
        /\ B[e.dev].other = A[e.dev].other /\ B[e.dev].frozen = A[e.dev].frozen
    <3> HIDE DEF B
    <3>1. \A r \in DeviceRec : B[e.dev] = [r EXCEPT !.state = "FROZEN_WITH_EVENT", !.event = e] =>
             /\ B[e.dev] \in DeviceRec /\ B[e.dev].grab = r.grab
             /\ B[e.dev].state = "FROZEN_WITH_EVENT" /\ B[e.dev].event = e
             /\ B[e.dev].other = r.other /\ B[e.dev].frozen = r.frozen
      BY DEF DeviceRec, States, FrozenStates
    <3> QED
      BY <2>2, <2>4, <3>1, Zenon
  <2>6. B \in [Devices -> DeviceRec]
    <3>1. B = [x \in Devices |-> B[x]]
      BY <2>2
    <3> HIDE DEF B
    <3> QED
      BY <2>2, <2>3, <2>5, <3>1
  <2> HIDE DEF B
  <2>7. Linked(B)
    <3>1. \A x \in Devices : A[x].other \in Devices \cup {None}
      BY <2>2, DeviceRecFields
    <3> QED
      BY <1>2, <1>4, <2>3, <2>5, <2>6, <3>1 DEF Accounted, Linked, Typed
  <2>8. Thawed(B)
    BY <1>0, <1>2, <1>4, <2>3, <2>5 DEF Accounted, Thawed, FrozenStates
  <2>9. \A x \in Devices : B[x].grab = A[x].grab
    BY <2>3, <2>5
  <2> QED
    BY <1>2, <2>1, <2>7, <2>8, <2>9 DEF Accounted, GrabsOf
<1> QED
  BY <1>3, <1>4

\* The delivery to the client of a grab freezes only what the grab accounts for.
LEMMA DeliverGrabbedLemma ==
    ASSUME NEW D, Accounted(D), NEW e \in Event, NEW deactivate \in BOOLEAN,
           D[e.dev].grab # None
    PROVE  /\ Accounted(DeliverGrabbed(D, e, deactivate))
           /\ \A x \in Devices :
                 /\ DeliverGrabbed(D, e, deactivate)[x].grab = D[x].grab
                 /\ D[x].frozen => DeliverGrabbed(D, e, deactivate)[x].frozen
<1> DEFINE d == e.dev
           both == D[d].state = "FREEZE_BOTH_NEXT_EVENT"
           this == [D[d] EXCEPT !.state = "FROZEN_WITH_EVENT", !.frozen = TRUE, !.event = e]
           that(x) ==
            IF D[x].state = "FREEZE_BOTH_NEXT_EVENT" /\ GrabbedBy(D, x, D[d].grab.client)
            THEN [D[x] EXCEPT !.state = "FROZEN_NO_EVENT", !.frozen = TRUE]
            ELSE [D[x] EXCEPT !.other = d, !.frozen = TRUE]
           F == [x \in Devices |-> IF x = d THEN this ELSE IF both THEN that(x) ELSE D[x]]
           quiet == deactivate \/ e.type = "Motion"
                      \/ D[d].state \notin {"FREEZE_NEXT_EVENT", "FREEZE_BOTH_NEXT_EVENT"}
<1>0. d \in Devices /\ D \in [Devices -> DeviceRec] /\ \A x \in Devices : D[x] \in DeviceRec
  BY DEF Event, Accounted, Linked, Typed
<1>1. CASE quiet
  <2>1. DeliverGrabbed(D, e, deactivate) = D
    BY <1>1 DEF DeliverGrabbed
  <2> QED
    BY <2>1
<1>2. CASE ~quiet
  <2>1. DeliverGrabbed(D, e, deactivate) = F
    BY <1>2 DEF DeliverGrabbed
  <2>2. /\ F[d] \in DeviceRec /\ F[d].grab = D[d].grab /\ F[d].state = "FROZEN_WITH_EVENT"
        /\ F[d].other = D[d].other /\ F[d].frozen /\ F[d].event = e
    <3>2. F[d] = WithEvent(D[d], e)
      BY <1>0 DEF WithEvent
    <3> HIDE DEF F
    <3> QED
      BY <1>0, <3>2, EventSet
  <2>3. ASSUME NEW x \in Devices \ {d}
        PROVE  /\ F[x] \in DeviceRec /\ F[x].grab = D[x].grab
               /\ \/ F[x] = D[x]
                  \/ /\ F[x].state = "FROZEN_NO_EVENT" /\ F[x].other = D[x].other /\ F[x].frozen
                     /\ D[x].grab # None
                  \/ F[x].state = D[x].state /\ F[x].other = d /\ F[x].frozen
                     /\ F[x].event = D[x].event
    <3>1. CASE ~both
      BY <1>0, <3>1
    <3>2. CASE both /\ D[x].state = "FREEZE_BOTH_NEXT_EVENT"
                  /\ GrabbedBy(D, x, D[d].grab.client)
      <4>2. F[x] = [D[x] EXCEPT !.state = "FROZEN_NO_EVENT", !.frozen = TRUE]
        BY <1>0, <3>2
      <4>3. D[x].grab # None
        BY <3>2 DEF GrabbedBy
      <4> HIDE DEF F
      <4>1. \A b \in BOOLEAN, r \in DeviceRec :
               F[x] = [r EXCEPT !.state = "FROZEN_NO_EVENT", !.frozen = b] =>
                /\ F[x] \in DeviceRec /\ F[x].grab = r.grab /\ F[x].state = "FROZEN_NO_EVENT"
                /\ F[x].other = r.other /\ F[x].frozen = b
        BY DEF DeviceRec, States, FrozenStates
      <4> QED
        BY <1>0, <4>1, <4>2, <4>3, Zenon
    <3>3. CASE both /\ ~(D[x].state = "FREEZE_BOTH_NEXT_EVENT"
                           /\ GrabbedBy(D, x, D[d].grab.client))
      <4>2. F[x] = [D[x] EXCEPT !.other = d, !.frozen = TRUE]
        BY <1>0, <3>3
      <4> HIDE DEF F
      <4>1. \A b \in BOOLEAN :
               F[x] = [D[x] EXCEPT !.other = d, !.frozen = b] =>
                /\ F[x] \in DeviceRec /\ F[x].grab = D[x].grab /\ F[x].state = D[x].state
                /\ F[x].other = d /\ F[x].frozen = b /\ F[x].event = D[x].event
        BY <1>0 DEF DeviceRec
      <4> QED
        BY <4>1, <4>2, Zenon
    <3> QED
      BY <3>1, <3>2, <3>3
  <2>4. F \in [Devices -> DeviceRec]
    <3>1. F = [x \in Devices |-> F[x]]
      OBVIOUS
    <3> HIDE DEF F
    <3> QED
      BY <2>2, <2>3, <3>1
  <2> HIDE DEF F
  <2>5. \A x \in Devices : D[x].other \in Devices \cup {None}
    BY <1>0, DeviceRecFields
  <2>6. Linked(F)
    <3>1. \A x \in Devices : F[x].state = "FROZEN_WITH_EVENT" => F[x].event \in Event
      BY <2>2, <2>3 DEF Accounted, Linked, Typed
    <3>2. \A x \in Devices : F[x].grab = None <=> F[x].state = "NOT_GRABBED"
      BY <2>2, <2>3 DEF Accounted, Linked
    <3>3. \A x \in Devices : F[x].grab = D[x].grab
      BY <2>2, <2>3
    <3>4. \A x \in Devices : F[x].other # None => F[x].other # x /\ F[F[x].other].grab # None
      BY <1>0, <2>2, <2>3, <2>5, <3>3, DevicesAssumption DEF Accounted, Linked
    <3> QED
      BY <2>4, <3>1, <3>2, <3>4 DEF Linked, Typed
  <2>7. Thawed(F)
    <3>1. \A x \in Devices \ {d} : F[x].frozen <=> F[x].other # None \/ F[x].state \in FrozenStates
      BY <1>0, <2>3, DevicesAssumption DEF Accounted, Thawed, FrozenStates
    <3> QED
      BY <2>2, <3>1 DEF Thawed, FrozenStates
  <2> QED
    BY <2>1, <2>2, <2>3, <2>6, <2>7 DEF Accounted
<1> QED
  BY <1>1, <1>2

\* The devices are accounted for and their grabs those of connected clients.
Held(D) == Accounted(D) /\ GrabsOf(D, connected)
PassiveHeld == passive \subseteq PassiveGrabs /\ \A g \in passive : g.client \in connected

LEMMA UngrabbedLemma ==
    ASSUME NEW D, Held(D), PassiveHeld, NEW e \in Event, NEW first, connected \subseteq Clients
    PROVE  /\ Held(Ungrabbed(D, e, first).dev) /\ Ungrabbed(D, e, first).calls \in BOOLEAN
           /\ Ungrabbed(D, e, first).calls
              \/ \A x \in Devices : D[x].frozen => Ungrabbed(D, e, first).dev[x].frozen
<1>1. CASE Matching(e, first) # {}
  <2>1. PICK g \in Matching(e, first) : g = CHOOSE h \in Matching(e, first) : TRUE
    BY <1>1
  <2>2. g \in passive
    BY DEF Matching
  <2>4. Held(ActivatePassive(D, g, e))
    BY <2>2, ActivatePassiveLemma DEF Held, PassiveHeld, Accounted
  <2>5. Ungrabbed(D, e, first).calls = TRUE /\ Ungrabbed(D, e, first).dev = ActivatePassive(D, g, e)
    BY <1>1, <2>1, Zenon DEF Ungrabbed, Result
  <2> QED
    BY <2>4, <2>5, Zenon
<1>2. CASE Matching(e, first) = {} /\ ImplicitGrab(e)
  <2> DEFINE grab == [client |-> Listener, window |-> Depth]
             A(auto) == Activate(D, pointer, grab, "Async", "Async", auto)
  <2>1. pointer \in Devices /\ grab \in Grab /\ "Async" \in Modes /\ Listener \in connected
    BY <1>2, DevicesAssumption DEF Devices, Modes, Grab, ImplicitGrab
  <2>2. Ungrabbed(D, e, first).calls = TRUE /\ Ungrabbed(D, e, first).dev = A(TRUE)
    BY <1>2, Zenon DEF Ungrabbed, Result
  <2>3. \A auto \in BOOLEAN : Held(A(auto))
    <3>1. ASSUME NEW auto \in BOOLEAN
          PROVE  /\ Accounted(A(auto))
                 /\ \A x \in Devices : A(auto)[x].grab = IF x = pointer THEN grab ELSE D[x].grab
      <4> HIDE DEF grab
      <4> QED
        BY <2>1, ActivateLemma DEF Held, Accounted
    <3> HIDE DEF A
    <3> QED
      BY <2>1, <3>1 DEF Held, GrabsOf
  <2> HIDE DEF A
  <2> QED
    BY <2>2, <2>3, Zenon
<1>3. CASE Matching(e, first) = {} /\ ~ImplicitGrab(e)
  <2>1. Ungrabbed(D, e, first).calls = FALSE /\ Ungrabbed(D, e, first).dev = D
    BY <1>3, Zenon DEF Ungrabbed, Result
  <2> QED
    BY <2>1, Zenon
<1> QED
  BY <1>1, <1>2, <1>3

\* Whatever an event that is processed does to the devices.
LEMMA ProcessedLemma ==
    ASSUME NEW D, Held(D), PassiveHeld, NEW e \in Event, connected \subseteq Clients
    PROVE  /\ Held(Processed(D, e).dev) /\ Processed(D, e).calls \in BOOLEAN
           /\ Processed(D, e).calls
              \/ \A x \in Devices : D[x].frozen => Processed(D, e).dev[x].frozen
<1> DEFINE d == e.dev
           deactivate == /\ e.type = "Release" /\ D[d].fromPassive
                         /\ d = keyboard => activatingKey
           delivered == DeliverGrabbed(D, e, deactivate)
<1>0. d \in Devices /\ Accounted(D) /\ D[d].fromPassive \in BOOLEAN
  BY DEF Event, Held, Accounted, Linked, Typed, DeviceRec
<1>1. CASE D[d].grab = None
  <2>1. Processed(D, e) = Ungrabbed(D, e, 1)
    BY <1>1 DEF Processed
  <2> QED
    BY <2>1, UngrabbedLemma
<1>2. CASE D[d].grab # None
  <2>1. Held(delivered) /\ \A x \in Devices : D[x].frozen => delivered[x].frozen
    <3>1. \A b \in BOOLEAN :
             /\ Accounted(DeliverGrabbed(D, e, b))
             /\ \A x \in Devices : /\ DeliverGrabbed(D, e, b)[x].grab = D[x].grab
                                   /\ D[x].frozen => DeliverGrabbed(D, e, b)[x].frozen
      BY <1>0, <1>2, DeliverGrabbedLemma
    <3>2. deactivate \in BOOLEAN
      BY Zenon
    <3>3. /\ Accounted(delivered)
          /\ \A x \in Devices : /\ delivered[x].grab = D[x].grab
                                /\ D[x].frozen => delivered[x].frozen
      BY <3>1, <3>2, Zenon
    <3> HIDE DEF delivered
    <3> QED
      BY <3>3 DEF Held, GrabsOf
  <2>2. Held(Deactivate(delivered, d))
    <3> HIDE DEF delivered
    <3> QED
      BY <1>0, <2>1, DeactivateLemma DEF Held, GrabsOf, Accounted
  <2>3. CASE deactivate
    <3>1. Processed(D, e).dev = Deactivate(delivered, d) /\ Processed(D, e).calls = TRUE
      BY <1>2, <2>3, Zenon DEF Processed, Result
    <3> QED
      BY <2>2, <3>1, Zenon
  <2>4. CASE ~deactivate
    <3>1. Processed(D, e).dev = delivered /\ Processed(D, e).calls = FALSE
      BY <1>2, <2>4, Zenon DEF Processed, Result
    <3> QED
      BY <2>1, <3>1, Zenon
  <2> QED
    BY <2>3, <2>4
<1> QED
  BY <1>1, <1>2

----------------------------------------------------------------------------
\* RemoveAt gives the other elements.
LEMMA RemoveAtLemma ==
    ASSUME NEW T, NEW s \in Seq(T), NEW i \in 1..Len(s)
    PROVE  /\ RemoveAt(s, i) \in Seq(T) /\ Len(RemoveAt(s, i)) = Len(s) - 1
           /\ \A j \in 1..Len(s) - 1 : \E k \in 1..Len(s) : RemoveAt(s, i)[j] = s[k]
<1> DEFINE a == SubSeq(s, 1, i - 1)
           b == SubSeq(s, i + 1, Len(s))
<1>0. i \in Nat /\ Len(s) \in Nat /\ 1 <= i /\ i <= Len(s)
  BY LenProperties
<1>1. /\ a \in Seq(T) /\ Len(a) = i - 1
      /\ \A j \in 1..i - 1 : a[j] = s[j]
  <2>1. \A j \in 1..i - 1 : j \in 1..Len(s) /\ 1 + j - 1 = j
    BY <1>0
  <2> QED
    BY <1>0, <2>1, SubSeqProperties
<1>2. /\ b \in Seq(T) /\ Len(b) = Len(s) - i
      /\ \A j \in 1..Len(s) - i : b[j] = s[i + j]
  <2>1. \A j \in 1..Len(s) - i : i + j \in 1..Len(s) /\ (i + 1) + j - 1 = i + j
    BY <1>0
  <2> QED
    BY <1>0, <2>1, SubSeqProperties
<1>3. RemoveAt(s, i) = a \o b
  BY DEF RemoveAt
<1> HIDE DEF a, b
<1>4. /\ a \o b \in Seq(T) /\ Len(a \o b) = Len(a) + Len(b)
      /\ \A j \in 1..Len(a) + Len(b) :
            (a \o b)[j] = IF j <= Len(a) THEN a[j] ELSE b[j - Len(a)]
  BY <1>1, <1>2, ConcatProperties
<1>5. ASSUME NEW j \in 1..Len(s) - 1
      PROVE  \E k \in 1..Len(s) : (a \o b)[j] = s[k]
  <2>1. CASE j <= i - 1
    <3>1. (a \o b)[j] = s[j] /\ j \in 1..Len(s)
      BY <1>0, <1>1, <1>2, <1>4, <2>1
    <3> QED
      BY <3>1
  <2>2. CASE ~(j <= i - 1)
    <3>1. PICK k \in 1..Len(s) - i : k = j - (i - 1)
      BY <1>0, <2>2
    <3>2. (a \o b)[j] = b[k]
      BY <1>0, <1>1, <1>2, <1>4, <2>2, <3>1
    <3>3. b[k] = s[i + k] /\ i + k \in 1..Len(s)
      BY <1>0, <1>2, <3>1
    <3> QED
      BY <3>2, <3>3
  <2> QED
    BY <2>1, <2>2
<1>6. Len(a) + Len(b) = Len(s) - 1
  BY <1>0, <1>1, <1>2
<1> QED
  BY <1>3, <1>4, <1>5, <1>6

\* The queue and its tail are as they should be.
Queued == pending \in Seq(Event) /\ TailAtEnd

\* An event put in the queue is put at its end, or into the motion there.
LEMMA EnqueueLemma ==
    ASSUME Queued, NEW e \in Event, EnqueueEvent(e)
    PROVE  /\ Queued'
           /\ \A i \in 1..Len(pending') :
                 \/ pending'[i].dev = e.dev
                 \/ \E j \in 1..Len(pending) : pending'[i].dev = pending[j].dev
<1> DEFINE tail == pendtail <= Len(pending)
<1>0. Len(pending) \in Nat /\ pendtail \in {Len(pending), Len(pending) + 1} /\ pendtail # 0
  BY LenProperties DEF Queued, TailAtEnd
<1>1. CASE e.type = "Motion" /\ tail /\ pending[pendtail].type = "Motion"
  <2>1. pendtail = Len(pending) /\ pendtail \in 1..Len(pending)
    BY <1>0, <1>1
  <2>2. /\ pending' = [pending EXCEPT ![pendtail].seq = e.seq] /\ pendtail' = pendtail
    BY <1>1 DEF EnqueueEvent
  <2>3. pending[pendtail] \in Event
    BY <2>1, ElementOfSeq DEF Queued
  <2>4. [pending[pendtail] EXCEPT !.seq = e.seq] \in Event
    BY <2>3 DEF Event
  <2>5. pending' = [pending EXCEPT ![pendtail] = [pending[pendtail] EXCEPT !.seq = e.seq]]
    BY <2>2
  <2>6. /\ pending' \in Seq(Event) /\ Len(pending') = Len(pending)
        /\ \A i \in 1..Len(pending) : pending'[i] =
              IF i = pendtail THEN [pending[pendtail] EXCEPT !.seq = e.seq] ELSE pending[i]
    <3> DEFINE x == [pending[pendtail] EXCEPT !.seq = e.seq]
    <3> HIDE DEF x
    <3>1. pending' = [pending EXCEPT ![pendtail] = x] /\ x \in Event
      BY <2>4, <2>5 DEF x
    <3>2. /\ pending' \in Seq(Event) /\ Len(pending') = Len(pending)
          /\ \A i \in 1..Len(pending) : pending'[i] = IF i = pendtail THEN x ELSE pending[i]
      BY <2>1, <3>1, ExceptSeq DEF Queued
    <3> QED
      BY <3>2 DEF x
  <2>7. [pending[pendtail] EXCEPT !.seq = e.seq].dev = pending[pendtail].dev
    BY <2>3 DEF Event
  <2>8. \A i \in 1..Len(pending') : pending'[i].dev = pending[i].dev
    BY <2>6, <2>7
  <2> QED
    BY <1>0, <2>2, <2>6, <2>8 DEF Queued, TailAtEnd
<1>2. CASE ~(e.type = "Motion" /\ tail /\ pending[pendtail].type = "Motion")
  <2>1. /\ pendtail' = IF tail THEN pendtail + 1 ELSE pendtail
        /\ pending' = Append(SubSeq(pending, 1, pendtail' - 1), e)
    BY <1>2 DEF EnqueueEvent
  <2>2. pendtail' = Len(pending) + 1
    BY <1>0, <2>1
  <2>3. SubSeq(pending, 1, Len(pending)) = pending
    BY <1>0, SubSeqFull DEF Queued
  <2>4. pendtail' - 1 = Len(pending)
    BY <1>0, <2>2
  <2>5. pending' = Append(pending, e)
    BY <2>1, <2>3, <2>4
  <2>6. /\ pending' \in Seq(Event) /\ Len(pending') = Len(pending) + 1
        /\ \A i \in 1..Len(pending) : pending'[i] = pending[i]
        /\ pending'[Len(pending) + 1] = e
    BY <2>5, AppendProperties DEF Queued
  <2>7. \A i \in 1..Len(pending') : i \in 1..Len(pending) \/ i = Len(pending) + 1
    BY <1>0, <2>6
  <2> QED
    BY <1>0, <2>2, <2>6, <2>7 DEF Queued, TailAtEnd
<1> QED
  BY <1>1, <1>2

\* An event taken out leaves the tail where it should be.
LEMMA DequeueLemma ==
    ASSUME Queued, NEW i \in 1..Len(pending), Dequeue(i)
    PROVE  Queued'
<1>0. /\ Len(pending) \in Nat /\ pendtail \in {Len(pending), Len(pending) + 1} /\ pendtail # 0
      /\ i \in Nat /\ 1 <= i /\ i <= Len(pending)
  BY LenProperties DEF Queued, TailAtEnd
<1>1. pending' \in Seq(Event) /\ Len(pending') = Len(pending) - 1
  BY RemoveAtLemma DEF Queued, Dequeue
<1>2. pendtail' = IF pendtail \in {i, i + 1} THEN i ELSE pendtail - 1
  BY DEF Dequeue, TailAfter
<1> QED
  BY <1>0, <1>1, <1>2 DEF Queued, TailAtEnd

----------------------------------------------------------------------------
\* The event that is repeated is that of a key.
RepeatsKey == again # None => again.event.dev = keyboard

\* When nothing is being played, the events in the queue are of frozen devices.
Quiet == ~playing => Playable(dev, pending) = {}

IInv == TypeOK /\ Queued /\ Held(dev) /\ PassiveHeld /\ Quiet /\ RepeatsKey

\* A state that is let go without a grab being ended.
LetGoStates == {"THAWED", "FREEZE_NEXT_EVENT", "FREEZE_BOTH_NEXT_EVENT"}

\* Letting go of devices ends no grab and begins none.
LEMMA LetGoLemma ==
    ASSUME NEW D, Held(D), NEW F \in [Devices -> DeviceRec],
           \A x \in Devices :
              /\ F[x].grab = D[x].grab /\ F[x].event = D[x].event
              /\ F[x].other \in {None, D[x].other}
              /\ \/ F[x].state = D[x].state
                 \/ F[x].state \in LetGoStates /\ D[x].grab # None
    PROVE  Linked(F) /\ GrabsOf(F, connected) /\ Held(FreezeThaw(F))
<1>1. \A x \in Devices : D[x].other \in Devices \cup {None}
  BY DeviceRecFields DEF Held, Accounted, Linked, Typed
<1>2. Linked(F)
  BY <1>1 DEF Held, Accounted, Linked, Typed, LetGoStates
<1>3. GrabsOf(F, connected)
  BY DEF Held, GrabsOf
<1> QED
  BY <1>2, <1>3, FreezeThawLemma DEF Held, GrabsOf

\* A request that only changes the devices keeps the invariant if they are held.
LEMMA ComputeFreezesLemma ==
    ASSUME IInv, NEW D, Held(D), ComputeFreezes(D), UNCHANGED <<replay, closing>>
    PROVE  IInv'
<1>1. /\ dev' = D /\ playing' = (Playable(D, pending) # {})
      /\ UNCHANGED <<activatingKey, passive, pending, pendtail, again, connected, down, physical,
                     seq, done, replay, closing>>
  BY DEF ComputeFreezes
<1>2. playing' \in BOOLEAN
  BY <1>1
<1>3. Held(dev)'
  BY <1>1 DEF Held, GrabsOf, Accounted, Linked, Typed, Thawed
<1>4. dev' \in [Devices -> DeviceRec]
  BY <1>3 DEF Held, Accounted, Linked, Typed
<1>5. TypeOK'
  BY <1>1, <1>2, <1>4 DEF IInv, TypeOK
<1>6. Queued' /\ PassiveHeld' /\ RepeatsKey'
  BY <1>1 DEF IInv, Queued, TailAtEnd, PassiveHeld, RepeatsKey
<1>7. Quiet'
  BY <1>1 DEF Quiet
<1> QED
  BY <1>3, <1>5, <1>6, <1>7 DEF IInv

\* GrabDevice, UngrabDevice, AllowThis, AllowBoth and ReleaseActiveGrab.
LEMMA RequestsKeep ==
    ASSUME IInv, NEW d \in Devices, NEW c \in Clients
    PROVE  /\ (\E w \in GrabWindows, m, n \in Modes : GrabDevice(c, d, w, m, n)) => IInv'
           /\ UngrabDevice(c, d) => IInv'
           /\ (\E s \in LetGoStates : AllowThis(c, d, s)) => IInv'
           /\ (\E s \in LetGoStates : AllowBoth(c, s)) => IInv'
           /\ ReleaseActiveGrab(d) => IInv'
<1>0. Held(dev) /\ Linked(dev) /\ dev \in [Devices -> DeviceRec] /\ connected \subseteq Clients
  BY DEF IInv, Held, Accounted, Linked, Typed, TypeOK
<1>1. ASSUME NEW w \in GrabWindows, NEW m \in Modes, NEW n \in Modes, GrabDevice(c, d, w, m, n)
      PROVE  IInv'
  <2> DEFINE grab == [client |-> c, window |-> w]
             A(auto) == Activate(dev, d, grab, m, n, auto)
  <2>1. grab \in Grab /\ c \in connected
    BY <1>1, DevicesAssumption DEF Grab, GrabDevice
  <2>2. \A auto \in BOOLEAN : Held(A(auto))
    <3>1. \A auto \in BOOLEAN :
             /\ Accounted(A(auto))
             /\ \A x \in Devices : A(auto)[x].grab = IF x = d THEN grab ELSE dev[x].grab
      <4> HIDE DEF grab
      <4> QED
        BY <1>0, <2>1, ActivateLemma
    <3> HIDE DEF A
    <3> QED
      BY <1>0, <2>1, <3>1 DEF Held, GrabsOf
  <2>3. \E b \in BOOLEAN : ComputeFreezes(A(b)) /\ UNCHANGED <<replay, closing>>
    BY <1>1, Zenon DEF GrabDevice
  <2> HIDE DEF A
  <2> QED
    BY <2>2, <2>3, ComputeFreezesLemma
<1>2. Held(Deactivate(dev, d))
  BY <1>0, DeactivateLemma DEF Held, GrabsOf
<1>3. ASSUME UngrabDevice(c, d) \/ ReleaseActiveGrab(d)
      PROVE  IInv'
  BY <1>2, <1>3, ComputeFreezesLemma DEF UngrabDevice, ReleaseActiveGrab
<1>4. ASSUME NEW s \in LetGoStates, AllowThis(c, d, s)
      PROVE  IInv'
  <2> DEFINE s2 == IF GrabbedBy(dev, d, c) THEN s ELSE dev[d].state
             o2 == IF ThisSynced(c, d) THEN None ELSE dev[d].other
             F == [dev EXCEPT ![d].state = IF GrabbedBy(dev, d, c) THEN s ELSE @,
                              ![d].other = IF ThisSynced(c, d) THEN None ELSE @]
  <2>1. \A x \in Devices \ {d} : F[x] = dev[x]
    BY <1>0
  <2>2. F[d] = [dev[d] EXCEPT !.state = s2, !.other = o2]
    BY <1>0
  <2>3. /\ s2 \in States /\ o2 \in Devices \cup {None} /\ o2 \in {None, dev[d].other}
        /\ s2 = dev[d].state \/ (s2 \in LetGoStates /\ dev[d].grab # None)
        /\ dev[d] \in DeviceRec
    BY <1>0, DeviceRecFields DEF LetGoStates, States, GrabbedBy
  <2> HIDE DEF s2, o2
  <2>4. /\ F[d] \in DeviceRec /\ F[d].grab = dev[d].grab /\ F[d].event = dev[d].event
        /\ F[d].state = s2 /\ F[d].other = o2
    <3> HIDE DEF F
    <3> QED
      BY <2>2, <2>3 DEF DeviceRec
  <2>5. F \in [Devices -> DeviceRec]
    <3>1. F = [x \in Devices |-> F[x]]
      BY <1>0
    <3> HIDE DEF F
    <3> QED
      BY <1>0, <2>1, <2>4, <3>1
  <2>6. ComputeFreezes(FreezeThaw(F)) /\ UNCHANGED <<replay, closing>>
    BY <1>4 DEF AllowThis
  <2> HIDE DEF F
  <2>7. Held(FreezeThaw(F))
    BY <1>0, <2>1, <2>3, <2>4, <2>5, LetGoLemma
  <2> QED
    BY <2>6, <2>7, ComputeFreezesLemma
<1>5. ASSUME NEW s \in LetGoStates, AllowBoth(c, s)
      PROVE  IInv'
  <2> DEFINE F == [x \in Devices |-> LetGo(x, c, s)]
  <2>1. ASSUME NEW x \in Devices
        PROVE  /\ F[x] \in DeviceRec /\ F[x].grab = dev[x].grab /\ F[x].event = dev[x].event
               /\ F[x].other \in {None, dev[x].other}
               /\ \/ F[x].state = dev[x].state
                  \/ F[x].state \in LetGoStates /\ dev[x].grab # None
    <3> DEFINE s2 == IF GrabbedBy(dev, x, c) THEN s ELSE dev[x].state
               o2 == Without(dev, x, c)
    <3>1. F[x] = [dev[x] EXCEPT !.state = s2, !.other = o2]
      BY DEF LetGo
    <3>2. /\ s2 \in States /\ o2 \in Devices \cup {None} /\ o2 \in {None, dev[x].other}
          /\ s2 = dev[x].state \/ (s2 \in LetGoStates /\ dev[x].grab # None)
          /\ dev[x] \in DeviceRec
      BY <1>0, DeviceRecFields DEF LetGoStates, States, GrabbedBy, Without
    <3> HIDE DEF s2, o2, F
    <3> QED
      BY <3>1, <3>2 DEF DeviceRec
  <2>2. F \in [Devices -> DeviceRec]
    BY <2>1
  <2>3. ComputeFreezes(FreezeThaw(F)) /\ UNCHANGED <<replay, closing>>
    BY <1>5 DEF AllowBoth
  <2> HIDE DEF F
  <2> QED
    BY <1>0, <2>1, <2>2, <2>3, LetGoLemma, ComputeFreezesLemma
<1> QED
  BY <1>1, <1>3, <1>4, <1>5

----------------------------------------------------------------------------
\* Processing an event keeps the invariant: played from the queue, or when
\* nothing is being played and the queue is left alone.
LEMMA ProcessLemma ==
    ASSUME IInv, NEW e \in Event, NEW inPlay \in BOOLEAN, Process(e, inPlay), Queued',
           UNCHANGED <<passive, replay, closing, connected>>,
           physical' \in [Devices -> BOOLEAN], seq' \in 0..MaxEvents,
           inPlay \/ (~playing /\ pending' = pending)
    PROVE  IInv'
<1> DEFINE part == IF IsRepeat(e) THEN [e EXCEPT !.type = "Release"] ELSE e
           result == Processed(dev, part)
<1>1. /\ dev' = result.dev
      /\ activatingKey' = (activatingKey \/ ActivatesByKey(part))
      /\ down' = IF part.type = "Motion" THEN down
                 ELSE [down EXCEPT ![e.dev] = (part.type = "Press")]
      /\ again' = IF IsRepeat(e) THEN [event |-> e, inPlay |-> inPlay]
                  ELSE IF e.dev = keyboard THEN None ELSE again
      /\ done' = [done EXCEPT ![e.dev] = e.seq]
      /\ playing' = /\ inPlay \/ result.calls
                    /\ Playable(dev', pending') # {} \/ (inPlay /\ IsRepeat(e))
  BY DEF Process
<1>2. part \in Event
  BY DEF Event
<1>3. /\ Held(result.dev) /\ result.calls \in BOOLEAN
      /\ result.calls \/ \A x \in Devices : dev[x].frozen => result.dev[x].frozen
  <2> HIDE DEF part
  <2> QED
    BY <1>2, ProcessedLemma DEF IInv, TypeOK
<1> HIDE DEF part, result
<1>4. Held(dev)'
  BY <1>1, <1>3 DEF Held, GrabsOf, Accounted, Linked, Typed, Thawed
<1>5. TypeOK'
  <2>1. dev' \in [Devices -> DeviceRec]
    BY <1>4 DEF Held, Accounted, Linked, Typed
  <2>2. playing' \in BOOLEAN /\ (part.type = "Press") \in BOOLEAN
    BY <1>1
  <2>3. down' \in [Devices -> BOOLEAN]
    BY <1>1, <2>2 DEF IInv, TypeOK
  <2>4. again' \in [event : Event, inPlay : BOOLEAN] \cup {None}
    BY <1>1 DEF IInv, TypeOK
  <2>5. done' \in [Devices -> 0..MaxEvents]
    <3>1. e.seq \in 0..MaxEvents
      BY DevicesAssumption DEF Event
    <3> QED
      BY <1>1, <3>1 DEF IInv, TypeOK
  <2>6. pending' \in Seq(Event) /\ pendtail' \in Nat \ {0}
    BY LenProperties DEF Queued, TailAtEnd
  <2>7. activatingKey' \in BOOLEAN
    BY <1>1, Zenon
  <2> QED
    BY <2>1, <2>2, <2>3, <2>4, <2>5, <2>6, <2>7 DEF IInv, TypeOK
<1>6. RepeatsKey'
  <2>1. CASE IsRepeat(e)
    BY <1>1, <2>1 DEF IsRepeat, RepeatsKey
  <2>2. CASE ~IsRepeat(e)
    BY <1>1, <2>2 DEF IInv, RepeatsKey
  <2> QED
    BY <2>1, <2>2
<1>7. Quiet'
  <2>1. CASE inPlay \/ result.calls
    BY <1>1, <2>1 DEF Quiet
  <2>2. CASE ~inPlay /\ ~result.calls
    <3>1. ~playing /\ pending' = pending /\ Playable(dev, pending) = {}
      BY <2>2 DEF IInv, Quiet
    <3>2. \A i \in 1..Len(pending) : pending[i].dev \in Devices
      <4>1. \A i \in 1..Len(pending) : pending[i] \in Event
        BY ElementOfSeq DEF IInv, Queued
      <4> QED
        BY <4>1 DEF Event
    <3> QED
      BY <1>1, <1>3, <2>2, <3>1, <3>2 DEF Quiet, Playable
  <2> QED
    BY <2>1, <2>2
<1> QED
  BY <1>4, <1>5, <1>6, <1>7 DEF IInv, PassiveHeld

\* An event of a frozen device joins those that wait.
LEMMA EnqueuedLemma ==
    ASSUME IInv, NEW e \in Event, EnqueueEvent(e), dev[e.dev].frozen,
           UNCHANGED <<dev, activatingKey, passive, replay, closing, connected, down, done>>,
           physical' \in [Devices -> BOOLEAN], seq' \in 0..MaxEvents,
           again' = None \/ again' = again, playing' \in BOOLEAN,
           (~playing /\ UNCHANGED playing) \/ playing' = (Playable(dev, pending') # {})
    PROVE  IInv'
<1>1. /\ Queued'
      /\ \A i \in 1..Len(pending') :
            \/ pending'[i].dev = e.dev
            \/ \E j \in 1..Len(pending) : pending'[i].dev = pending[j].dev
  BY EnqueueLemma DEF IInv
<1>2. TypeOK'
  <2>1. pending' \in Seq(Event) /\ pendtail' \in Nat \ {0}
    BY <1>1, LenProperties DEF Queued, TailAtEnd
  <2> QED
    BY <2>1 DEF IInv, TypeOK
<1>3. Held(dev)' /\ PassiveHeld' /\ RepeatsKey'
  BY DEF IInv, Held, GrabsOf, Accounted, Linked, Typed, Thawed, PassiveHeld, RepeatsKey
<1>4. Quiet'
  <2>1. CASE ~playing /\ UNCHANGED playing
    BY <1>1, <2>1 DEF IInv, Quiet, Playable
  <2>2. CASE playing' = (Playable(dev, pending') # {})
    BY <2>2 DEF Quiet
  <2> QED
    BY <2>1, <2>2
<1> QED
  BY <1>1, <1>2, <1>3, <1>4 DEF IInv

----------------------------------------------------------------------------
\* The invariant holds at first.
LEMMA InitIInv == Init => IInv
<1> SUFFICES ASSUME Init PROVE IInv
  OBVIOUS
<1>1. /\ \A d \in Devices : /\ dev[d].grab = None /\ dev[d].state = "NOT_GRABBED"
                            /\ dev[d].other = None /\ ~dev[d].frozen
                            /\ dev[d] \in DeviceRec
      /\ dev \in [Devices -> DeviceRec]
  <2>1. "NOT_GRABBED" \in States /\ "NOT_GRABBED" \notin FrozenStates
        /\ "NOT_GRABBED" # "FROZEN_WITH_EVENT"
    BY DEF States, FrozenStates
  <2>2. \A b \in BOOLEAN :
           dev = [d \in Devices |-> [grab |-> None, state |-> "NOT_GRABBED", other |-> None,
                                     frozen |-> b, event |-> None, fromPassive |-> b]] =>
           /\ \A d \in Devices : /\ dev[d].grab = None /\ dev[d].state = "NOT_GRABBED"
                                 /\ dev[d].other = None /\ dev[d].frozen = b
                                 /\ dev[d] \in DeviceRec
           /\ dev \in [Devices -> DeviceRec]
    BY <2>1 DEF DeviceRec
  <2>3. dev = [d \in Devices |-> [grab |-> None, state |-> "NOT_GRABBED", other |-> None,
                                  frozen |-> FALSE, event |-> None, fromPassive |-> FALSE]]
    BY DEF Init
  <2> QED
    BY <2>2, <2>3, Zenon
<1>2. Accounted(dev) /\ GrabsOf(dev, connected)
  BY <1>1 DEF Accounted, Linked, Typed, Thawed, GrabsOf, FrozenStates
<1>3. pending \in Seq(Event) /\ Len(pending) = 0 /\ pendtail = 1
  BY EmptySeq DEF Init
<1>4. /\ playing \in BOOLEAN /\ activatingKey \in BOOLEAN /\ closing = None /\ replay = None /\ again = None
      /\ connected = Clients /\ passive = PassiveGrabs
      /\ down \in [Devices -> BOOLEAN] /\ physical \in [Devices -> BOOLEAN]
      /\ seq \in 0..MaxEvents /\ done \in [Devices -> 0..MaxEvents]
  <2>1. playing \in BOOLEAN /\ activatingKey \in BOOLEAN
    BY DEF Init
  <2>2. down \in [Devices -> BOOLEAN] /\ physical \in [Devices -> BOOLEAN]
    <3>1. \A b \in BOOLEAN : [d \in Devices |-> b] \in [Devices -> BOOLEAN]
      OBVIOUS
    <3>2. down = [d \in Devices |-> FALSE] /\ physical = [d \in Devices |-> FALSE]
      BY DEF Init
    <3> QED
      BY <3>1, <3>2, Zenon
  <2>3. seq \in 0..MaxEvents /\ done \in [Devices -> 0..MaxEvents]
    BY DevicesAssumption DEF Init
  <2> QED
    BY <2>1, <2>2, <2>3 DEF Init
<1>5. TypeOK
  BY <1>1, <1>3, <1>4 DEF TypeOK
<1>6. Queued
  BY <1>3 DEF Queued, TailAtEnd
<1>7. PassiveHeld
  BY <1>4, DevicesAssumption DEF PassiveHeld
<1>8. Quiet /\ RepeatsKey
  BY <1>3, <1>4 DEF Quiet, Playable, RepeatsKey
<1> QED
  BY <1>2, <1>5, <1>6, <1>7, <1>8 DEF IInv, Held

\* Every step keeps it.
LEMMA NextIInv == IInv /\ [Next]_vars => IInv'
<1> SUFFICES ASSUME IInv, [Next]_vars PROVE IInv'
  OBVIOUS
<1>0. /\ Held(dev) /\ Linked(dev) /\ dev \in [Devices -> DeviceRec] /\ connected \subseteq Clients
      /\ TypeOK /\ Queued /\ PassiveHeld
  BY DEF IInv, Held, Accounted, Linked, Typed, TypeOK
<1>1. ASSUME NEW d \in Devices, NEW type \in {"Press", "Release", "Motion"},
             DeviceEvent(d, type)
      PROVE  IInv'
  <2> DEFINE e == [dev |-> d, type |-> type, seq |-> seq + 1]
  <2>1. /\ ~playing /\ again = None /\ Arrives(d, type)
        /\ UNCHANGED <<passive, replay, closing, connected>>
    BY <1>1 DEF DeviceEvent, Idle
  <2>2. seq' = seq + 1 /\ seq < MaxEvents /\ seq \in 0..MaxEvents /\ MaxEvents \in Nat
    BY <2>1, DevicesAssumption DEF Arrives, IInv, TypeOK
  <2>3. e \in Event /\ e.dev = d
    BY <2>2 DEF Event
  <2>4. physical' \in [Devices -> BOOLEAN]
    <3>1. (type = "Press") \in BOOLEAN
      OBVIOUS
    <3> QED
      BY <2>1, <3>1 DEF Arrives, IInv, TypeOK
  <2>5. CASE dev[d].frozen
    <3>1. EnqueueEvent(e) /\ UNCHANGED <<dev, activatingKey, down, again, done, playing>>
      BY <1>1, <2>5 DEF DeviceEvent
    <3>2. playing' \in BOOLEAN
      BY <3>1 DEF IInv, TypeOK
    <3> HIDE DEF e
    <3> QED
      BY <2>1, <2>2, <2>3, <2>4, <2>5, <3>1, <3>2, EnqueuedLemma
  <2>6. CASE ~dev[d].frozen
    <3>1. Process(e, FALSE) /\ UNCHANGED <<pending, pendtail>>
      BY <1>1, <2>6, Zenon DEF DeviceEvent
    <3>2. \E b \in BOOLEAN : Process(e, b)
      BY <3>1, Zenon
    <3>3. Queued'
      BY <1>0, <3>1 DEF Queued, TailAtEnd
    <3> HIDE DEF e
    <3> QED
      BY <2>1, <2>2, <2>3, <2>4, <3>1, <3>2, <3>3, ProcessLemma
  <2> QED
    BY <2>5, <2>6
<1>2. ASSUME SecondHalf
      PROVE  IInv'
  <2>1. /\ again # None /\ (again.inPlay \/ ~playing)
        /\ UNCHANGED <<passive, replay, closing, connected, physical, seq>>
    BY <1>2 DEF SecondHalf
  <2>2. /\ again.event \in Event /\ again.inPlay \in BOOLEAN /\ again.event.dev = keyboard
        /\ physical' \in [Devices -> BOOLEAN] /\ seq' \in 0..MaxEvents
    BY <2>1 DEF IInv, TypeOK, RepeatsKey
  <2>3. CASE noXkbExtension /\ dev[keyboard].frozen
    <3>1. /\ EnqueueEvent(again.event) /\ again' = None
          /\ playing' = (again.inPlay /\ Playable(dev, pending') # {})
          /\ UNCHANGED <<dev, activatingKey, down, done>>
      BY <1>2, <2>3 DEF SecondHalf
    <3>2. playing' \in BOOLEAN
      BY <3>1
    <3>3. \/ ~playing /\ UNCHANGED playing
          \/ playing' = (Playable(dev, pending') # {})
      <4>1. CASE again.inPlay
        BY <3>1, <4>1
      <4>2. CASE ~again.inPlay
        BY <2>1, <3>1, <4>2 DEF IInv, TypeOK
      <4> QED
        BY <4>1, <4>2
    <3> QED
      BY <2>1, <2>2, <2>3, <3>1, <3>2, <3>3, EnqueuedLemma
  <2>4. CASE ~(noXkbExtension /\ dev[keyboard].frozen)
    <3>1. Process(again.event, again.inPlay) /\ UNCHANGED <<pending, pendtail>>
      BY <1>2, <2>4 DEF SecondHalf
    <3>2. Queued'
      BY <1>0, <3>1 DEF Queued, TailAtEnd
    <3> QED
      BY <2>1, <2>2, <3>1, <3>2, ProcessLemma
  <2> QED
    BY <2>3, <2>4
<1>3. ASSUME PlayReplay
      PROVE  IInv'
  <2> DEFINE result == IF replay.window = 0 THEN Ungrabbed(dev, replay.event, Depth + 1)
                       ELSE Ungrabbed(dev, replay.event, replay.window + 1)
  <2>1. /\ replay # None /\ dev' = result.dev /\ replay' = None
        /\ playing' = (Playable(dev', pending) # {})
        /\ UNCHANGED <<activatingKey, passive, pending, pendtail, again, closing, connected, down,
                       physical, seq, done>>
    BY <1>3 DEF PlayReplay
  <2>2. replay.event \in Event
    BY <2>1 DEF IInv, TypeOK
  <2>3. Held(result.dev)
    BY <1>0, <2>2, UngrabbedLemma
  <2> HIDE DEF result
  <2>4. Held(dev)'
    BY <2>1, <2>3 DEF Held, GrabsOf, Accounted, Linked, Typed, Thawed
  <2>5. TypeOK'
    <3>1. dev' \in [Devices -> DeviceRec] /\ playing' \in BOOLEAN
      BY <2>1, <2>4 DEF Held, Accounted, Linked, Typed
    <3> QED
      BY <2>1, <3>1 DEF IInv, TypeOK
  <2>6. Queued' /\ PassiveHeld' /\ RepeatsKey' /\ Quiet'
    BY <2>1 DEF IInv, Queued, TailAtEnd, PassiveHeld, RepeatsKey, Quiet
  <2> QED
    BY <2>4, <2>5, <2>6 DEF IInv
<1>4. ASSUME PlayReleasedEvent
      PROVE  IInv'
  <2>1. PICK i \in 1..Len(pending) :
           /\ Dequeue(i) /\ Process(pending[i], TRUE)
           /\ UNCHANGED <<passive, replay, closing, connected, physical, seq>>
    BY <1>4 DEF PlayReleasedEvent, Playable
  <2>2. pending[i] \in Event
    BY <1>0, ElementOfSeq DEF Queued
  <2>3. Queued'
    BY <1>0, <2>1, DequeueLemma
  <2>4. physical' \in [Devices -> BOOLEAN] /\ seq' \in 0..MaxEvents
    BY <1>0, <2>1 DEF TypeOK
  <2>5. \E b \in BOOLEAN : b /\ Process(pending[i], b)
    BY <2>1, Zenon
  <2> QED
    BY <2>1, <2>2, <2>3, <2>4, <2>5, ProcessLemma
<1>5. ASSUME NEW c \in Clients, Requests(c)
      PROVE  IInv'
  <2>1. ASSUME NEW d \in Devices, Replay(c, d)
        PROVE  IInv'
    <3> DEFINE o2 == IF ThisSynced(c, d) THEN None ELSE dev[d].other
               F == [dev EXCEPT ![d].other = IF ThisSynced(c, d) THEN None ELSE @]
               R == [event |-> dev[d].event, window |-> dev[d].grab.window]
    <3>1. /\ GrabbedBy(dev, d, c) /\ dev[d].state = "FROZEN_WITH_EVENT"
          /\ replay' = R /\ dev' = Deactivate(F, d) /\ playing' = TRUE
          /\ UNCHANGED <<activatingKey, passive, pending, pendtail, again, closing, connected, down,
                         physical, seq, done>>
      BY <2>1 DEF Replay
    <3>2. R \in [event : Event, window : 0..Depth]
      <4>1. dev[d] \in DeviceRec /\ dev[d].grab # None /\ dev[d].event \in Event
        BY <1>0, <3>1 DEF GrabbedBy, Linked, Typed
      <4>2. dev[d].grab \in Grab
        BY <4>1, DeviceRecFields
      <4> QED
        BY <4>1, <4>2 DEF Grab
    <3>3. /\ \A x \in Devices \ {d} : F[x] = dev[x]
          /\ F[d] = [dev[d] EXCEPT !.other = o2] /\ F = [x \in Devices |-> F[x]]
      BY <1>0
    <3>4. o2 \in Devices \cup {None} /\ o2 \in {None, dev[d].other} /\ dev[d] \in DeviceRec
      BY <1>0, DeviceRecFields
    <3> HIDE DEF F, o2, R
    <3>5. /\ F[d] \in DeviceRec /\ F[d].grab = dev[d].grab /\ F[d].event = dev[d].event
          /\ F[d].state = dev[d].state /\ F[d].other = o2
      BY <3>3, <3>4 DEF DeviceRec
    <3>6. F \in [Devices -> DeviceRec]
      BY <1>0, <3>3, <3>5
    <3>7. Linked(F) /\ GrabsOf(F, connected)
      <4>1. \A x \in Devices :
               /\ F[x].grab = dev[x].grab /\ F[x].event = dev[x].event
               /\ F[x].other \in {None, dev[x].other} /\ F[x].state = dev[x].state
        <5>1. \A x \in Devices \ {d} : F[x] = dev[x]
          BY <3>3
        <5> QED
          BY <3>4, <3>5, <5>1
      <4> QED
        BY <1>0, <3>6, <4>1, LetGoLemma
    <3>8. Held(Deactivate(F, d))
      BY <3>7, DeactivateLemma DEF Held, GrabsOf
    <3>9. Held(dev)'
      BY <3>1, <3>8 DEF Held, GrabsOf, Accounted, Linked, Typed, Thawed
    <3>10. TypeOK'
      <4>1. dev' \in [Devices -> DeviceRec] /\ playing' \in BOOLEAN
        BY <3>1, <3>9 DEF Held, Accounted, Linked, Typed
      <4> QED
        BY <3>1, <3>2, <4>1 DEF IInv, TypeOK
    <3>11. Queued' /\ PassiveHeld' /\ RepeatsKey' /\ Quiet'
      BY <3>1 DEF IInv, Queued, TailAtEnd, PassiveHeld, RepeatsKey, Quiet
    <3> QED
      BY <3>9, <3>10, <3>11 DEF IInv
  <2>2. ASSUME CloseDownClient(c)
        PROVE  IInv'
    <3>1. /\ c \in connected /\ closing' = c
          /\ UNCHANGED <<dev, activatingKey, passive, pending, pendtail, playing, replay, again,
                         connected, down, physical, seq, done>>
      BY <2>2 DEF CloseDownClient
    <3>2. TypeOK'
      BY <1>0, <3>1 DEF TypeOK
    <3>3. Queued' /\ PassiveHeld' /\ RepeatsKey' /\ Quiet' /\ Held(dev)'
      BY <3>1 DEF IInv, Queued, TailAtEnd, PassiveHeld, RepeatsKey, Quiet, Playable,
                  Held, GrabsOf, Accounted, Linked, Typed, Thawed
    <3> QED
      BY <3>2, <3>3 DEF IInv
  <2>3. ASSUME NEW s \in LetGoStates, AllowBoth(c, s)
        PROVE  IInv'
    BY <2>3, RequestsKeep DEF Devices
  <2>4. ASSUME NEW d \in Devices, NEW s \in {"THAWED", "FREEZE_NEXT_EVENT"}, AllowThis(c, d, s)
        PROVE  IInv'
    BY <2>4, RequestsKeep DEF LetGoStates
  <2> QED
    BY <1>5, <2>1, <2>2, <2>3, <2>4, RequestsKeep DEF Requests, LetGoStates
<1>6. ASSUME NEW d \in Devices, ReleaseActiveGrab(d)
      PROVE  IInv'
  <2>1. dev[d].grab # None /\ dev[d].grab.client = closing
    BY <1>6 DEF ReleaseActiveGrab, StillGrabbed, GrabbedBy
  <2>2. closing \in Clients
    BY <1>0, <2>1 DEF Held, GrabsOf
  <2> QED
    BY <1>6, <2>2, RequestsKeep
<1>7. ASSUME CloseDone
      PROVE  IInv'
  <2>1. /\ StillGrabbed = {} /\ connected' = connected \ {closing} /\ closing' = None
        /\ passive' = {g \in passive : g.client # closing}
        /\ UNCHANGED <<dev, activatingKey, pending, pendtail, playing, replay, again, down, physical,
                       seq, done>>
    BY <1>7 DEF CloseDone
  <2>2. TypeOK'
    BY <1>0, <2>1 DEF TypeOK
  <2>3. GrabsOf(dev, connected)'
    <3>1. \A d \in Devices : dev[d].grab # None => dev[d].grab.client # closing
      BY <2>1 DEF StillGrabbed, GrabbedBy
    <3> QED
      BY <1>0, <2>1, <3>1 DEF Held, GrabsOf
  <2>4. Held(dev)'
    BY <1>0, <2>1, <2>3 DEF Held, Accounted, Linked, Typed, Thawed
  <2>5. Queued' /\ PassiveHeld' /\ RepeatsKey' /\ Quiet'
    BY <2>1 DEF IInv, Queued, TailAtEnd, PassiveHeld, RepeatsKey, Quiet, Playable
  <2> QED
    BY <2>2, <2>4, <2>5 DEF IInv
<1>8. CASE UNCHANGED vars
  BY <1>8 DEF vars, IInv, TypeOK, Queued, TailAtEnd, PassiveHeld, RepeatsKey, Quiet, Playable,
              Held, GrabsOf, Accounted, Linked, Typed, Thawed
<1> QED
  BY <1>1, <1>2, <1>3, <1>4, <1>5, <1>6, <1>7, <1>8 DEF Next, GoesOn

\* The invariant holds throughout.
LEMMA Invariance == Spec => []IInv
  BY InitIInv, NextIInv, PTL DEF Spec

----------------------------------------------------------------------------
\* Every variable has its type, whatever requests and events come.
THEOREM TypeCorrect == Spec => []TypeOK
<1>1. IInv => TypeOK
  BY DEF IInv
<1> QED
  BY <1>1, Invariance, PTL

\* A device is frozen only for a grab that is active (CheckGrabForSyncs,
\* Deactivate*Grab, AllowSome, DeliverGrabbedEvent).
THEOREM FreezesCorrect == Spec => []FreezesAccounted
<1>1. IInv => FreezesAccounted
  BY DEF IInv, Held, Accounted, Linked, Thawed, FreezesAccounted
<1> QED
  BY <1>1, Invariance, PTL

\* The tail of the queue is at its end, wherever events are taken out of it
\* (EnqueueEvent, PlayReleasedEvents).
THEOREM TailCorrect == Spec => []TailAtEnd
<1>1. IInv => TailAtEnd
  BY DEF IInv, Queued
<1> QED
  BY <1>1, Invariance, PTL

\* No event of a device that is not frozen is left in the queue
\* (ComputeFreezes).
THEOREM NoneHeldBack == Spec => []NothingHeldBack
<1>1. IInv => NothingHeldBack
  BY DEF IInv, Quiet, Playable, NothingHeldBack, Idle
<1> QED
  BY <1>1, Invariance, PTL

\* No grab outlives its client, though passive grabs may become active while
\* the client is closed down (ReleaseActiveGrabs).
THEOREM GrabsEnd == Spec => []GoneHasNoGrab
<1>1. IInv => GoneHasNoGrab
  BY DEF IInv, Held, GrabsOf, PassiveHeld, GoneHasNoGrab
<1> QED
  BY <1>1, Invariance, PTL

----------------------------------------------------------------------------
(* That the event kept for a replay is the last of its device, whatever    *)
(* has been enqueued, played and repeated since; and, where XKB processes  *)
(* the press of a repeated key at once, that the events of a device are    *)
(* processed in the order in which they came and leave its button or key   *)
(* as the hardware has it.                                                 *)

\* What F keeps for a replay, D keeps.
Remembers(D, F) ==
    \A x \in Devices : F[x].state = "FROZEN_WITH_EVENT" =>
        D[x].state = "FROZEN_WITH_EVENT" /\ F[x].event = D[x].event

\* What F keeps for a replay, D keeps, or it is event e, a press or a release.
Records(D, F, e) ==
    \A x \in Devices : F[x].state = "FROZEN_WITH_EVENT" =>
        \/ x = e.dev /\ F[x].event = e /\ e.type # "Motion"
        \/ D[x].state = "FROZEN_WITH_EVENT" /\ F[x].event = D[x].event

----------------------------------------------------------------------------
LEMMA FreezeThawRemembers ==
    ASSUME NEW D \in [Devices -> DeviceRec]
    PROVE  Remembers(D, FreezeThaw(D))
<1>1. \A x \in Devices :
         /\ D[x] \in DeviceRec
         /\ FreezeThaw(D)[x] =
               [D[x] EXCEPT !.frozen = (D[x].other # None \/ D[x].state \in FrozenStates)]
  BY DEF FreezeThaw
<1>2. \A x \in Devices : /\ FreezeThaw(D)[x].state = D[x].state
                         /\ FreezeThaw(D)[x].event = D[x].event
  BY <1>1 DEF DeviceRec
<1> QED
  BY <1>2 DEF Remembers

\* A grab that begins leaves its device without an event.
LEMMA ActivateRemembers ==
    ASSUME NEW D \in [Devices -> DeviceRec], NEW d \in Devices, NEW grab \in Grab,
           NEW this \in Modes, NEW that \in Modes, NEW auto \in BOOLEAN
    PROVE  Remembers(D, Activate(D, d, grab, this, that, auto))
<1> DEFINE E == [D EXCEPT ![d].grab = grab, ![d].fromPassive = auto]
           c == E[d].grab.client
           r == IF this = "Sync" THEN [E[d] EXCEPT !.state = "FROZEN_NO_EVENT"]
                ELSE [E[d] EXCEPT !.state = "THAWED", !.other = Without(E, d, c)]
           o(x) == [E[x] EXCEPT !.other = IF that = "Sync" THEN d ELSE Without(E, x, c)]
           F == [x \in Devices |-> IF x = d THEN r ELSE o(x)]
<1>1. /\ \A x \in Devices : D[x] \in DeviceRec
      /\ \A x \in Devices \ {d} : E[x] = D[x]
      /\ E[d] = [D[d] EXCEPT !.grab = grab, !.fromPassive = auto]
  OBVIOUS
<1> HIDE DEF E
<1>2. \A x \in Devices : E[x] \in DeviceRec /\ E[x].other = D[x].other
  <2>1. E[d] \in DeviceRec /\ E[d].other = D[d].other
    BY <1>1 DEF DeviceRec
  <2> QED
    BY <1>1, <2>1
<1>3. \A x \in Devices : D[x].other \in Devices \cup {None}
  BY <1>1, DeviceRecFields
<1> HIDE DEF c
<1>4. \A x \in Devices : Without(E, x, c) \in Devices \cup {None}
  BY <1>2, <1>3 DEF Without
<1>5. ASSUME NEW x \in Devices \ {d}
      PROVE  /\ F[x] \in DeviceRec /\ F[x].state = D[x].state /\ F[x].event = D[x].event
  <2>1. PICK o2 \in Devices \cup {None} :
           o2 = IF that = "Sync" THEN d ELSE Without(E, x, c)
    BY <1>4
  <2>2. F[x] = [D[x] EXCEPT !.other = o2]
    BY <1>1, <2>1
  <2> QED
    BY <1>1, <2>2 DEF DeviceRec
<1>6. F[d] \in DeviceRec /\ F[d].state \in {"FROZEN_NO_EVENT", "THAWED"}
  <2>1. CASE this = "Sync"
    BY <1>2, <2>1 DEF DeviceRec, States, FrozenStates
  <2>2. CASE this # "Sync"
    <3>1. F[d] = WithState(E[d], "THAWED", Without(E, d, c))
      BY <2>2 DEF WithState
    <3>2. Without(E, d, c) \in Devices \cup {None} /\ "THAWED" \in States
      BY <1>4 DEF States
    <3> HIDE DEF F
    <3>3. F[d] \in DeviceRec /\ F[d].state = "THAWED"
      BY <1>2, <3>1, <3>2, StateSet
    <3> QED
      BY <3>3
  <2> QED
    BY <2>1, <2>2
<1>7. F \in [Devices -> DeviceRec]
  BY <1>5, <1>6
<1> HIDE DEF F
<1>8. Remembers(D, F)
  BY <1>5, <1>6 DEF Remembers
<1>9. Activate(D, d, grab, this, that, auto) = FreezeThaw(F)
  BY DEF Activate, CheckGrabForSyncs, F, E, c
<1> QED
  BY <1>7, <1>8, <1>9, FreezeThawRemembers DEF Remembers

\* A grab that ends forgets the event of its device.
LEMMA DeactivateRemembers ==
    ASSUME NEW D \in [Devices -> DeviceRec], NEW d \in Devices
    PROVE  Remembers(D, Deactivate(D, d))
<1> DEFINE E == [D EXCEPT ![d].grab = None, ![d].state = "NOT_GRABBED", ![d].fromPassive = FALSE]
           F == [e \in Devices |-> [E[e] EXCEPT !.other = IF @ = d THEN None ELSE @]]
<1>1. /\ \A x \in Devices : D[x] \in DeviceRec
      /\ \A x \in Devices \ {d} : E[x] = D[x]
      /\ E[d] = WithoutGrab(D[d])
  BY DEF WithoutGrab
<1>2. E[d] \in DeviceRec /\ E[d].state = "NOT_GRABBED"
  <2> HIDE DEF E
  <2> QED
    BY <1>1, GrabCleared
<1> HIDE DEF E
<1>3. \A x \in Devices :
         /\ F[x] \in DeviceRec /\ F[x].state = E[x].state /\ F[x].event = E[x].event
  <2>1. ASSUME NEW x \in Devices
        PROVE  F[x] \in DeviceRec /\ F[x].state = E[x].state /\ F[x].event = E[x].event
    <3>1. PICK o : o = IF E[x].other = d THEN None ELSE E[x].other
      OBVIOUS
    <3>2. E[x] \in DeviceRec /\ F[x] = WithOther(E[x], o)
      BY <1>1, <1>2, <3>1 DEF WithOther
    <3>3. o \in Devices \cup {None}
      BY <3>1, <3>2, DeviceRecFields
    <3>4. \A r \in DeviceRec : /\ WithOther(r, o) \in DeviceRec
                              /\ WithOther(r, o).state = r.state /\ WithOther(r, o).event = r.event
      BY <3>3, OtherSet
    <3> HIDE DEF F
    <3> QED
      BY <3>2, <3>4, Zenon
  <2> QED
    BY <2>1
<1>4. F \in [Devices -> DeviceRec]
  BY <1>3
<1> HIDE DEF F
<1>5. Remembers(D, F)
  BY <1>1, <1>2, <1>3 DEF Remembers
<1>6. Deactivate(D, d) = FreezeThaw(F)
  BY DEF Deactivate, F, E
<1> QED
  BY <1>4, <1>5, <1>6, FreezeThawRemembers DEF Remembers

----------------------------------------------------------------------------
\* A passive grab keeps the event that has activated it.
LEMMA ActivatePassiveRecords ==
    ASSUME NEW D, Linked(D), NEW g \in PassiveGrabs, NEW e \in Event, e.type = "Press"
    PROVE  Records(D, ActivatePassive(D, g, e), e)
<1> DEFINE grab == [client |-> g.client, window |-> g.window]
           A(auto) == Activate(D, e.dev, grab, g.thisMode, g.otherMode, auto)
           B(X) == [X EXCEPT ![e.dev].state = "FROZEN_WITH_EVENT", ![e.dev].event = e]
<1>0. /\ e.dev \in Devices /\ grab \in Grab /\ g.thisMode \in Modes /\ g.otherMode \in Modes
      /\ D \in [Devices -> DeviceRec]
  BY DevicesAssumption DEF Event, Grab, Linked, Typed
<1>1. \A auto \in BOOLEAN : Remembers(D, A(auto)) /\ A(auto) \in [Devices -> DeviceRec]
  <2> HIDE DEF grab
  <2> QED
    BY <1>0, ActivateRemembers, ActivateLemma DEF Accounted, Linked, Typed
<1>2. \E b \in BOOLEAN :
         ActivatePassive(D, g, e) = IF A(b)[e.dev].state # "FROZEN_NO_EVENT" THEN A(b) ELSE B(A(b))
  BY Zenon DEF ActivatePassive
<1> HIDE DEF A
<1>3. PICK X \in [Devices -> DeviceRec] :
         /\ Remembers(D, X)
         /\ ActivatePassive(D, g, e) = IF X[e.dev].state # "FROZEN_NO_EVENT" THEN X ELSE B(X)
  BY <1>1, <1>2
<1>4. \A x \in Devices \ {e.dev} : B(X)[x] = X[x]
  OBVIOUS
<1>5. B(X)[e.dev].event = e
  <2>1. B(X)[e.dev] = [X[e.dev] EXCEPT !.state = "FROZEN_WITH_EVENT", !.event = e]
    BY <1>0, <1>3
  <2>2. X[e.dev] \in DeviceRec
    BY <1>0
  <2> HIDE DEF B
  <2> QED
    BY <2>1, <2>2 DEF DeviceRec
<1> HIDE DEF B
<1> QED
  BY <1>3, <1>4, <1>5 DEF Remembers, Records

\* The delivery to the client of a grab keeps the event if it freezes the device.
LEMMA DeliverGrabbedRecords ==
    ASSUME NEW D \in [Devices -> DeviceRec], NEW e \in Event, NEW deactivate \in BOOLEAN
    PROVE  Records(D, DeliverGrabbed(D, e, deactivate), e)
<1> DEFINE d == e.dev
           both == D[d].state = "FREEZE_BOTH_NEXT_EVENT"
           this == [D[d] EXCEPT !.state = "FROZEN_WITH_EVENT", !.frozen = TRUE, !.event = e]
           that(x) ==
            IF D[x].state = "FREEZE_BOTH_NEXT_EVENT" /\ GrabbedBy(D, x, D[d].grab.client)
            THEN [D[x] EXCEPT !.state = "FROZEN_NO_EVENT", !.frozen = TRUE]
            ELSE [D[x] EXCEPT !.other = d, !.frozen = TRUE]
           F == [x \in Devices |-> IF x = d THEN this ELSE IF both THEN that(x) ELSE D[x]]
           quiet == deactivate \/ e.type = "Motion"
                      \/ D[d].state \notin {"FREEZE_NEXT_EVENT", "FREEZE_BOTH_NEXT_EVENT"}
<1>0. d \in Devices /\ \A x \in Devices : D[x] \in DeviceRec
  BY DEF Event
<1>1. CASE quiet
  <2>1. DeliverGrabbed(D, e, deactivate) = D
    BY <1>1 DEF DeliverGrabbed
  <2> QED
    BY <2>1 DEF Records
<1>2. CASE ~quiet
  <2>1. DeliverGrabbed(D, e, deactivate) = F
    BY <1>2 DEF DeliverGrabbed
  <2>2. F[d].event = e /\ e.type # "Motion"
    <3>1. F[d] = [D[d] EXCEPT !.state = "FROZEN_WITH_EVENT", !.frozen = TRUE, !.event = e]
          /\ e.type # "Motion"
      BY <1>0, <1>2
    <3> HIDE DEF F
    <3> QED
      BY <1>0, <3>1 DEF DeviceRec
  <2>3. ASSUME NEW x \in Devices \ {d}
        PROVE  \/ F[x].state = "FROZEN_NO_EVENT"
               \/ F[x].state = D[x].state /\ F[x].event = D[x].event
    <3>1. \/ F[x] = D[x]
          \/ F[x] = [D[x] EXCEPT !.state = "FROZEN_NO_EVENT", !.frozen = TRUE]
          \/ F[x] = [D[x] EXCEPT !.other = d, !.frozen = TRUE]
      OBVIOUS
    <3> HIDE DEF F
    <3> QED
      BY <1>0, <3>1 DEF DeviceRec
  <2> HIDE DEF F
  <2> QED
    BY <2>1, <2>2, <2>3 DEF Records
<1> QED
  BY <1>1, <1>2

\* The same for an event of a device nobody has grabbed, which is kept only if it
\* is a press.
LEMMA UngrabbedRecords ==
    ASSUME NEW D, Linked(D), PassiveHeld, NEW e \in Event, NEW first,
           connected \subseteq Clients
    PROVE  /\ Records(D, Ungrabbed(D, e, first).dev, e)
           /\ e.type # "Press" => Remembers(D, Ungrabbed(D, e, first).dev)
<1>1. CASE Matching(e, first) # {}
  <2>1. PICK g \in Matching(e, first) : g = CHOOSE h \in Matching(e, first) : TRUE
    BY <1>1
  <2>2. g \in PassiveGrabs /\ e.type = "Press"
    BY DEF Matching, PassiveHeld
  <2>3. Ungrabbed(D, e, first).dev = ActivatePassive(D, g, e)
    BY <1>1, <2>1, Zenon DEF Ungrabbed, Result
  <2> QED
    BY <2>2, <2>3, ActivatePassiveRecords
<1>2. CASE Matching(e, first) = {} /\ ImplicitGrab(e)
  <2> DEFINE grab == [client |-> Listener, window |-> Depth]
             A(auto) == Activate(D, pointer, grab, "Async", "Async", auto)
  <2>1. /\ pointer \in Devices /\ grab \in Grab /\ "Async" \in Modes
        /\ D \in [Devices -> DeviceRec]
    BY <1>2, DevicesAssumption DEF Devices, Modes, Grab, ImplicitGrab, Linked, Typed
  <2>2. Ungrabbed(D, e, first).dev = A(TRUE)
    BY <1>2, Zenon DEF Ungrabbed, Result
  <2>3. \A auto \in BOOLEAN : Remembers(D, A(auto))
    <3> HIDE DEF grab
    <3> QED
      BY <2>1, ActivateRemembers
  <2> HIDE DEF A
  <2>4. Remembers(D, Ungrabbed(D, e, first).dev)
    BY <2>2, <2>3, Zenon
  <2> QED
    BY <2>4 DEF Remembers, Records
<1>3. CASE Matching(e, first) = {} /\ ~ImplicitGrab(e)
  <2>1. Ungrabbed(D, e, first).dev = D
    BY <1>3, Zenon DEF Ungrabbed, Result
  <2> QED
    BY <2>1 DEF Remembers, Records
<1> QED
  BY <1>1, <1>2, <1>3

\* Whatever an event does to the devices, it is the only one newly kept.
LEMMA ProcessedRecords ==
    ASSUME NEW D, Held(D), PassiveHeld, NEW e \in Event, connected \subseteq Clients
    PROVE  Records(D, Processed(D, e).dev, e)
<1> DEFINE d == e.dev
           deactivate == /\ e.type = "Release" /\ D[d].fromPassive
                         /\ d = keyboard => activatingKey
           delivered == DeliverGrabbed(D, e, deactivate)
<1>0. d \in Devices /\ D \in [Devices -> DeviceRec] /\ Linked(D)
  BY DEF Event, Held, Accounted, Linked, Typed
<1>1. CASE D[d].grab = None
  <2>1. Processed(D, e) = Ungrabbed(D, e, 1)
    BY <1>1 DEF Processed
  <2> QED
    BY <1>0, <2>1, UngrabbedRecords
<1>2. CASE D[d].grab # None
  <2>1. Records(D, delivered, e) /\ delivered \in [Devices -> DeviceRec]
    <3>1. \A b \in BOOLEAN :
             /\ Records(D, DeliverGrabbed(D, e, b), e)
             /\ DeliverGrabbed(D, e, b) \in [Devices -> DeviceRec]
      BY <1>0, <1>2, DeliverGrabbedRecords, DeliverGrabbedLemma
         DEF Held, Accounted, Linked, Typed
    <3>2. deactivate \in BOOLEAN
      BY <1>0, Zenon
    <3> QED
      BY <3>1, <3>2, Zenon
  <2> HIDE DEF delivered
  <2>2. Processed(D, e).dev \in {delivered, Deactivate(delivered, d)}
    BY <1>2 DEF Processed, Result, delivered
  <2>3. Remembers(delivered, Deactivate(delivered, d))
    BY <1>0, <2>1, DeactivateRemembers
  <2> QED
    BY <2>1, <2>2, <2>3 DEF Remembers, Records
<1> QED
  BY <1>1, <1>2

----------------------------------------------------------------------------
\* The release of a repeated key is the last event of its device; the press
\* comes next, out of the queue or when the queue holds none of that device.
AgainInv == again # None =>
    /\ again.event.type = "Press" /\ again.event.seq = done[keyboard] /\ ~down[keyboard]
    /\ ~again.inPlay => \A i \in 1..Len(pending) : pending[i].dev # keyboard

\* An event to be replayed is the last of its device, and comes next; what it
\* presses is down.
ReplayInv == replay # None =>
    /\ playing /\ again = None
    /\ replay.event.seq = done[replay.event.dev]
    /\ replay.event.type = "Press" => down[replay.event.dev]

LatestInv == AgainInv /\ ReplayInv /\ ReplayIsLatest

\* The press of a repeated key that XKB processes behind the release.
PressBehind(e) ==
    /\ e.dev = keyboard /\ e.type = "Press" /\ e.seq = done[keyboard]
    /\ ~down[keyboard] /\ ~noXkbExtension

\* What Process does besides the devices.
LEMMA ProcessSets ==
    ASSUME IInv, NEW e \in Event, NEW inPlay \in BOOLEAN, Process(e, inPlay)
    PROVE  /\ again' = IF IsRepeat(e) THEN [event |-> e, inPlay |-> inPlay]
                       ELSE IF e.dev = keyboard THEN None ELSE again
           /\ done' = [done EXCEPT ![e.dev] = e.seq]
           /\ e.dev \in Devices /\ e.seq \in Nat
           /\ \A d \in Devices : done'[d] = IF d = e.dev THEN e.seq ELSE done[d]
<1>1. /\ again' = IF IsRepeat(e) THEN [event |-> e, inPlay |-> inPlay]
                  ELSE IF e.dev = keyboard THEN None ELSE again
      /\ done' = [done EXCEPT ![e.dev] = e.seq]
  BY DEF Process
<1>2. e.dev \in Devices /\ e.seq \in Nat
  BY DevicesAssumption DEF Event
<1> QED
  BY <1>1, <1>2 DEF IInv, TypeOK

\* The button or key after an event; a repeated key is up until its press.
LEMMA ProcessKeys ==
    ASSUME IInv, NEW e \in Event, NEW inPlay \in BOOLEAN, Process(e, inPlay)
    PROVE  /\ e.type = "Motion" => down' = down
           /\ e.type # "Motion" => \A d \in Devices :
                 down'[d] <=> IF d = e.dev THEN e.type = "Press" /\ ~IsRepeat(e) ELSE down[d]
           /\ IsRepeat(e) => e.type = "Press" /\ e.dev = keyboard
<1> DEFINE part == IF IsRepeat(e) THEN [e EXCEPT !.type = "Release"] ELSE e
<1>1. down' = IF part.type = "Motion" THEN down
              ELSE [down EXCEPT ![e.dev] = (part.type = "Press")]
  BY DEF Process
<1>2. IsRepeat(e) => e.type = "Press" /\ e.dev = keyboard
  BY DEF IsRepeat
<1>3. part.type = IF IsRepeat(e) THEN "Release" ELSE e.type
  BY DEF Event
<1> HIDE DEF part
<1>4. CASE e.type = "Motion"
  BY <1>1, <1>2, <1>3, <1>4
<1>5. CASE e.type # "Motion"
  <2>1. PICK p \in BOOLEAN : p = (part.type = "Press")
    OBVIOUS
  <2>2. down' = [down EXCEPT ![e.dev] = p] /\ e.dev \in Devices
    BY <1>1, <1>3, <1>5, <2>1 DEF Event
  <2>3. p <=> e.type = "Press" /\ ~IsRepeat(e)
    BY <1>3, <2>1
  <2> QED
    BY <1>2, <1>5, <2>2, <2>3 DEF IInv, TypeOK
<1> QED
  BY <1>4, <1>5

\* An event of a device that is not frozen, or the press that goes with the last
\* release, leaves the events that are kept the last of their devices.
LEMMA ProcessLatest ==
    ASSUME IInv, ReplayIsLatest, NEW e \in Event, NEW inPlay \in BOOLEAN, Process(e, inPlay),
           ~dev[e.dev].frozen \/ PressBehind(e)
    PROVE  ReplayIsLatest'
<1> DEFINE part == IF IsRepeat(e) THEN [e EXCEPT !.type = "Release"] ELSE e
<1>1. dev' = Processed(dev, part).dev
  BY DEF Process
<1>2. /\ part \in Event /\ part.dev = e.dev /\ part.seq = e.seq
      /\ part.type = IF IsRepeat(e) THEN "Release" ELSE e.type
  BY DEF Event
<1> HIDE DEF part
<1>3. Records(dev, dev', part)
  BY <1>1, <1>2, ProcessedRecords DEF IInv, TypeOK
<1>4. \A d \in Devices : dev[d].state = "FROZEN_WITH_EVENT" => dev[d].frozen
  BY DEF IInv, Held, Accounted, Thawed, FrozenStates
<1>5. /\ e.dev \in Devices
      /\ \A d \in Devices : done'[d] = IF d = e.dev THEN e.seq ELSE done[d]
  BY ProcessSets
<1>6. ASSUME NEW d \in Devices, dev'[d].state = "FROZEN_WITH_EVENT"
      PROVE  /\ dev'[d].event.dev = d /\ dev'[d].event.seq = done'[d]
             /\ LastHalf(d)' \/ OvertakenByPress(d)'
  <2>1. CASE d = e.dev /\ dev'[d].event = part /\ part.type # "Motion"
    <3>1. /\ e.type # "Motion" /\ part.type \in {"Press", "Release"}
          /\ part.type = "Press" <=> e.type = "Press" /\ ~IsRepeat(e)
      BY <1>2, <2>1, ProcessKeys DEF Event
    <3>2. part.type = IF down'[d] THEN "Press" ELSE "Release"
      BY <2>1, <3>1, ProcessKeys
    <3>3. LastHalf(d)'
      BY <2>1, <3>2 DEF LastHalf
    <3> QED
      BY <1>2, <1>5, <2>1, <3>3
  <2>2. CASE dev[d].state = "FROZEN_WITH_EVENT" /\ dev'[d].event = dev[d].event
    <3>1. /\ dev[d].event.dev = d /\ dev[d].event.seq = done[d] /\ dev[d].frozen
          /\ LastHalf(d) \/ OvertakenByPress(d)
      BY <1>4, <2>2 DEF ReplayIsLatest, Keeps
    <3>2. CASE d # e.dev
      <4>1. down'[d] <=> down[d]
        BY <1>5, <3>2, ProcessKeys
      <4>2. LastHalf(d)' \/ OvertakenByPress(d)'
        BY <2>2, <3>1, <4>1 DEF LastHalf, OvertakenByPress
      <4> QED
        BY <1>5, <2>2, <3>1, <3>2, <4>2
    <3>3. CASE d = e.dev
      <4>1. PressBehind(e) /\ d = keyboard /\ ~IsRepeat(e)
        BY <3>1, <3>3 DEF PressBehind, IsRepeat
      <4>2. dev[d].event.type = "Release"
        BY <3>1, <4>1 DEF PressBehind, LastHalf, OvertakenByPress
      <4>3. down'[d]
        BY <1>5, <3>3, <4>1, ProcessKeys DEF PressBehind
      <4>4. OvertakenByPress(d)'
        BY <2>2, <4>1, <4>2, <4>3 DEF PressBehind, OvertakenByPress
      <4> QED
        BY <1>5, <2>2, <3>1, <3>3, <4>1, <4>4 DEF PressBehind
    <3> QED
      BY <3>2, <3>3
  <2> QED
    BY <1>2, <1>3, <1>6, <2>1, <2>2 DEF Records
<1> QED
  BY <1>6 DEF ReplayIsLatest, Keeps

\* What is not played, and what is left to be let go, is remembered.
LEMMA RequestsRemember ==
    ASSUME IInv, NEW d \in Devices, NEW c \in Clients
    PROVE  /\ (\E w \in GrabWindows, m, n \in Modes : GrabDevice(c, d, w, m, n))
                 => Remembers(dev, dev')
           /\ UngrabDevice(c, d) => Remembers(dev, dev')
           /\ (\E s \in LetGoStates : AllowThis(c, d, s)) => Remembers(dev, dev')
           /\ (\E s \in LetGoStates : AllowBoth(c, s)) => Remembers(dev, dev')
           /\ ReleaseActiveGrab(d) => Remembers(dev, dev')
           /\ Replay(c, d) => Remembers(dev, dev')
<1>0. dev \in [Devices -> DeviceRec] /\ connected \subseteq Clients
  BY DEF IInv, TypeOK
<1>1. ASSUME NEW w \in GrabWindows, NEW m \in Modes, NEW n \in Modes, GrabDevice(c, d, w, m, n)
      PROVE  Remembers(dev, dev')
  <2> DEFINE grab == [client |-> c, window |-> w]
             A(auto) == Activate(dev, d, grab, m, n, auto)
  <2>1. grab \in Grab
    BY DevicesAssumption DEF Grab
  <2>2. \A auto \in BOOLEAN : Remembers(dev, A(auto))
    <3> HIDE DEF grab
    <3> QED
      BY <1>0, <2>1, ActivateRemembers
  <2>3. \E b \in BOOLEAN : dev' = A(b)
    BY <1>1, Zenon DEF GrabDevice, ComputeFreezes
  <2> HIDE DEF A
  <2> QED
    BY <2>2, <2>3
<1>2. ASSUME UngrabDevice(c, d) \/ ReleaseActiveGrab(d)
      PROVE  Remembers(dev, dev')
  BY <1>0, <1>2, DeactivateRemembers DEF UngrabDevice, ReleaseActiveGrab, ComputeFreezes
<1>3. ASSUME NEW s \in LetGoStates, AllowThis(c, d, s)
      PROVE  Remembers(dev, dev')
  <2> DEFINE s2 == IF GrabbedBy(dev, d, c) THEN s ELSE dev[d].state
             o2 == IF ThisSynced(c, d) THEN None ELSE dev[d].other
             F == [dev EXCEPT ![d].state = IF GrabbedBy(dev, d, c) THEN s ELSE @,
                              ![d].other = IF ThisSynced(c, d) THEN None ELSE @]
  <2>1. \A x \in Devices \ {d} : F[x] = dev[x]
    BY <1>0
  <2>2. F[d] = [dev[d] EXCEPT !.state = s2, !.other = o2]
    BY <1>0
  <2>3. /\ s2 \in States /\ o2 \in Devices \cup {None} /\ dev[d] \in DeviceRec
        /\ s2 \in {s, dev[d].state} /\ s # "FROZEN_WITH_EVENT"
    BY <1>0, DeviceRecFields DEF LetGoStates, States
  <2> HIDE DEF s2, o2
  <2>4. /\ F[d] \in DeviceRec /\ F[d].event = dev[d].event /\ F[d].state = s2
    <3> HIDE DEF F
    <3> QED
      BY <2>2, <2>3 DEF DeviceRec
  <2>5. F \in [Devices -> DeviceRec]
    <3>1. F = [x \in Devices |-> F[x]]
      BY <1>0
    <3> HIDE DEF F
    <3> QED
      BY <1>0, <2>1, <2>4, <3>1
  <2>6. dev' = FreezeThaw(F)
    BY <1>3 DEF AllowThis, ComputeFreezes
  <2> HIDE DEF F
  <2>7. Remembers(dev, F)
    BY <2>1, <2>3, <2>4 DEF Remembers
  <2> QED
    BY <2>5, <2>6, <2>7, FreezeThawRemembers DEF Remembers
<1>4. ASSUME NEW s \in LetGoStates, AllowBoth(c, s)
      PROVE  Remembers(dev, dev')
  <2> DEFINE F == [x \in Devices |-> LetGo(x, c, s)]
  <2>1. ASSUME NEW x \in Devices
        PROVE  /\ F[x] \in DeviceRec /\ F[x].event = dev[x].event
               /\ F[x].state \in {s, dev[x].state} /\ s # "FROZEN_WITH_EVENT"
    <3> DEFINE s2 == IF GrabbedBy(dev, x, c) THEN s ELSE dev[x].state
               o2 == Without(dev, x, c)
    <3>1. F[x] = [dev[x] EXCEPT !.state = s2, !.other = o2]
      BY DEF LetGo
    <3>2. /\ s2 \in States /\ o2 \in Devices \cup {None} /\ dev[x] \in DeviceRec
          /\ s2 \in {s, dev[x].state} /\ s # "FROZEN_WITH_EVENT"
      BY <1>0, DeviceRecFields DEF LetGoStates, States, Without
    <3> HIDE DEF s2, o2, F
    <3> QED
      BY <3>1, <3>2 DEF DeviceRec
  <2>2. F \in [Devices -> DeviceRec]
    BY <2>1
  <2>3. dev' = FreezeThaw(F)
    BY <1>4 DEF AllowBoth, ComputeFreezes
  <2> HIDE DEF F
  <2>4. Remembers(dev, F)
    BY <2>1 DEF Remembers
  <2> QED
    BY <2>2, <2>3, <2>4, FreezeThawRemembers DEF Remembers
<1>5. ASSUME Replay(c, d)
      PROVE  Remembers(dev, dev')
  <2> DEFINE o2 == IF ThisSynced(c, d) THEN None ELSE dev[d].other
             F == [dev EXCEPT ![d].other = IF ThisSynced(c, d) THEN None ELSE @]
  <2>1. dev' = Deactivate(F, d)
    BY <1>5 DEF Replay
  <2>2. /\ \A x \in Devices \ {d} : F[x] = dev[x]
        /\ F[d] = [dev[d] EXCEPT !.other = o2] /\ F = [x \in Devices |-> F[x]]
    BY <1>0
  <2>3. o2 \in Devices \cup {None}
    BY <1>0, DeviceRecFields
  <2> HIDE DEF F, o2
  <2>4. F[d] \in DeviceRec /\ F[d].state = dev[d].state /\ F[d].event = dev[d].event
    BY <1>0, <2>2, <2>3 DEF DeviceRec
  <2>5. F \in [Devices -> DeviceRec] /\ Remembers(dev, F)
    BY <1>0, <2>2, <2>4 DEF Remembers
  <2> QED
    BY <2>1, <2>5, DeactivateRemembers DEF Remembers
<1> QED
  BY <1>1, <1>2, <1>3, <1>4, <1>5

----------------------------------------------------------------------------
\* RemoveAt moves the elements after i up.
LEMMA RemoveAtIs ==
    ASSUME NEW T, NEW s \in Seq(T), NEW i \in 1..Len(s)
    PROVE  /\ Len(RemoveAt(s, i)) = Len(s) - 1
           /\ \A j \in 1..Len(s) - 1 : RemoveAt(s, i)[j] = IF j < i THEN s[j] ELSE s[j + 1]
<1> DEFINE a == SubSeq(s, 1, i - 1)
           b == SubSeq(s, i + 1, Len(s))
<1>0. i \in Nat /\ Len(s) \in Nat /\ 1 <= i /\ i <= Len(s)
  BY LenProperties
<1>1. /\ a \in Seq(T) /\ Len(a) = i - 1
      /\ \A j \in 1..i - 1 : a[j] = s[j]
  <2>1. \A j \in 1..i - 1 : j \in 1..Len(s) /\ 1 + j - 1 = j
    BY <1>0
  <2> QED
    BY <1>0, <2>1, SubSeqProperties
<1>2. /\ b \in Seq(T) /\ Len(b) = Len(s) - i
      /\ \A j \in 1..Len(s) - i : b[j] = s[i + j]
  <2>1. \A j \in 1..Len(s) - i : i + j \in 1..Len(s) /\ (i + 1) + j - 1 = i + j
    BY <1>0
  <2> QED
    BY <1>0, <2>1, SubSeqProperties
<1>3. RemoveAt(s, i) = a \o b
  BY DEF RemoveAt
<1> HIDE DEF a, b
<1>4. /\ Len(a \o b) = Len(a) + Len(b)
      /\ \A j \in 1..Len(a) + Len(b) :
            (a \o b)[j] = IF j <= Len(a) THEN a[j] ELSE b[j - Len(a)]
  BY <1>1, <1>2, ConcatProperties
<1>5. ASSUME NEW j \in 1..Len(s) - 1
      PROVE  (a \o b)[j] = IF j < i THEN s[j] ELSE s[j + 1]
  <2>1. CASE j < i
    BY <1>0, <1>1, <1>2, <1>4, <2>1
  <2>2. CASE ~(j < i)
    <3>1. PICK k \in 1..Len(s) - i : k = j - (i - 1)
      BY <1>0, <2>2
    <3>2. (a \o b)[j] = b[k]
      BY <1>0, <1>1, <1>2, <1>4, <2>2, <3>1
    <3>3. b[k] = s[i + k] /\ i + k = j + 1
      BY <1>0, <1>2, <3>1
    <3> QED
      BY <2>2, <3>2, <3>3
  <2> QED
    BY <2>1, <2>2
<1>6. Len(a \o b) = Len(s) - 1
  BY <1>0, <1>1, <1>2, <1>4
<1> QED
  BY <1>3, <1>5, <1>6, Zenon

\* An event is put at the end of the queue, or moves the motion there.
Appended(e) ==
    /\ Len(pending') = Len(pending) + 1 /\ pending'[Len(pending) + 1] = e
    /\ \A i \in 1..Len(pending) : pending'[i] = pending[i]

Compressed(e) ==
    /\ e.type = "Motion" /\ Len(pending) > 0 /\ Len(pending') = Len(pending)
    /\ \A i \in 1..Len(pending) : pending'[i] =
          IF i = Len(pending) THEN [pending[i] EXCEPT !.seq = e.seq] ELSE pending[i]
    /\ pending[Len(pending)].type = "Motion"

LEMMA EnqueueIs ==
    ASSUME Queued, NEW e \in Event, EnqueueEvent(e)
    PROVE  Appended(e) \/ Compressed(e)
<1> DEFINE tail == pendtail <= Len(pending)
<1>0. Len(pending) \in Nat /\ pendtail \in {Len(pending), Len(pending) + 1} /\ pendtail # 0
  BY LenProperties DEF Queued, TailAtEnd
<1>1. CASE e.type = "Motion" /\ tail /\ pending[pendtail].type = "Motion"
  <2>1. pendtail = Len(pending) /\ pendtail \in 1..Len(pending)
    BY <1>0, <1>1
  <2>2. PICK x : x = [pending[pendtail] EXCEPT !.seq = e.seq]
    OBVIOUS
  <2>3. pending' = [pending EXCEPT ![pendtail] = x]
    BY <1>1, <2>2 DEF EnqueueEvent
  <2>4. pending[pendtail] \in Event
    BY <2>1, ElementOfSeq DEF Queued
  <2>5. x \in Event
    BY <2>2, <2>4 DEF Event
  <2>6. /\ Len(pending') = Len(pending)
        /\ \A i \in 1..Len(pending) : pending'[i] = IF i = pendtail THEN x ELSE pending[i]
    BY <2>1, <2>3, <2>5, ExceptSeq DEF Queued
  <2>7. \A i \in 1..Len(pending) : pending'[i] =
           IF i = Len(pending) THEN [pending[i] EXCEPT !.seq = e.seq] ELSE pending[i]
    BY <2>1, <2>2, <2>6
  <2>8. Len(pending) > 0
    BY <1>0, <2>1
  <2> QED
    BY <1>1, <2>1, <2>6, <2>7, <2>8 DEF Compressed
<1>2. CASE ~(e.type = "Motion" /\ tail /\ pending[pendtail].type = "Motion")
  <2>1. /\ pendtail' = IF tail THEN pendtail + 1 ELSE pendtail
        /\ pending' = Append(SubSeq(pending, 1, pendtail' - 1), e)
    BY <1>2 DEF EnqueueEvent
  <2>2. pendtail' - 1 = Len(pending)
    BY <1>0, <2>1
  <2>3. SubSeq(pending, 1, Len(pending)) = pending
    BY <1>0, SubSeqFull DEF Queued
  <2>4. pending' = Append(pending, e)
    BY <2>1, <2>2, <2>3
  <2> QED
    BY <2>4, AppendProperties DEF Queued, Appended
<1> QED
  BY <1>1, <1>2

----------------------------------------------------------------------------
\* The steps that take or put events, and that nothing else changes.
orderVars == <<pending, again, down, physical, seq, done>>

LEMMA Steps ==
    ASSUME [Next]_vars
    PROVE  \/ \E d \in Devices, type \in {"Press", "Release", "Motion"} : DeviceEvent(d, type)
           \/ SecondHalf \/ PlayReleasedEvent
           \/ UNCHANGED orderVars
<1>1. ASSUME NEW c \in Clients, Requests(c)
      PROVE  UNCHANGED orderVars
  <2>1. \A D : ComputeFreezes(D) => UNCHANGED orderVars
    BY DEF ComputeFreezes, orderVars
  <2>2. \A d, w, m, n : GrabDevice(c, d, w, m, n) => UNCHANGED orderVars
    BY <2>1, Zenon DEF GrabDevice
  <2>3. \A d : UngrabDevice(c, d) => UNCHANGED orderVars
    BY <2>1, Zenon DEF UngrabDevice
  <2>4. \A d : Replay(c, d) => UNCHANGED orderVars
    BY DEF Replay, orderVars
  <2>5. \A d, s : AllowThis(c, d, s) => UNCHANGED orderVars
    BY <2>1, Zenon DEF AllowThis
  <2>6. \A s : AllowBoth(c, s) => UNCHANGED orderVars
    BY <2>1, Zenon DEF AllowBoth
  <2>7. CloseDownClient(c) => UNCHANGED orderVars
    BY DEF CloseDownClient, orderVars
  <2> QED
    BY <1>1, <2>2, <2>3, <2>4, <2>5, <2>6, <2>7, Zenon DEF Requests
<1>2. GoesOn => SecondHalf \/ PlayReleasedEvent \/ UNCHANGED orderVars
  BY DEF GoesOn, PlayReplay, ReleaseActiveGrab, CloseDone, ComputeFreezes, orderVars
<1>3. UNCHANGED vars => UNCHANGED orderVars
  BY DEF vars, orderVars
<1> QED
  BY <1>1, <1>2, <1>3 DEF Next

\* An event from the hardware: nothing is being played, and no event of its
\* device waits if it is processed.
LEMMA DeviceEventIs ==
    ASSUME IInv, NEW d \in Devices, NEW type \in {"Press", "Release", "Motion"},
           DeviceEvent(d, type)
    PROVE  \E e \in Event :
              /\ e.dev = d /\ e.type = type /\ e.seq = seq + 1 /\ seq' = seq + 1 /\ seq \in Nat
              /\ ~playing /\ again = None /\ Arrives(d, type)
              /\ UNCHANGED <<passive, replay, closing, connected>>
              /\ \/ /\ dev[d].frozen /\ EnqueueEvent(e)
                    /\ UNCHANGED <<dev, down, again, done, playing>>
                 \/ /\ ~dev[d].frozen /\ \E b \in BOOLEAN : ~b /\ Process(e, b)
                    /\ UNCHANGED <<pending, pendtail>>
                    /\ \A i \in 1..Len(pending) : pending[i].dev # d
<1> DEFINE e == [dev |-> d, type |-> type, seq |-> seq + 1]
<1>1. /\ ~playing /\ again = None /\ Arrives(d, type)
      /\ UNCHANGED <<passive, replay, closing, connected>>
  BY DEF DeviceEvent, Idle
<1>2. seq' = seq + 1 /\ seq < MaxEvents /\ seq \in Nat /\ MaxEvents \in Nat
  BY <1>1, DevicesAssumption DEF Arrives, IInv, TypeOK
<1>3. e \in Event /\ e.dev = d /\ e.type = type /\ e.seq = seq + 1
  BY <1>2 DEF Event
<1>4. CASE dev[d].frozen
  <2>1. EnqueueEvent(e) /\ UNCHANGED <<dev, down, again, done, playing>>
    BY <1>4 DEF DeviceEvent
  <2> HIDE DEF e
  <2> QED
    BY <1>1, <1>2, <1>3, <1>4, <2>1
<1>5. CASE ~dev[d].frozen
  <2>1. Process(e, FALSE) /\ UNCHANGED <<pending, pendtail>>
    BY <1>5, Zenon DEF DeviceEvent
  <2>2. \E b \in BOOLEAN : ~b /\ Process(e, b)
    BY <2>1, Zenon
  <2>3. \A i \in 1..Len(pending) : pending[i].dev # d
    BY <1>1, <1>5 DEF IInv, Quiet, Playable
  <2> HIDE DEF e
  <2> QED
    BY <1>1, <1>2, <1>3, <1>5, <2>1, <2>2, <2>3
<1> QED
  BY <1>4, <1>5

\* The event that is played is the first of its device.
LEMMA PlayedIs ==
    ASSUME IInv, PlayReleasedEvent
    PROVE  \E i \in 1..Len(pending) :
              /\ pending[i] \in Event /\ ~dev[pending[i].dev].frozen
              /\ \A j \in 1..Len(pending) : j < i => pending[j].dev # pending[i].dev
              /\ Dequeue(i) /\ \E b \in BOOLEAN : b /\ Process(pending[i], b)
              /\ replay = None /\ (again # None => ~again.inPlay)
              /\ UNCHANGED <<passive, replay, closing, connected, physical, seq>>
<1>1. PICK i \in Playable(dev, pending) :
         /\ \A j \in Playable(dev, pending) : i <= j
         /\ Dequeue(i) /\ Process(pending[i], TRUE)
         /\ replay = None /\ (again # None => ~again.inPlay)
         /\ UNCHANGED <<passive, replay, closing, connected, physical, seq>>
  BY DEF PlayReleasedEvent
<1>2. i \in 1..Len(pending) /\ ~dev[pending[i].dev].frozen
  BY DEF Playable
<1>3. pending[i] \in Event
  BY <1>2, ElementOfSeq DEF IInv, Queued
<1>4. Len(pending) \in Nat
  BY LenProperties DEF IInv, Queued
<1>5. \A j \in 1..Len(pending) : j < i => pending[j].dev # pending[i].dev
  BY <1>1, <1>2, <1>4 DEF Playable
<1>6. \E b \in BOOLEAN : b /\ Process(pending[i], b)
  BY <1>1, Zenon
<1> QED
  BY <1>1, <1>2, <1>3, <1>5, <1>6

\* The press of a repeated key goes to the end of the queue, or is processed.
LEMMA SecondHalfIs ==
    ASSUME IInv, SecondHalf
    PROVE  \E e \in Event, b \in BOOLEAN :
              /\ again # None /\ e = again.event /\ e.dev = keyboard /\ b = again.inPlay
              /\ b \/ ~playing
              /\ UNCHANGED <<passive, replay, closing, connected, physical, seq>>
              /\ \/ /\ noXkbExtension /\ dev[keyboard].frozen /\ EnqueueEvent(e) /\ again' = None
                    /\ UNCHANGED <<dev, down, done>>
                 \/ /\ Process(e, b) /\ UNCHANGED <<pending, pendtail>>
                    /\ ~noXkbExtension \/ ~dev[keyboard].frozen
<1>1. again # None /\ (again.inPlay \/ ~playing)
      /\ UNCHANGED <<passive, replay, closing, connected, physical, seq>>
  BY DEF SecondHalf
<1>2. again.event \in Event /\ again.inPlay \in BOOLEAN /\ again.event.dev = keyboard
  BY <1>1 DEF IInv, TypeOK, RepeatsKey
<1>3. \/ /\ noXkbExtension /\ dev[keyboard].frozen /\ EnqueueEvent(again.event) /\ again' = None
         /\ UNCHANGED <<dev, down, done>>
      \/ /\ Process(again.event, again.inPlay) /\ UNCHANGED <<pending, pendtail>>
         /\ ~noXkbExtension \/ ~dev[keyboard].frozen
  BY Zenon DEF SecondHalf
<1> QED
  BY <1>1, <1>2, <1>3

\* A step that neither takes nor puts an event keeps no other event either.
LEMMA LatestKept ==
    ASSUME LatestInv, UNCHANGED orderVars, Remembers(dev, dev'),
           replay' = None \/ UNCHANGED <<replay, playing>>
    PROVE  LatestInv'
<1>1. AgainInv'
  BY DEF LatestInv, AgainInv, orderVars
<1>2. ReplayInv'
  BY DEF LatestInv, ReplayInv, orderVars
<1>3. ReplayIsLatest'
  BY DEF LatestInv, ReplayIsLatest, Keeps, LastHalf, OvertakenByPress, Remembers, orderVars
<1> QED
  BY <1>1, <1>2, <1>3 DEF LatestInv

LEMMA DeviceEventLatest ==
    ASSUME LatestInv, IInv, NEW d \in Devices, NEW type \in {"Press", "Release", "Motion"},
           DeviceEvent(d, type)
    PROVE  LatestInv'
<1>1. PICK e \in Event :
         /\ e.dev = d /\ ~playing /\ again = None /\ UNCHANGED replay
         /\ \/ /\ EnqueueEvent(e)
               /\ UNCHANGED <<dev, down, again, done, playing>>
            \/ /\ ~dev[d].frozen /\ \E b \in BOOLEAN : ~b /\ Process(e, b)
               /\ UNCHANGED <<pending, pendtail>>
               /\ \A i \in 1..Len(pending) : pending[i].dev # d
  BY DeviceEventIs
<1>2. replay = None
  BY <1>1 DEF LatestInv, ReplayInv
<1>3. ReplayInv'
  BY <1>1, <1>2 DEF ReplayInv
<1>4. CASE UNCHANGED <<dev, down, again, done, playing>>
  BY <1>1, <1>3, <1>4 DEF LatestInv, AgainInv, ReplayIsLatest, Keeps, LastHalf, OvertakenByPress
<1>5. CASE /\ ~dev[d].frozen /\ \E b \in BOOLEAN : ~b /\ Process(e, b)
           /\ UNCHANGED <<pending, pendtail>>
           /\ \A i \in 1..Len(pending) : pending[i].dev # d
  <2>1. PICK b \in BOOLEAN : ~b /\ Process(e, b)
    BY <1>5
  <2>2. ReplayIsLatest'
    BY <1>1, <1>5, <2>1, ProcessLatest DEF LatestInv
  <2>3. AgainInv'
    <3>1. /\ again' = IF IsRepeat(e) THEN [event |-> e, inPlay |-> b]
                      ELSE IF e.dev = keyboard THEN None ELSE again
          /\ done'[d] = e.seq
      BY <1>1, <2>1, ProcessSets
    <3>2. IsRepeat(e) => e.type = "Press" /\ d = keyboard /\ ~down'[keyboard]
      BY <1>1, <2>1, ProcessKeys DEF IsRepeat
    <3> QED
      BY <1>1, <1>5, <3>1, <3>2 DEF AgainInv
  <2> QED
    BY <1>3, <2>2, <2>3 DEF LatestInv
<1> QED
  BY <1>1, <1>4, <1>5

LEMMA SecondHalfLatest ==
    ASSUME LatestInv, IInv, SecondHalf
    PROVE  LatestInv'
<1>1. PICK e \in Event, b \in BOOLEAN :
         /\ again # None /\ e = again.event /\ e.dev = keyboard /\ b = again.inPlay
         /\ UNCHANGED replay
         /\ \/ again' = None /\ UNCHANGED <<dev, down, done>>
            \/ /\ Process(e, b) /\ UNCHANGED <<pending, pendtail>>
               /\ ~noXkbExtension \/ ~dev[keyboard].frozen
  BY SecondHalfIs
<1>2. replay = None
  BY <1>1 DEF LatestInv, ReplayInv
<1>3. ReplayInv'
  BY <1>1, <1>2 DEF ReplayInv
<1>4. CASE again' = None /\ UNCHANGED <<dev, down, done>>
  BY <1>3, <1>4 DEF LatestInv, AgainInv, ReplayIsLatest, Keeps, LastHalf, OvertakenByPress
<1>5. CASE /\ Process(e, b) /\ UNCHANGED <<pending, pendtail>>
           /\ ~noXkbExtension \/ ~dev[keyboard].frozen
  <2>1. e.type = "Press" /\ e.seq = done[keyboard] /\ ~down[keyboard]
    BY <1>1 DEF LatestInv, AgainInv
  <2>2. ReplayIsLatest'
    <3>1. ~dev[e.dev].frozen \/ PressBehind(e)
      BY <1>1, <1>5, <2>1 DEF PressBehind
    <3> QED
      BY <1>5, <3>1, ProcessLatest DEF LatestInv
  <2>3. again' = None
    BY <1>1, <1>5, <2>1, ProcessSets DEF IsRepeat
  <2>4. AgainInv'
    BY <2>3 DEF AgainInv
  <2> QED
    BY <1>3, <2>2, <2>4 DEF LatestInv
<1> QED
  BY <1>1, <1>4, <1>5

LEMMA PlayedLatest ==
    ASSUME LatestInv, IInv, PlayReleasedEvent
    PROVE  LatestInv'
<1>1. PICK i \in 1..Len(pending) :
         /\ pending[i] \in Event /\ ~dev[pending[i].dev].frozen
         /\ Dequeue(i) /\ \E b \in BOOLEAN : b /\ Process(pending[i], b)
         /\ replay = None /\ UNCHANGED replay /\ (again # None => ~again.inPlay)
  BY PlayedIs
<1>2. PICK e \in Event, b \in BOOLEAN : e = pending[i] /\ b /\ Process(e, b)
  BY <1>1
<1>3. ReplayInv'
  BY <1>1 DEF ReplayInv
<1>4. ReplayIsLatest'
  BY <1>1, <1>2, ProcessLatest DEF LatestInv
<1>5. AgainInv'
  <2>1. /\ again' = IF IsRepeat(e) THEN [event |-> e, inPlay |-> b]
                    ELSE IF e.dev = keyboard THEN None ELSE again
        /\ \A d \in Devices : done'[d] = IF d = e.dev THEN e.seq ELSE done[d]
    BY <1>2, ProcessSets
  <2>2. CASE IsRepeat(e)
    <3>1. e.type = "Press" /\ e.dev = keyboard /\ keyboard \in Devices /\ ~down'[keyboard]
      BY <1>2, <2>2, ProcessKeys DEF IsRepeat, Devices
    <3> QED
      BY <1>2, <2>1, <2>2, <3>1 DEF AgainInv
  <2>3. CASE ~IsRepeat(e) /\ e.dev = keyboard
    BY <2>1, <2>3 DEF AgainInv
  <2>4. CASE ~IsRepeat(e) /\ e.dev # keyboard
    <3>1. again' = again /\ done'[keyboard] = done[keyboard] /\ (down'[keyboard] <=> down[keyboard])
      BY <1>2, <2>1, <2>4, ProcessKeys DEF Devices
    <3>2. /\ Len(pending') = Len(pending) - 1
          /\ \A j \in 1..Len(pending) - 1 : \E k \in 1..Len(pending) : pending'[j] = pending[k]
      BY <1>1, RemoveAtLemma DEF Dequeue, IInv, Queued
    <3> QED
      BY <1>1, <3>1, <3>2 DEF LatestInv, AgainInv
  <2> QED
    BY <2>2, <2>3, <2>4
<1> QED
  BY <1>3, <1>4, <1>5 DEF LatestInv

\* A request: nothing is being played, so nothing is to be replayed; what
\* ReplayPointer and ReplayKeyboard hand over is the last event.
LEMMA RequestsLatest ==
    ASSUME LatestInv, IInv, NEW c \in Clients, Requests(c)
    PROVE  LatestInv'
<1>1. ASSUME NEW D, ComputeFreezes(D), Idle \/ Closing, UNCHANGED replay, Remembers(dev, dev')
      PROVE  LatestInv'
  <2>1. UNCHANGED orderVars
    BY <1>1 DEF ComputeFreezes, orderVars
  <2>2. replay' = None
    BY <1>1 DEF Idle, Closing, LatestInv, ReplayInv
  <2> QED
    BY <1>1, <2>1, <2>2, LatestKept
<1>2. ASSUME NEW d \in Devices, NEW w \in GrabWindows, NEW m \in Modes, NEW n \in Modes,
             GrabDevice(c, d, w, m, n)
      PROVE  LatestInv'
  <2>1. Remembers(dev, dev')
    BY <1>2, RequestsRemember
  <2>2. \E D : ComputeFreezes(D) /\ Idle /\ UNCHANGED replay
    BY <1>2, Zenon DEF GrabDevice
  <2> QED
    BY <1>1, <2>1, <2>2
<1>3. ASSUME NEW d \in Devices, UngrabDevice(c, d)
      PROVE  LatestInv'
  <2>1. Remembers(dev, dev')
    BY <1>3, RequestsRemember
  <2>2. \E D : ComputeFreezes(D) /\ Idle /\ UNCHANGED replay
    BY <1>3, Zenon DEF UngrabDevice
  <2> QED
    BY <1>1, <2>1, <2>2
<1>4. ASSUME NEW d \in Devices, NEW s \in {"THAWED", "FREEZE_NEXT_EVENT"}, AllowThis(c, d, s)
      PROVE  LatestInv'
  <2>1. Remembers(dev, dev')
    BY <1>4, RequestsRemember DEF LetGoStates
  <2>2. \E D : ComputeFreezes(D) /\ Idle /\ UNCHANGED replay
    BY <1>4, Zenon DEF AllowThis, Allows
  <2> QED
    BY <1>1, <2>1, <2>2
<1>5. ASSUME NEW s \in {"THAWED", "FREEZE_BOTH_NEXT_EVENT"}, AllowBoth(c, s)
      PROVE  LatestInv'
  <2>1. Remembers(dev, dev')
    BY <1>5, RequestsRemember DEF LetGoStates, Devices
  <2>2. \E D : ComputeFreezes(D) /\ Idle /\ UNCHANGED replay
    BY <1>5, Zenon DEF AllowBoth, Allows
  <2> QED
    BY <1>1, <2>1, <2>2
<1>6. ASSUME NEW d \in Devices, Replay(c, d)
      PROVE  LatestInv'
  <2>1. Remembers(dev, dev')
    BY <1>6, RequestsRemember
  <2>2. /\ dev[d].state = "FROZEN_WITH_EVENT" /\ again = None /\ playing'
        /\ replay' = [event |-> dev[d].event, window |-> dev[d].grab.window]
        /\ UNCHANGED <<pending, again, down, done>>
    BY <1>6 DEF Replay, Allows, Idle
  <2>3. /\ dev[d].event.dev = d /\ dev[d].event.seq = done[d]
        /\ dev[d].event.type = "Press" => down[d]
    BY <2>2 DEF LatestInv, ReplayIsLatest, Keeps, LastHalf, OvertakenByPress
  <2>4. replay'.event = dev[d].event
    BY <2>2
  <2>5. ReplayInv'
    BY <2>2, <2>3, <2>4 DEF ReplayInv
  <2>6. AgainInv' /\ ReplayIsLatest'
    BY <2>1, <2>2 DEF LatestInv, AgainInv, ReplayIsLatest, Keeps, LastHalf, OvertakenByPress,
                      Remembers
  <2> QED
    BY <2>5, <2>6 DEF LatestInv
<1>7. ASSUME CloseDownClient(c)
      PROVE  LatestInv'
  BY <1>7 DEF CloseDownClient, LatestInv, AgainInv, ReplayInv, ReplayIsLatest, Keeps, LastHalf,
              OvertakenByPress
<1> QED
  BY <1>2, <1>3, <1>4, <1>5, <1>6, <1>7 DEF Requests

\* What the server goes on with: a replay keeps at most the event that it has
\* been given.
LEMMA GoesOnLatest ==
    ASSUME LatestInv, IInv, GoesOn
    PROVE  LatestInv'
<1>1. ASSUME PlayReplay
      PROVE  LatestInv'
  <2> DEFINE e == replay.event
  <2>1. /\ replay # None /\ replay' = None /\ UNCHANGED orderVars
        /\ \E w : dev' = Ungrabbed(dev, e, w).dev
    BY <1>1 DEF PlayReplay, orderVars
  <2>2. /\ e \in Event /\ e.dev \in Devices /\ e.seq = done[e.dev]
        /\ e.type = "Press" => down[e.dev]
    BY <2>1 DEF IInv, TypeOK, LatestInv, ReplayInv, Event
  <2> HIDE DEF e
  <2>3. Records(dev, dev', e) /\ (e.type # "Press" => Remembers(dev, dev'))
    BY <2>1, <2>2, UngrabbedRecords DEF IInv, TypeOK, Held, Accounted
  <2>4. ASSUME NEW d \in Devices, dev'[d].state = "FROZEN_WITH_EVENT"
        PROVE  /\ dev'[d].event.dev = d /\ dev'[d].event.seq = done'[d]
               /\ LastHalf(d)' \/ OvertakenByPress(d)'
    <3>1. CASE dev[d].state = "FROZEN_WITH_EVENT" /\ dev'[d].event = dev[d].event
      BY <2>1, <3>1 DEF LatestInv, ReplayIsLatest, Keeps, LastHalf, OvertakenByPress, orderVars
    <3>2. CASE d = e.dev /\ dev'[d].event = e /\ e.type = "Press"
      BY <2>1, <2>2, <3>2 DEF LastHalf, orderVars
    <3> QED
      BY <2>3, <2>4, <3>1, <3>2 DEF Records, Remembers
  <2>5. AgainInv' /\ ReplayInv'
    BY <2>1 DEF LatestInv, AgainInv, ReplayInv, orderVars
  <2> QED
    BY <2>4, <2>5 DEF LatestInv, ReplayIsLatest, Keeps
<1>2. ASSUME NEW d \in Devices, ReleaseActiveGrab(d)
      PROVE  LatestInv'
  <2>1. /\ UNCHANGED orderVars /\ UNCHANGED replay /\ ~playing
        /\ dev' = Deactivate(dev, d)
    BY <1>2 DEF ReleaseActiveGrab, Closing, ComputeFreezes, orderVars
  <2>2. replay' = None
    BY <2>1 DEF LatestInv, ReplayInv
  <2>3. Remembers(dev, dev')
    BY <2>1, DeactivateRemembers DEF IInv, TypeOK
  <2> QED
    BY <2>1, <2>2, <2>3, LatestKept
<1>3. ASSUME CloseDone
      PROVE  LatestInv'
  BY <1>3 DEF CloseDone, Closing, LatestInv, AgainInv, ReplayInv, ReplayIsLatest, Keeps, LastHalf,
              OvertakenByPress
<1> QED
  BY <1>1, <1>2, <1>3, SecondHalfLatest, PlayedLatest DEF GoesOn

LEMMA LatestInvariant == Spec => [](IInv /\ LatestInv)
<1>1. Init => LatestInv
  <2> SUFFICES ASSUME Init PROVE LatestInv
    OBVIOUS
  <2>1. \A d \in Devices : dev[d].state = "NOT_GRABBED"
    BY InitIInv DEF Init
  <2> QED
    BY <2>1 DEF Init, LatestInv, AgainInv, ReplayInv, ReplayIsLatest, Keeps
<1>2. ASSUME LatestInv, IInv, [Next]_vars
      PROVE  LatestInv'
  <2>1. CASE UNCHANGED vars
    BY <1>2, <2>1 DEF vars, LatestInv, AgainInv, ReplayInv, ReplayIsLatest, Keeps, LastHalf,
                      OvertakenByPress
  <2> QED
    BY <1>2, <2>1, DeviceEventLatest, RequestsLatest, GoesOnLatest DEF Next
<1> QED
  BY <1>1, <1>2, InitIInv, NextIInv, PTL DEF Spec

\* The event kept for a replay is the last that was processed of its device, to
\* the half of a repeated key: what it presses is down and what it releases is
\* up.  The one exception is a release of the keyboard that XKB has followed with
\* the press of the same key (DeliverGrabbedEvent, CheckPassiveGrabsOnWindow,
\* AllowSome, ComputeFreezes, XkbProcessKeyboardEvent).
THEOREM ReplayCorrect == Spec => []ReplayIsLatest
<1>1. LatestInv => ReplayIsLatest
  BY DEF LatestInv
<1> QED
  BY <1>1, LatestInvariant, PTL

\* Where XKB is not used there is no exception: a replay never brings an event
\* back that others have followed (CoreProcessKeyboardEvent gives the press of a
\* repeated key to processInputProc again, which is EnqueueEvent by then).
THEOREM ReplayWithoutXkb ==
    ASSUME noXkbExtension
    PROVE  Spec => []KeptIsLast
<1>1. ReplayIsLatest => KeptIsLast
  BY DEF ReplayIsLatest, KeptIsLast, OvertakenByPress
<1> QED
  BY <1>1, ReplayCorrect, PTL

----------------------------------------------------------------------------
(* Where XKB processes the press of a repeated key at once.                *)
XkbProcesses == ~noXkbExtension

\* The events that wait are those of their device that have not been processed,
\* in the order in which they came.
SortedInv ==
    /\ \A i, j \in 1..Len(pending) :
          i < j /\ pending[i].dev = pending[j].dev => pending[i].seq < pending[j].seq
    /\ \A i \in 1..Len(pending) : done[pending[i].dev] < pending[i].seq /\ pending[i].seq <= seq
    /\ \A d \in Devices : done[d] <= seq

\* The steps of XKB: the press of a repeated key is processed.
LEMMA XkbSecondHalf ==
    ASSUME XkbProcesses, IInv, LatestInv, SecondHalf
    PROVE  \E e \in Event, b \in BOOLEAN :
              /\ again # None /\ e = again.event /\ e.dev = keyboard /\ b = again.inPlay
              /\ e.type = "Press" /\ e.seq = done[keyboard]
              /\ Process(e, b) /\ UNCHANGED <<pending, pendtail, physical, seq>>
BY SecondHalfIs DEF XkbProcesses, LatestInv, AgainInv

LEMMA SortedEnqueue ==
    ASSUME IInv, SortedInv, NEW e \in Event, EnqueueEvent(e), UNCHANGED done,
           e.seq = seq + 1, seq' = seq + 1
    PROVE  SortedInv'
<1>0. /\ Len(pending) \in Nat /\ \A i \in 1..Len(pending) : pending[i] \in Event
      /\ seq \in Nat /\ \A d \in Devices : done[d] \in Nat
  BY LenProperties, ElementOfSeq, DevicesAssumption DEF IInv, Queued, TypeOK
<1>1. \A x \in Event : x.seq \in Nat /\ x.dev \in Devices
  BY DEF Event
<1>2. CASE Appended(e)
  <2>1. \A i \in 1..Len(pending') : i \in 1..Len(pending) \/ i = Len(pending) + 1
    BY <1>0, <1>2 DEF Appended
  <2>2. \A i \in 1..Len(pending) : pending'[i] = pending[i] /\ pending[i].seq < e.seq
    BY <1>0, <1>1, <1>2 DEF Appended, SortedInv
  <2>3. pending'[Len(pending) + 1] = e
    BY <1>2 DEF Appended
  <2>4. \A i, j \in 1..Len(pending') :
           i < j /\ pending'[i].dev = pending'[j].dev => pending'[i].seq < pending'[j].seq
    BY <1>0, <2>1, <2>2, <2>3 DEF SortedInv
  <2>5. \A i \in 1..Len(pending') :
           done'[pending'[i].dev] < pending'[i].seq /\ pending'[i].seq <= seq'
    BY <1>0, <1>1, <2>1, <2>2, <2>3 DEF SortedInv
  <2> QED
    BY <1>0, <2>4, <2>5 DEF SortedInv
<1>3. CASE Compressed(e)
  <2>1. \A i \in 1..Len(pending) :
           /\ pending'[i].dev = pending[i].dev
           /\ pending'[i].seq = IF i = Len(pending) THEN e.seq ELSE pending[i].seq
    <3>1. \A x \in Event : [x EXCEPT !.seq = e.seq].dev = x.dev
                           /\ [x EXCEPT !.seq = e.seq].seq = e.seq
      BY DEF Event
    <3> QED
      BY <1>0, <1>3, <3>1 DEF Compressed
  <2>2. Len(pending') = Len(pending)
    BY <1>3 DEF Compressed
  <2>3. \A i \in 1..Len(pending) : pending[i].seq < e.seq
    BY <1>0, <1>1 DEF SortedInv
  <2>4. \A i, j \in 1..Len(pending) :
           i < j /\ pending'[i].dev = pending'[j].dev => pending'[i].seq < pending'[j].seq
    BY <1>0, <2>1, <2>3 DEF SortedInv
  <2>5. \A i \in 1..Len(pending) :
           done[pending'[i].dev] < pending'[i].seq /\ pending'[i].seq <= seq'
    BY <1>0, <1>1, <2>1 DEF SortedInv
  <2> QED
    BY <1>0, <2>2, <2>4, <2>5 DEF SortedInv
<1> QED
  BY <1>2, <1>3, EnqueueIs DEF IInv

LEMMA SortedDeviceEvent ==
    ASSUME IInv, SortedInv, NEW d \in Devices, NEW type \in {"Press", "Release", "Motion"},
           DeviceEvent(d, type)
    PROVE  SortedInv' /\ \A x \in Devices : done'[x] >= done[x]
<1>0. /\ Len(pending) \in Nat /\ \A i \in 1..Len(pending) : pending[i] \in Event
      /\ seq \in Nat /\ \A x \in Devices : done[x] \in Nat
  BY LenProperties, ElementOfSeq, DevicesAssumption DEF IInv, Queued, TypeOK
<1>1. PICK e \in Event :
         /\ e.dev = d /\ e.seq = seq + 1 /\ seq' = seq + 1
         /\ \/ EnqueueEvent(e) /\ UNCHANGED done
            \/ /\ \E b \in BOOLEAN : ~b /\ Process(e, b)
               /\ UNCHANGED <<pending, pendtail>>
               /\ \A i \in 1..Len(pending) : pending[i].dev # d
  BY DeviceEventIs
<1>2. CASE EnqueueEvent(e) /\ UNCHANGED done
  BY <1>0, <1>1, <1>2, SortedEnqueue
<1>3. CASE /\ \E b \in BOOLEAN : ~b /\ Process(e, b)
           /\ UNCHANGED <<pending, pendtail>>
           /\ \A i \in 1..Len(pending) : pending[i].dev # d
  <2>1. \A x \in Devices : done'[x] = IF x = d THEN seq + 1 ELSE done[x]
    BY <1>1, <1>3, ProcessSets
  <2>2. \A i \in 1..Len(pending) : pending[i].dev \in Devices /\ pending[i].seq \in Nat
    BY <1>0 DEF Event
  <2>3. \A x \in Devices : done'[x] >= done[x] /\ done'[x] <= seq'
    BY <1>0, <1>1, <2>1 DEF SortedInv
  <2>4. \A i \in 1..Len(pending) : done'[pending[i].dev] < pending[i].seq /\ pending[i].seq <= seq'
    BY <1>0, <1>1, <1>3, <2>1, <2>2 DEF SortedInv
  <2> QED
    BY <1>3, <2>3, <2>4 DEF SortedInv
<1> QED
  BY <1>1, <1>2, <1>3

LEMMA SortedPlayed ==
    ASSUME IInv, SortedInv, PlayReleasedEvent
    PROVE  SortedInv' /\ \A x \in Devices : done'[x] >= done[x]
<1>0. /\ Len(pending) \in Nat /\ \A i \in 1..Len(pending) : pending[i] \in Event
      /\ seq \in Nat /\ \A x \in Devices : done[x] \in Nat
  BY LenProperties, ElementOfSeq, DevicesAssumption DEF IInv, Queued, TypeOK
<1>1. PICK i \in 1..Len(pending) :
         /\ \A j \in 1..Len(pending) : j < i => pending[j].dev # pending[i].dev
         /\ Dequeue(i) /\ \E b \in BOOLEAN : b /\ Process(pending[i], b)
         /\ seq' = seq
  BY PlayedIs
<1>2. PICK e \in Event : e = pending[i]
  BY <1>0
<1>3. /\ e.dev \in Devices /\ e.seq \in Nat
      /\ \A x \in Devices : done'[x] = IF x = e.dev THEN e.seq ELSE done[x]
  BY <1>1, <1>2, ProcessSets
<1>4. /\ Len(pending') = Len(pending) - 1
      /\ \A j \in 1..Len(pending) - 1 : pending'[j] = IF j < i THEN pending[j] ELSE pending[j + 1]
  BY <1>1, RemoveAtIs DEF Dequeue, IInv, Queued
<1>5. \A j \in 1..Len(pending) : pending[j].dev \in Devices /\ pending[j].seq \in Nat
  BY <1>0 DEF Event
<1>6. \A x \in Devices : done'[x] >= done[x] /\ done'[x] <= seq'
  BY <1>0, <1>1, <1>2, <1>3 DEF SortedInv
<1>7. \A j, k \in 1..Len(pending) - 1 :
         j < k /\ pending'[j].dev = pending'[k].dev => pending'[j].seq < pending'[k].seq
  BY <1>0, <1>4 DEF SortedInv
<1>8. ASSUME NEW j \in 1..Len(pending) - 1
      PROVE  done'[pending'[j].dev] < pending'[j].seq /\ pending'[j].seq <= seq'
  <2>1. PICK k \in 1..Len(pending) : k # i /\ pending'[j] = pending[k]
    BY <1>0, <1>4
  <2>2. pending[k].seq <= seq' /\ done[pending[k].dev] < pending[k].seq
    BY <1>1, <2>1 DEF SortedInv
  <2>3. CASE pending[k].dev = e.dev
    <3>1. i < k
      BY <1>0, <1>1, <1>2, <2>1, <2>3
    <3> QED
      BY <1>2, <1>3, <2>1, <2>2, <2>3, <3>1 DEF SortedInv
  <2>4. CASE pending[k].dev # e.dev
    BY <1>3, <1>5, <2>1, <2>2, <2>4
  <2> QED
    BY <2>3, <2>4
<1> QED
  BY <1>4, <1>6, <1>7, <1>8 DEF SortedInv

LEMMA SortedStep ==
    ASSUME XkbProcesses, IInv, LatestInv, SortedInv, [Next]_vars
    PROVE  SortedInv' /\ \A x \in Devices : done'[x] >= done[x]
<1>0. \A x \in Devices : done[x] \in Nat
  BY DevicesAssumption DEF IInv, TypeOK
<1>1. CASE SecondHalf
  <2>1. PICK e \in Event, b \in BOOLEAN :
           /\ e.dev = keyboard /\ e.seq = done[keyboard]
           /\ Process(e, b) /\ UNCHANGED <<pending, pendtail, physical, seq>>
    BY <1>1, XkbSecondHalf
  <2>2. \A x \in Devices : done'[x] = done[x]
    BY <2>1, ProcessSets
  <2>3. \A i \in 1..Len(pending) : pending[i].dev \in Devices
    <3>1. \A i \in 1..Len(pending) : pending[i] \in Event
      BY ElementOfSeq DEF IInv, Queued
    <3> QED
      BY <3>1 DEF Event
  <2> QED
    BY <1>0, <2>1, <2>2, <2>3 DEF SortedInv
<1>2. CASE UNCHANGED orderVars
  BY <1>0, <1>2 DEF orderVars, SortedInv
<1> QED
  BY <1>1, <1>2, Steps, SortedDeviceEvent, SortedPlayed

\* The events of a device are processed in the order in which they came, through
\* any freezes, replays and repeated keys (EnqueueEvent, PlayReleasedEvents).
THEOREM OrderCorrect ==
    ASSUME XkbProcesses
    PROVE  Spec => InOrder
<1>1. Init => SortedInv
  BY DEF Init, SortedInv
<1>2. ASSUME IInv, LatestInv, SortedInv, [Next]_vars
      PROVE  SortedInv' /\ [\A d \in Devices : done'[d] >= done[d]]_vars
  BY <1>2, SortedStep
<1> QED
  BY <1>1, <1>2, LatestInvariant, PTL DEF Spec, InOrder

----------------------------------------------------------------------------
\* Event i is the last of device d that waits and changes its button or key.
LastChange(i, d) ==
    /\ pending[i].dev = d /\ pending[i].type # "Motion"
    /\ \A j \in 1..Len(pending) : j > i /\ pending[j].dev = d => pending[j].type = "Motion"

NoChange(d) == \A i \in 1..Len(pending) : pending[i].dev = d => pending[i].type = "Motion"

\* The hardware is as the last event that waits has it; if none does, as the
\* press of a repeated key has it that is to come; if there is none, as the
\* last event processed had it.
FollowInv ==
    \A d \in Devices :
        /\ \A i \in 1..Len(pending) : LastChange(i, d) => (physical[d] <=> pending[i].type = "Press")
        /\ NoChange(d) => (physical[d] <=> (d = keyboard /\ again # None) \/ down[d])

LEMMA FollowDeviceEvent ==
    ASSUME IInv, FollowInv, NEW d \in Devices, NEW type \in {"Press", "Release", "Motion"},
           DeviceEvent(d, type)
    PROVE  FollowInv'
<1>0. Len(pending) \in Nat /\ \A i \in 1..Len(pending) : pending[i] \in Event
  BY LenProperties, ElementOfSeq DEF IInv, Queued
<1>1. PICK e \in Event :
         /\ e.dev = d /\ e.type = type /\ again = None /\ Arrives(d, type)
         /\ \/ EnqueueEvent(e) /\ UNCHANGED <<down, again>>
            \/ /\ \E b \in BOOLEAN : ~b /\ Process(e, b)
               /\ UNCHANGED <<pending, pendtail>>
               /\ \A i \in 1..Len(pending) : pending[i].dev # d
  BY DeviceEventIs
<1>2. \A x \in Devices : physical'[x] <=>
         IF x = d /\ type # "Motion" THEN type = "Press" ELSE physical[x]
  <2>1. PICK p \in BOOLEAN : p = (type = "Press")
    OBVIOUS
  <2>2. physical' = IF type = "Motion" THEN physical ELSE [physical EXCEPT ![d] = p]
    BY <1>1, <2>1 DEF Arrives
  <2> QED
    BY <2>1, <2>2 DEF IInv, TypeOK
<1>3. CASE EnqueueEvent(e) /\ UNCHANGED <<down, again>>
  <2>1. CASE Appended(e)
    <3>1. \A i \in 1..Len(pending') : i \in 1..Len(pending) \/ i = Len(pending) + 1
      BY <1>0, <2>1 DEF Appended
    <3>2. /\ Len(pending') = Len(pending) + 1 /\ pending'[Len(pending) + 1] = e
          /\ \A i \in 1..Len(pending) : pending'[i] = pending[i]
      BY <2>1 DEF Appended
    <3>3. \A x \in Devices : NoChange(x)' => NoChange(x) /\ ~(x = d /\ type # "Motion")
      BY <1>0, <1>1, <3>2 DEF NoChange
    <3>4. ASSUME NEW x \in Devices, NEW i \in 1..Len(pending'), LastChange(i, x)'
          PROVE  physical'[x] <=> pending'[i].type = "Press"
      <4>1. CASE i = Len(pending) + 1
        BY <1>1, <1>2, <3>2, <3>4, <4>1 DEF LastChange
      <4>2. CASE i \in 1..Len(pending)
        <5>1. LastChange(i, x)
          BY <1>0, <3>2, <3>4, <4>2 DEF LastChange
        <5>2. ~(x = d /\ type # "Motion")
          BY <1>0, <1>1, <3>2, <3>4, <4>2 DEF LastChange
        <5> QED
          BY <1>2, <3>2, <4>2, <5>1, <5>2 DEF FollowInv
      <4> QED
        BY <3>1, <4>1, <4>2
    <3> QED
      BY <1>2, <1>3, <3>3, <3>4 DEF FollowInv
  <2>2. CASE Compressed(e)
    <3>1. /\ Len(pending') = Len(pending) /\ type = "Motion"
          /\ \A i \in 1..Len(pending) :
                pending'[i].dev = pending[i].dev /\ pending'[i].type = pending[i].type
      <4>1. \A x \in Event : [x EXCEPT !.seq = e.seq].dev = x.dev
                             /\ [x EXCEPT !.seq = e.seq].type = x.type
        BY DEF Event
      <4> QED
        BY <1>0, <1>1, <2>2, <4>1 DEF Compressed
    <3>2. \A x \in Devices : /\ NoChange(x)' => NoChange(x)
                             /\ \A i \in 1..Len(pending) : LastChange(i, x)' => LastChange(i, x)
      BY <3>1 DEF NoChange, LastChange
    <3> QED
      BY <1>2, <1>3, <3>1, <3>2 DEF FollowInv
  <2> QED
    BY <1>3, <2>1, <2>2, EnqueueIs DEF IInv
<1>4. CASE /\ \E b \in BOOLEAN : ~b /\ Process(e, b)
           /\ UNCHANGED <<pending, pendtail>>
           /\ \A i \in 1..Len(pending) : pending[i].dev # d
  <2>1. PICK b \in BOOLEAN : Process(e, b)
    BY <1>4
  <2>2. NoChange(d) /\ \A i \in 1..Len(pending) : ~LastChange(i, d)
    BY <1>4 DEF NoChange, LastChange
  <2>3. /\ again' = IF IsRepeat(e) THEN [event |-> e, inPlay |-> b]
                    ELSE IF e.dev = keyboard THEN None ELSE again
        /\ [event |-> e, inPlay |-> b] # None
    BY <2>1, ProcessSets, DevicesAssumption
  <2>4. ASSUME NEW x \in Devices
        PROVE  NoChange(x) => (physical'[x] <=> (x = keyboard /\ again' # None) \/ down'[x])
    <3>1. CASE x # d
      BY <1>1, <1>2, <2>1, <2>3, <3>1, ProcessKeys DEF FollowInv
    <3>2. CASE x = d /\ type = "Motion"
      BY <1>1, <1>2, <2>1, <2>3, <3>2, ProcessKeys DEF FollowInv
    <3>3. CASE x = d /\ type # "Motion"
      BY <1>1, <1>2, <2>1, <2>3, <3>3, ProcessKeys DEF FollowInv
    <3> QED
      BY <3>1, <3>2, <3>3
  <2>5. \A x \in Devices : \A i \in 1..Len(pending) :
           LastChange(i, x) => (physical'[x] <=> pending[i].type = "Press")
    BY <1>2, <2>2 DEF FollowInv
  <2> QED
    BY <1>4, <2>4, <2>5 DEF FollowInv, NoChange, LastChange
<1> QED
  BY <1>1, <1>3, <1>4

LEMMA FollowPlayed ==
    ASSUME IInv, LatestInv, FollowInv, PlayReleasedEvent
    PROVE  FollowInv'
<1>0. Len(pending) \in Nat
  BY LenProperties DEF IInv, Queued
<1>1. PICK i \in 1..Len(pending) :
         /\ pending[i] \in Event
         /\ \A j \in 1..Len(pending) : j < i => pending[j].dev # pending[i].dev
         /\ Dequeue(i) /\ \E b \in BOOLEAN : b /\ Process(pending[i], b)
         /\ (again # None => ~again.inPlay) /\ UNCHANGED physical
  BY PlayedIs
<1>2. PICK e \in Event, b \in BOOLEAN : e = pending[i] /\ Process(e, b)
  BY <1>1
<1>3. /\ Len(pending') = Len(pending) - 1
      /\ \A j \in 1..Len(pending) - 1 : pending'[j] = IF j < i THEN pending[j] ELSE pending[j + 1]
  BY <1>1, RemoveAtIs DEF Dequeue, IInv, Queued
<1>4. \A k \in 1..Len(pending) : k # i =>
         \E j \in 1..Len(pending) - 1 : pending'[j] = pending[k] /\ (k > i => j = k - 1)
                                        /\ (k < i => j = k)
  <2>1. ASSUME NEW k \in 1..Len(pending), k < i
        PROVE  k \in 1..Len(pending) - 1 /\ pending'[k] = pending[k]
    BY <1>0, <1>3, <2>1
  <2>2. ASSUME NEW k \in 1..Len(pending), k > i
        PROVE  k - 1 \in 1..Len(pending) - 1 /\ pending'[k - 1] = pending[k]
    BY <1>0, <1>3, <2>2
  <2> QED
    BY <1>0, <2>1, <2>2
<1>5. /\ again' = IF IsRepeat(e) THEN [event |-> e, inPlay |-> b]
                  ELSE IF e.dev = keyboard THEN None ELSE again
      /\ [event |-> e, inPlay |-> b] # None /\ e.dev \in Devices
  BY <1>2, ProcessSets, DevicesAssumption
<1>6. again # None => e.dev # keyboard
  BY <1>1, <1>2 DEF LatestInv, AgainInv
<1>7. ASSUME NEW x \in Devices, NEW j \in 1..Len(pending'), LastChange(j, x)'
      PROVE  physical'[x] <=> pending'[j].type = "Press"
  <2>1. PICK k \in 1..Len(pending) :
           k # i /\ pending'[j] = pending[k] /\ k = IF j < i THEN j ELSE j + 1
    BY <1>0, <1>3
  <2>2. pending[k].dev = x /\ pending[k].type # "Motion"
    BY <1>7, <2>1 DEF LastChange
  <2>3. ASSUME NEW m \in 1..Len(pending), m > k, pending[m].dev = x
        PROVE  pending[m].type = "Motion"
    <3>1. m # i
      BY <1>0, <1>1, <2>2, <2>3
    <3>2. PICK n \in 1..Len(pending) - 1 :
             pending'[n] = pending[m] /\ (m > i => n = m - 1) /\ (m < i => n = m)
      BY <1>4, <3>1
    <3>3. n > j
      BY <1>0, <2>1, <2>3, <3>1, <3>2
    <3> QED
      BY <1>3, <1>7, <2>3, <3>2, <3>3 DEF LastChange
  <2>4. LastChange(k, x)
    BY <2>2, <2>3 DEF LastChange
  <2> QED
    BY <1>1, <2>1, <2>4 DEF FollowInv
<1>8. ASSUME NEW x \in Devices, NoChange(x)'
      PROVE  physical'[x] <=> (x = keyboard /\ again' # None) \/ down'[x]
  <2>1. \A k \in 1..Len(pending) : k # i /\ pending[k].dev = x => pending[k].type = "Motion"
    BY <1>3, <1>4, <1>8 DEF NoChange
  <2>2. CASE x # e.dev
    <3>1. NoChange(x) /\ (x = keyboard => again' = again)
      BY <1>2, <1>5, <2>1, <2>2, ProcessKeys DEF NoChange
    <3> QED
      BY <1>1, <1>2, <2>2, <3>1, ProcessKeys DEF FollowInv
  <2>3. CASE x = e.dev /\ e.type = "Motion"
    <3>1. NoChange(x)
      BY <1>2, <2>1, <2>3 DEF NoChange
    <3> QED
      BY <1>1, <1>2, <1>5, <1>6, <2>3, <3>1, ProcessKeys DEF FollowInv
  <2>4. CASE x = e.dev /\ e.type # "Motion"
    <3>1. LastChange(i, x)
      BY <1>0, <1>2, <2>1, <2>4 DEF LastChange
    <3>2. physical'[x] <=> e.type = "Press"
      BY <1>1, <1>2, <3>1 DEF FollowInv
    <3> QED
      BY <1>2, <1>5, <2>4, <3>2, ProcessKeys
  <2> QED
    BY <2>2, <2>3, <2>4
<1> QED
  BY <1>7, <1>8 DEF FollowInv

LEMMA FollowStep ==
    ASSUME XkbProcesses, IInv, LatestInv, FollowInv, [Next]_vars
    PROVE  FollowInv'
<1>1. CASE SecondHalf
  <2>1. PICK e \in Event, b \in BOOLEAN :
           /\ again # None /\ e.dev = keyboard /\ e.type = "Press"
           /\ Process(e, b) /\ UNCHANGED <<pending, pendtail, physical, seq>>
    BY <1>1, XkbSecondHalf
  <2>2. /\ again' = IF IsRepeat(e) THEN [event |-> e, inPlay |-> b] ELSE None
        /\ [event |-> e, inPlay |-> b] # None
    BY <2>1, ProcessSets, DevicesAssumption
  <2>3. \A d \in Devices : down'[d] <=> IF d = keyboard THEN ~IsRepeat(e) ELSE down[d]
    BY <2>1, ProcessKeys
  <2>4. \A d \in Devices :
           NoChange(d) => (physical'[d] <=> (d = keyboard /\ again' # None) \/ down'[d])
    BY <2>1, <2>2, <2>3 DEF FollowInv
  <2> QED
    BY <2>1, <2>4 DEF FollowInv, NoChange, LastChange
<1>2. CASE UNCHANGED orderVars
  BY <1>2 DEF orderVars, FollowInv, NoChange, LastChange
<1> QED
  BY <1>1, <1>2, Steps, FollowDeviceEvent, FollowPlayed

\* When the events of a device are all processed, its button or key is what the
\* hardware last said: no press or release has been lost, merged with another or
\* left half done (EnqueueEvent, PlayReleasedEvents, ProcessKeyboardEvent).
THEOREM KeysCorrect ==
    ASSUME XkbProcesses
    PROVE  Spec => []KeysMatch
<1>1. Init => FollowInv
  BY DEF Init, FollowInv, LastChange, NoChange
<1>2. ASSUME IInv, LatestInv, FollowInv, [Next]_vars
      PROVE  FollowInv'
  BY <1>2, FollowStep
<1>3. IInv /\ FollowInv => KeysMatch
  BY DEF IInv, TypeOK, FollowInv, KeysMatch, NoChange, Idle
<1> QED
  BY <1>1, <1>2, <1>3, LatestInvariant, PTL DEF Spec

================================================================================
