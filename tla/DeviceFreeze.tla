------------------------------ MODULE DeviceFreeze ------------------------------
(***************************************************************************)
(* Grabs of the pointer and the keyboard, the freezing of the devices by   *)
(* synchronous grabs, the queue of the events that arrive meanwhile, and   *)
(* their replay when a client allows it (dix/events.c).                    *)
(*                                                                         *)
(* A request, an event from the hardware and the end of a client are each  *)
(* carried through before the next: nothing comes between the steps of     *)
(* ComputeFreezes, which plays the events of the queue one after the       *)
(* other; each may activate or end a grab, and so freeze or thaw devices.  *)
(*                                                                         *)
(* There is one button and one key.  The focus is PointerRoot, the pointer *)
(* stays in one stack of windows, 1 (the root) to Depth; window 0 is one   *)
(* outside of it.  The times of requests are valid, the grabs select all   *)
(* presses and releases.                                                   *)
(***************************************************************************)
EXTENDS Naturals, Sequences, SequencesExt

CONSTANTS
    Clients, None,
    pointer, keyboard,
    Depth,              \* the windows under the pointer are 1..Depth
    GrabWindows,        \* the windows of active grabs
    PassiveGrabs,       \* the passive grabs, made by GrabButton and GrabKey
    Listener,           \* selects ButtonPress on the window of the pointer, or None
    noXkbExtension,
    MaxEvents           \* bound: events from the hardware

Devices == {pointer, keyboard}
Modes == {"Sync", "Async"}
Event == [dev : Devices, type : {"Press", "Release", "Motion"}, seq : 1..MaxEvents]
Grab == [client : Clients, window : 0..Depth]

ASSUME DevicesAssumption ==
    /\ pointer # keyboard /\ None \notin Clients \cup Devices \cup Grab
    /\ None \notin [event : Event, inPlay : BOOLEAN]
    /\ Depth \in Nat \ {0} /\ GrabWindows \subseteq 0..Depth
    /\ PassiveGrabs \subseteq [client : Clients, device : Devices, window : 1..Depth,
                               thisMode : Modes, otherMode : Modes]
    \* GrabButton and GrabKey refuse a second grab of the same (BadAccess).
    /\ \A g, h \in PassiveGrabs : g.device = h.device /\ g.window = h.window => g = h
    /\ Listener \in Clients \cup {None} /\ noXkbExtension \in BOOLEAN /\ MaxEvents \in Nat

VARIABLES
    dev,         \* the devices, see DeviceRec
    activatingKey, \* the key is the keyboard's activatingKey
    passive,     \* the passive grabs
    pending,     \* syncEvents.pending
    pendtail,    \* the cell of it syncEvents.pendtail points to
    playing,     \* syncEvents.playingEvents: ComputeFreezes is under way
    replay,      \* syncEvents.replayDev, its event and replayWin
    again,       \* the press of a repeated key whose release has been processed
    closing,     \* the client in CloseDownClient
    connected,
    down,        \* the state of the button and of the key
    physical,    \* the same, at the hardware
    seq,         \* the events so far
    done         \* the last event processed

vars == <<dev, activatingKey, passive, pending, pendtail, playing, replay, again, closing, connected,
          down, physical, seq, done>>

FrozenStates == {"FROZEN_NO_EVENT", "FROZEN_WITH_EVENT"}
States == FrozenStates \cup {"NOT_GRABBED", "THAWED", "FREEZE_NEXT_EVENT", "FREEZE_BOTH_NEXT_EVENT"}

\* DeviceIntRec: the active grab; sync.state, sync.other (the device whose grab
\* has this one frozen), sync.frozen, sync.event; fromPassiveGrab.
DeviceRec == [grab : Grab \cup {None}, state : States, other : Devices \cup {None},
              frozen : BOOLEAN, event : Event \cup {None}, fromPassive : BOOLEAN]

Init ==
    /\ dev = [d \in Devices |-> [grab |-> None, state |-> "NOT_GRABBED", other |-> None,
                                 frozen |-> FALSE, event |-> None, fromPassive |-> FALSE]]
    /\ activatingKey = FALSE /\ passive = PassiveGrabs
    /\ pending = <<>> /\ pendtail = 1 /\ playing = FALSE
    /\ replay = None /\ again = None /\ closing = None
    /\ connected = Clients
    /\ down = [d \in Devices |-> FALSE] /\ physical = [d \in Devices |-> FALSE]
    /\ seq = 0 /\ done = [d \in Devices |-> 0]

(***************************************************************************)
(* Grabs and freezes, as functions of the devices D.                       *)
(***************************************************************************)
GrabbedBy(D, d, c) == D[d].grab # None /\ D[d].grab.client = c
FrozenFor(D, d, c) == D[d].other # None /\ GrabbedBy(D, D[d].other, c)

\* The first loop of ComputeFreezes.
FreezeThaw(D) ==
    [d \in Devices |-> [D[d] EXCEPT
        !.frozen = (D[d].other # None \/ D[d].state \in FrozenStates)]]

\* (mutant of Playable) The walk stops at an event whose device is frozen.
PlayableHead(D, queue) == {i \in 1..Len(queue) : i = 1 /\ ~D[queue[i].dev].frozen}

\* What ComputeFreezes will play: the first event of a device that is not
\* frozen.
Playable(D, queue) == {i \in 1..Len(queue) : ~D[queue[i].dev].frozen}

Without(D, d, c) == IF FrozenFor(D, d, c) THEN None ELSE D[d].other

CheckGrabForSyncs(D, d, thisMode, otherMode) ==
    LET c == D[d].grab.client
        this == IF thisMode = "Sync" THEN [D[d] EXCEPT !.state = "FROZEN_NO_EVENT"]
                ELSE [D[d] EXCEPT !.state = "THAWED", !.other = Without(D, d, c)]
        that(e) == [D[e] EXCEPT
                      !.other = IF otherMode = "Sync" THEN d ELSE Without(D, e, c)]
    IN  FreezeThaw([e \in Devices |-> IF e = d THEN this ELSE that(e)])

\* ActivatePointerGrab, ActivateKeyboardGrab.
Activate(D, d, grab, thisMode, otherMode, auto) ==
    CheckGrabForSyncs([D EXCEPT ![d].grab = grab, ![d].fromPassive = auto],
                      d, thisMode, otherMode)

\* (mutant of Deactivate) What the grab has frozen stays frozen.
DeactivateAlone(D, d) ==
    FreezeThaw([D EXCEPT ![d].grab = None, ![d].state = "NOT_GRABBED", ![d].fromPassive = FALSE])

\* (mutant of Deactivate) The device stays grabbed.
DeactivateState(D, d) ==
    FreezeThaw([D EXCEPT ![d].state = "NOT_GRABBED", ![d].fromPassive = FALSE])

\* DeactivatePointerGrab, DeactivateKeyboardGrab.
Deactivate(D, d) ==
    LET ended == [D EXCEPT ![d].grab = None, ![d].state = "NOT_GRABBED",
                           ![d].fromPassive = FALSE]
    IN  FreezeThaw([e \in Devices |-> [ended[e] EXCEPT !.other = IF @ = d THEN None ELSE @]])

\* CheckPassiveGrabsOnWindow, for the grab g that event e activates.
ActivatePassive(D, g, e) ==
    LET A == Activate(D, e.dev, [client |-> g.client, window |-> g.window],
                      g.thisMode, g.otherMode, TRUE)
    IN  IF A[e.dev].state # "FROZEN_NO_EVENT" THEN A
        ELSE [A EXCEPT ![e.dev].state = "FROZEN_WITH_EVENT", ![e.dev].event = e]

\* CheckDeviceGrabs from a window of the stack on: the passive grabs that match,
\* those nearest to the root.
Matching(e, first) ==
    LET all == {g \in passive : g.device = e.dev /\ g.window >= first /\ e.type = "Press"}
    IN  {g \in all : \A h \in all : g.window <= h.window}

\* DeliverEventsToWindow: a press that is delivered grabs the pointer for its
\* client.
ImplicitGrab(e) == e.dev = pointer /\ e.type = "Press" /\ Listener \in connected

\* (mutant of DeliverGrabbed) The state is set but the device not frozen.
DeliverUnfrozen(D, e, deactivate) ==
    IF deactivate \/ e.type = "Motion"
          \/ D[e.dev].state \notin {"FREEZE_NEXT_EVENT", "FREEZE_BOTH_NEXT_EVENT"}
    THEN D
    ELSE [D EXCEPT ![e.dev].state = "FROZEN_WITH_EVENT", ![e.dev].event = e]

\* DeliverGrabbedEvent; e is reported to the client of the grab.
DeliverGrabbed(D, e, deactivate) ==
    LET d == e.dev
        both == D[d].state = "FREEZE_BOTH_NEXT_EVENT"
        this == [D[d] EXCEPT !.state = "FROZEN_WITH_EVENT", !.frozen = TRUE, !.event = e]
        that(x) ==
            IF D[x].state = "FREEZE_BOTH_NEXT_EVENT" /\ GrabbedBy(D, x, D[d].grab.client)
            THEN [D[x] EXCEPT !.state = "FROZEN_NO_EVENT", !.frozen = TRUE]
            ELSE [D[x] EXCEPT !.other = d, !.frozen = TRUE]
    IN  IF deactivate \/ e.type = "Motion"
               \/ D[d].state \notin {"FREEZE_NEXT_EVENT", "FREEZE_BOTH_NEXT_EVENT"}
        THEN D
        ELSE [x \in Devices |-> IF x = d THEN this ELSE IF both THEN that(x) ELSE D[x]]

\* What becomes of a device, and whether ComputeFreezes is called.
Result(D, calls) == [dev |-> D, calls |-> calls]

\* The delivery of an event of a device nobody has grabbed, to the passive grabs
\* from a window on, or to the windows.
Ungrabbed(D, e, first) ==
    IF Matching(e, first) # {}
    THEN Result(ActivatePassive(D, CHOOSE g \in Matching(e, first) : TRUE, e), TRUE)
    ELSE IF ImplicitGrab(e)
    THEN Result(Activate(D, pointer, [client |-> Listener, window |-> Depth],
                         "Async", "Async", TRUE), TRUE)
    ELSE Result(D, FALSE)

\* The press activates a passive grab of the keyboard; CoreProcessKeyboardEvent
\* notes the key (a replay does not).
ActivatesByKey(e) == e.dev = keyboard /\ dev[keyboard].grab = None /\ Matching(e, 1) # {}

\* CoreProcessPointerEvent, CoreProcessKeyboardEvent, but for the state of the
\* button or key.  A passive grab ends with the release of the button, or of the
\* key that was noted last.
Processed(D, e) ==
    LET d == e.dev
        deactivate == /\ e.type = "Release" /\ D[d].fromPassive
                      /\ d = keyboard => activatingKey
        delivered == DeliverGrabbed(D, e, deactivate)
    IN  IF D[d].grab = None THEN Ungrabbed(D, e, 1)
        ELSE IF deactivate THEN Result(Deactivate(delivered, d), TRUE)
        ELSE Result(delivered, FALSE)

(***************************************************************************)
(* The queue.                                                              *)
(***************************************************************************)
\* (mutant of EnqueueEvent) Events are put at the head.
EnqueueAtHead(e) == pending' = <<e>> \o pending /\ pendtail' = Len(pending) + 1

\* (mutant of EnqueueEvent) Not only motion is compressed.
EnqueueCompressed(e) ==
    IF pendtail <= Len(pending) /\ pending[pendtail].dev = e.dev
    THEN pending' = [pending EXCEPT ![pendtail].seq = e.seq] /\ UNCHANGED pendtail
    ELSE pending' = Append(pending, e) /\ pendtail' = Len(pending) + 1

\* EnqueueEvent; the tail is the last event unless pendtail has been set back.
EnqueueEvent(e) ==
    LET tail == pendtail <= Len(pending) IN
    IF e.type = "Motion" /\ tail /\ pending[pendtail].type = "Motion"
    THEN pending' = [pending EXCEPT ![pendtail].seq = e.seq] /\ UNCHANGED pendtail
    ELSE /\ pendtail' = IF tail THEN pendtail + 1 ELSE pendtail
         /\ pending' = Append(SubSeq(pending, 1, pendtail' - 1), e)

\* The cell pendtail points to once the event in cell i is taken out.
TailAfter(i) == IF pendtail \in {i, i + 1} THEN i ELSE pendtail - 1

Dequeue(i) == pending' = RemoveAt(pending, i) /\ pendtail' = TailAfter(i)

(***************************************************************************)
(* Events.                                                                 *)
(***************************************************************************)
\* A press of a key that is down is a release and a press.
IsRepeat(e) == e.dev = keyboard /\ e.type = "Press" /\ down[keyboard]

\* e is processed, by the release it stands for if it repeats a key.
Process(e, inPlay) ==
    LET part == IF IsRepeat(e) THEN [e EXCEPT !.type = "Release"] ELSE e
        result == Processed(dev, part)
    IN  /\ dev' = result.dev
        /\ activatingKey' = (activatingKey \/ ActivatesByKey(part))
        /\ down' = IF part.type = "Motion" THEN down
                   ELSE [down EXCEPT ![e.dev] = (part.type = "Press")]
        /\ again' = IF IsRepeat(e) THEN [event |-> e, inPlay |-> inPlay]
                    ELSE IF e.dev = keyboard THEN None ELSE again
        /\ done' = [done EXCEPT ![e.dev] = e.seq]
        /\ playing' = /\ inPlay \/ result.calls
                      /\ Playable(dev', pending') # {} \/ (inPlay /\ IsRepeat(e))

Idle == ~playing /\ again = None /\ closing = None

\* An event of the hardware: a button or key changes, a key repeats, the
\* pointer moves.
Arrives(d, type) ==
    /\ type = "Press" => ~physical[d] \/ d = keyboard
    /\ type = "Release" => physical[d]
    /\ type = "Motion" => d = pointer
    /\ physical' = IF type = "Motion" THEN physical
                   ELSE [physical EXCEPT ![d] = (type = "Press")]
    /\ seq < MaxEvents /\ seq' = seq + 1

DeviceEvent(d, type) ==
    LET e == [dev |-> d, type |-> type, seq |-> seq + 1] IN
    /\ Idle /\ Arrives(d, type)
    /\ IF dev[d].frozen
       THEN EnqueueEvent(e) /\ UNCHANGED <<dev, activatingKey, down, again, done, playing>>
       ELSE UNCHANGED <<pending, pendtail>> /\ Process(e, FALSE)
    /\ UNCHANGED <<passive, replay, closing, connected>>

\* The press of a repeated key: to processInputProc, which may be EnqueueEvent
\* by now; XKB processes it at once.
SecondHalf ==
    /\ again # None /\ (again.inPlay \/ ~playing)
    /\ IF noXkbExtension /\ dev[keyboard].frozen
       THEN /\ EnqueueEvent(again.event) /\ again' = None
            /\ playing' = (again.inPlay /\ Playable(dev, pending') # {})
            /\ UNCHANGED <<dev, activatingKey, down, done>>
       ELSE UNCHANGED <<pending, pendtail>> /\ Process(again.event, again.inPlay)
    /\ UNCHANGED <<passive, replay, closing, connected, physical, seq>>

\* ComputeFreezes: the event to be replayed comes first, to the windows below
\* that of the grab it was reported to.
PlayReplay ==
    LET e == replay.event
        result == IF replay.window = 0 THEN Ungrabbed(dev, e, Depth + 1)
                  ELSE Ungrabbed(dev, e, replay.window + 1)
    IN  /\ playing /\ replay # None
        /\ dev' = result.dev /\ replay' = None
        /\ playing' = (Playable(dev', pending) # {})
        /\ UNCHANGED <<activatingKey, passive, pending, pendtail, again, closing, connected, down,
                       physical, seq, done>>

\* PlayReleasedEvents: one event, then from the head of the queue again.
PlayReleasedEvent ==
    /\ playing /\ replay = None /\ (again # None => ~again.inPlay)
    /\ \E i \in Playable(dev, pending) :
          /\ \A j \in Playable(dev, pending) : i <= j
          /\ Dequeue(i) /\ Process(pending[i], TRUE)
    /\ UNCHANGED <<passive, replay, closing, connected, physical, seq>>

(***************************************************************************)
(* Requests.                                                               *)
(***************************************************************************)
\* The request has changed the devices to D and called ComputeFreezes.
ComputeFreezes(D) ==
    /\ dev' = D /\ playing' = (Playable(D, pending) # {})
    /\ UNCHANGED <<activatingKey, passive, pending, pendtail, again, connected, down, physical,
                   seq, done>>

\* ProcGrabPointer, ProcGrabKeyboard (GrabDevice).
GrabDevice(c, d, w, thisMode, otherMode) ==
    /\ Idle /\ c \in connected
    /\ dev[d].grab = None \/ GrabbedBy(dev, d, c)
    /\ dev[d].frozen /\ dev[d].other # None => FrozenFor(dev, d, c)
    /\ ComputeFreezes(Activate(dev, d, [client |-> c, window |-> w], thisMode, otherMode, FALSE))
    /\ UNCHANGED <<replay, closing>>

\* ProcUngrabPointer, ProcUngrabKeyboard.
UngrabDevice(c, d) ==
    /\ Idle /\ c \in connected /\ GrabbedBy(dev, d, c)
    /\ ComputeFreezes(Deactivate(dev, d))
    /\ UNCHANGED <<replay, closing>>

\* AllowSome: the client has the device frozen by its own grab of it, or by
\* that of another device.
ThisFrozen(c, d) == GrabbedBy(dev, d, c) /\ dev[d].state \in FrozenStates
ThisSynced(c, d) == \E x \in Devices \ {d} : GrabbedBy(dev, x, c) /\ dev[d].other = x
Allows(c, d) == Idle /\ c \in connected /\ (ThisFrozen(c, d) \/ ThisSynced(c, d))

OthersFrozen(c, d) ==
    \A x \in Devices \ {d} :
        IF GrabbedBy(dev, x, c) THEN dev[x].state \in FrozenStates ELSE FrozenFor(dev, x, c)

\* Device x is let go by client c: its grab gets a state, and what else c has
\* frozen it with is forgotten.
LetGo(x, c, state) ==
    [dev[x] EXCEPT !.state = IF GrabbedBy(dev, x, c) THEN state ELSE @,
                   !.other = Without(dev, x, c)]

\* AsyncPointer and AsyncKeyboard, SyncPointer and SyncKeyboard.
AllowThis(c, d, state) ==
    /\ Allows(c, d) /\ (state = "FREEZE_NEXT_EVENT" => GrabbedBy(dev, d, c))
    /\ ComputeFreezes(FreezeThaw([dev EXCEPT
           ![d].state = IF GrabbedBy(dev, d, c) THEN state ELSE @,
           ![d].other = IF ThisSynced(c, d) THEN None ELSE @]))
    /\ UNCHANGED <<replay, closing>>

\* AsyncBoth, SyncBoth.
AllowBoth(c, state) ==
    /\ Allows(c, keyboard) /\ OthersFrozen(c, keyboard)
    /\ ComputeFreezes(FreezeThaw([x \in Devices |-> LetGo(x, c, state)]))
    /\ UNCHANGED <<replay, closing>>

\* ReplayPointer, ReplayKeyboard.
Replay(c, d) ==
    /\ Allows(c, d) /\ GrabbedBy(dev, d, c) /\ dev[d].state = "FROZEN_WITH_EVENT"
    /\ replay' = [event |-> dev[d].event, window |-> dev[d].grab.window]
    /\ dev' = Deactivate([dev EXCEPT ![d].other = IF ThisSynced(c, d) THEN None ELSE @], d)
    /\ playing' = TRUE
    /\ UNCHANGED <<activatingKey, passive, pending, pendtail, again, closing, connected, down,
                   physical, seq, done>>

\* CloseDownClient: ReleaseActiveGrabs, which each time plays what is released,
\* until the client has no grab; only then are its passive grabs removed.
CloseDownClient(c) ==
    /\ Idle /\ c \in connected /\ closing' = c
    /\ UNCHANGED <<dev, activatingKey, passive, pending, pendtail, playing, replay, again,
                   connected, down, physical, seq, done>>

Closing == closing # None /\ ~playing /\ again = None

\* (mutant of StillGrabbed) Passive grabs that are active are left.
StillGrabbedActively == {d \in Devices : GrabbedBy(dev, d, closing) /\ ~dev[d].fromPassive}

\* ReleaseActiveGrabs: the devices the client has grabbed.
StillGrabbed == {d \in Devices : GrabbedBy(dev, d, closing)}

ReleaseActiveGrab(d) ==
    /\ Closing /\ d \in StillGrabbed
    /\ ComputeFreezes(Deactivate(dev, d))
    /\ UNCHANGED <<replay, closing>>

CloseDone ==
    /\ Closing /\ StillGrabbed = {}
    /\ connected' = connected \ {closing} /\ closing' = None
    /\ passive' = {g \in passive : g.client # closing}
    /\ UNCHANGED <<dev, activatingKey, pending, pendtail, playing, replay, again, down, physical,
                   seq, done>>

----------------------------------------------------------------------------
Requests(c) ==
    \/ \E d \in Devices, w \in GrabWindows, m, n \in Modes : GrabDevice(c, d, w, m, n)
    \/ \E d \in Devices : UngrabDevice(c, d) \/ Replay(c, d)
    \/ \E d \in Devices, s \in {"THAWED", "FREEZE_NEXT_EVENT"} : AllowThis(c, d, s)
    \/ \E s \in {"THAWED", "FREEZE_BOTH_NEXT_EVENT"} : AllowBoth(c, s)
    \/ CloseDownClient(c)

\* What the server does before it looks at anything new.
GoesOn ==
    \/ SecondHalf \/ PlayReplay \/ PlayReleasedEvent
    \/ (\E d \in Devices : ReleaseActiveGrab(d)) \/ CloseDone

Next ==
    \/ \E d \in Devices, type \in {"Press", "Release", "Motion"} : DeviceEvent(d, type)
    \/ \E c \in Clients : Requests(c)
    \/ GoesOn

Spec == Init /\ [][Next]_vars
FairSpec == Spec /\ WF_vars(GoesOn)

(***************************************************************************)
(* Properties.                                                             *)
(***************************************************************************)
\* Every variable has its type.
TypeOK ==
    /\ dev \in [Devices -> DeviceRec] /\ activatingKey \in BOOLEAN /\ passive \subseteq PassiveGrabs
    /\ pending \in Seq(Event) /\ pendtail \in Nat \ {0}
    /\ playing \in BOOLEAN /\ closing \in connected \cup {None} /\ connected \subseteq Clients
    /\ replay \in [event : Event, window : 0..Depth] \cup {None}
    /\ again \in [event : Event, inPlay : BOOLEAN] \cup {None}
    /\ down \in [Devices -> BOOLEAN] /\ physical \in [Devices -> BOOLEAN]
    /\ seq \in 0..MaxEvents /\ done \in [Devices -> 0..MaxEvents]

\* A device is frozen exactly when its grab is or another device's grab has it
\* frozen, and that grab is active: no grab that has ended leaves a device
\* frozen that nobody could thaw (Deactivate*Grab, CheckGrabForSyncs).
FreezesAccounted ==
    \A d \in Devices :
        /\ dev[d].frozen <=> dev[d].other # None \/ dev[d].state \in FrozenStates
        /\ dev[d].grab = None <=> dev[d].state = "NOT_GRABBED"
        /\ dev[d].other # None => dev[d].other # d /\ dev[dev[d].other].grab # None

\* When the server has done with a request or an event, no event waits whose
\* device is not frozen: none is forgotten in the queue (ComputeFreezes).
NothingHeldBack == Idle => \A i \in 1..Len(pending) : dev[pending[i].dev].frozen

\* pendtail points to the last event or to the empty cell after it: the next
\* event overwrites none and is reached from the head (PlayReleasedEvents).
TailAtEnd == pendtail \in {Len(pending), Len(pending) + 1} \ {0}

\* The event kept for a replay has the button or the key as it is now: it is the
\* last half to be processed if its event repeats a key.
LastHalf(d) == dev[d].event.type = IF down[d] THEN "Press" ELSE "Release"

\* XkbProcessKeyboardEvent has gone on to the press of the key whose release is
\* kept, although the release has frozen the keyboard.
OvertakenByPress(d) ==
    d = keyboard /\ ~noXkbExtension /\ dev[d].event.type = "Release" /\ down[d]

Keeps(d) == dev[d].state = "FROZEN_WITH_EVENT"

\* The event kept for a replay is the last that was processed of its device:
\* nothing has come after it, but for the press of a repeated key where XKB
\* processes it behind the release.
ReplayIsLatest ==
    \A d \in Devices : Keeps(d) =>
        /\ dev[d].event.dev = d /\ dev[d].event.seq = done[d]
        /\ LastHalf(d) \/ OvertakenByPress(d)

\* From the protocol: once an event is reported to the client the device appears
\* to freeze again; so nothing is processed after the event that is kept.
KeptIsLast ==
    \A d \in Devices : Keeps(d) => dev[d].event.seq = done[d] /\ LastHalf(d)

\* A client that has gone has no grab, active or passive: the devices are
\* never frozen for somebody who cannot allow events (ReleaseActiveGrabs).
GoneHasNoGrab ==
    /\ \A d \in Devices : dev[d].grab # None => dev[d].grab.client \in connected
    /\ \A g \in passive : g.client \in connected

\* The events of a device are processed in the order they came in.
InOrder == [][\A d \in Devices : done'[d] >= done[d]]_vars

\* When all events are processed, the key and the button are what the hardware
\* last said they are.
KeysMatch ==
    Idle => \A d \in Devices :
        (\A i \in 1..Len(pending) : pending[i].dev # d) => down[d] = physical[d]

\* CloseDownClient comes to an end, although each grab it releases may play
\* events that activate another of the client's passive grabs.
CloseEnds == closing # None ~> closing = None
================================================================================
