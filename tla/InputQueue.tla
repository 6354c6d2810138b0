------------------------------ MODULE InputQueue ------------------------------
(***************************************************************************)
(* The hardware event queue of the X server, mi/mieq.c (the XFree86 DDX    *)
(* keeps a copy of it, xf86eqEnqueue / xf86eqProcessInputEvents).          *)
(*                                                                         *)
(* The SIGIO handler of the pointing device calls mieqEnqueue while the    *)
(* server's only thread may be anywhere inside mieqProcessInputEvents.     *)
(* The handler runs to completion, so an enqueue is one step; the main     *)
(* thread can be interrupted between any two of its accesses to the ring,  *)
(* so it takes one step per access.                                        *)
(***************************************************************************)
EXTENDS Integers, Sequences

CONSTANTS
    QUEUE_SIZE,   \* slots of the ring (256 in the code)
    Screens,      \* the screens of the server
    Screen0,      \* screenInfo.screens[0]
    NoScreen,     \* the NULL pScreen of a slot never written
    Times,        \* time stamps a device may put on an event
    InitTime,     \* GetTimeInMillis() when mieqInit ran
    MaxEvents     \* bound: events the devices generate in a behaviour

ASSUME QueueSizeAssumption == QUEUE_SIZE \in Nat /\ QUEUE_SIZE >= 2
ASSUME ScreenAssumption == Screen0 \in Screens /\ NoScreen \notin Screens
ASSUME TimeAssumption == Times \subseteq Nat /\ InitTime \in Nat

VARIABLES
    head, tail,          \* miEventQueue.head, .tail
    lastMotion,          \* miEventQueue.lastMotion
    slots,               \* miEventQueue.events[]
    enqueueScreen,       \* miEventQueue.pEnqueueScreen
    dequeueScreen,       \* miEventQueue.pDequeueScreen
    pc,                  \* where the main thread is in mieqProcessInputEvents
    xe,                  \* its local copy of the event, read in two halves
    log,                 \* history: what became of every event generated
    runs,                \* history: the events merged into each slot
    last                 \* history: the most recent dispatch

queueVars == <<head, tail, lastMotion, slots>>
screenVars == <<enqueueScreen, dequeueScreen>>
histVars == <<log, runs, last>>
vars == <<queueVars, screenVars, pc, xe, histVars>>

Index == 0 .. QUEUE_SIZE - 1
Event == [id : Nat, motion : BOOLEAN, time : Nat]
Slot == [ev : Event, screen : Screens \cup {NoScreen}]

(* What becomes of an event: still owed to the main thread; tossed because *)
(* the ring was full; overwritten by a later motion; handed to a device;   *)
(* consumed as a change of screen.                                         *)
Fates == {"queued", "tossed", "merged", "device", "screen"}

(* The main thread's copy of an event, and where it will take it.          *)
Copy == [fst : Event, snd : Event, to : {"device", "screen"}]

(* The main thread is out of mieqProcessInputEvents, at the loop's test,   *)
(* at the comparison of the screens, about to take the new screen, about   *)
(* to read the first or the second half of the event, or about to advance. *)
Places == {"out", "test", "compare", "take", "read1", "read2", "advance"}

NoEvent == [id |-> 0, motion |-> FALSE, time |-> 0]
NoCopy == [fst |-> NoEvent, snd |-> NoEvent, to |-> "device"]

Succ(i) == IF i = QUEUE_SIZE - 1 THEN 0 ELSE i + 1
Pred(i) == IF i = 0 THEN QUEUE_SIZE - 1 ELSE i - 1

(* How far slot i is behind the head, and whether it holds a queued event. *)
Dist(i) == IF head <= i THEN i - head ELSE i + QUEUE_SIZE - head
InQueue(i) == i \in Index /\ Dist(i) < Dist(tail)

Init ==
    /\ head = 0 /\ tail = 0
    /\ lastMotion = FALSE
    /\ slots = [i \in Index |-> [ev |-> NoEvent, screen |-> NoScreen]]
    /\ enqueueScreen = Screen0 /\ dequeueScreen = Screen0
    /\ pc = "out"
    /\ xe = NoCopy
    /\ log = <<>>
    /\ runs = [i \in Index |-> {}]
    /\ last = NoCopy

-----------------------------------------------------------------------------
(* mieqEnqueue, called by a device handler that nothing interrupts.        *)

CoalescesWithKey(motion) == motion /\ tail # head        \* mutant of Coalesces
CoalescesWithTaken(motion) == motion /\ lastMotion      \* mutant of Coalesces
Coalesces(motion) == motion /\ lastMotion /\ tail # head

Full == Succ(tail) = head

(* The clamp that keeps times from going below the time of mieqInit.       *)
Stamp(t) == IF t < InitTime /\ InitTime - t < 10000 THEN InitTime ELSE t

Store(i, ev, screen) == slots' = [slots EXCEPT ![i] = [ev |-> ev, screen |-> screen]]

Logged(ev, fate) == [motion |-> ev.motion, fate |-> fate]

(* The log with the fate of event n changed.                               *)
Refated(n, fate) == [log EXCEPT ![n].fate = fate]

NewEvent(motion, t) == [id |-> Len(log) + 1, motion |-> motion, time |-> Stamp(t)]

(* A motion behind a motion overwrites it.                                 *)
Merge(ev, screen) ==
    LET newest == Pred(tail) IN
    /\ Coalesces(ev.motion)
    /\ Store(newest, ev, screen)
    /\ log' = Append(Refated(slots[newest].ev.id, "merged"), Logged(ev, "queued"))
    /\ runs' = [runs EXCEPT ![newest] = @ \cup {ev.id}]
    /\ lastMotion' = ev.motion
    /\ UNCHANGED <<head, tail>>

Publish(ev, screen) ==
    /\ ~Coalesces(ev.motion) /\ ~Full
    /\ tail' = Succ(tail)
    /\ lastMotion' = ev.motion
    /\ Store(tail, ev, screen)
    /\ log' = Append(log, Logged(ev, "queued"))
    /\ runs' = [runs EXCEPT ![tail] = {ev.id}]
    /\ UNCHANGED head

TossLate(ev) ==
    /\ ~Coalesces(ev.motion) /\ Full
    /\ log' = Append(log, Logged(ev, "tossed"))
    /\ UNCHANGED <<queueVars, runs>>

Enqueue(motion, t, screen) ==
    LET ev == NewEvent(motion, t)
    IN  Merge(ev, screen) \/ Publish(ev, screen) \/ TossLate(ev)

(* miPointerAbsoluteCursor: a motion that may leave its screen first       *)
(* switches the enqueue screen (mieqSwitchScreen(screen, FALSE)).          *)
Motion(t, screen) ==
    /\ Len(log) < MaxEvents
    /\ enqueueScreen' = screen
    /\ Enqueue(TRUE, t, screen)
    /\ UNCHANGED <<dequeueScreen, pc, xe, last>>

(* A key or a button.                                                      *)
KeyOrButton(t) ==
    /\ Len(log) < MaxEvents
    /\ Enqueue(FALSE, t, enqueueScreen)
    /\ UNCHANGED <<screenVars, pc, xe, last>>

(* miPointerWarpCursor, from a request or from the handler of an event     *)
(* just dispatched, with the signal held: the DIX moves the pointer to     *)
(* another screen (mieqSwitchScreen(screen, TRUE)), and the sprite's new   *)
(* position is queued as a motion when the caller asked for an event.  (A  *)
(* warp inside the screen that asks for one is Motion on that screen.)     *)
Warp(t, screen, generateEvent) ==
    /\ pc \in {"out", "test"}
    /\ screen # enqueueScreen
    /\ enqueueScreen' = screen /\ dequeueScreen' = screen
    /\ IF generateEvent
       THEN Len(log) < MaxEvents /\ Enqueue(TRUE, t, screen)
       ELSE UNCHANGED <<queueVars, log, runs>>
    /\ UNCHANGED <<pc, xe, last>>

-----------------------------------------------------------------------------
(* mieqProcessInputEvents, one access to the ring at a time.               *)

(* Mutant of Enter: the indices are compared as if they never wrapped.     *)
EnterUnwrapped ==
    /\ pc = "out" /\ head < tail
    /\ pc' = "test"
    /\ UNCHANGED <<queueVars, screenVars, xe, histVars>>

(* ProcessInputEvents is called when the two indices differ.               *)
Enter ==
    /\ pc = "out" /\ head # tail
    /\ pc' = "test"
    /\ UNCHANGED <<queueVars, screenVars, xe, histVars>>

Test ==
    /\ pc = "test"
    /\ pc' = IF head # tail THEN "compare" ELSE "out"
    /\ UNCHANGED <<queueVars, screenVars, xe, histVars>>

Compare ==
    /\ pc = "compare"
    /\ \/ /\ slots[head].screen # dequeueScreen
          /\ pc' = "take"
          /\ xe' = [NoCopy EXCEPT !.to = "screen"]
       \/ /\ slots[head].screen = dequeueScreen
          /\ pc' = "read1"
          /\ xe' = NoCopy
    /\ UNCHANGED <<queueVars, screenVars, histVars>>

(* The screen is read from the slot a second time here.                    *)
TakeScreen ==
    /\ pc = "take"
    /\ dequeueScreen' = slots[head].screen
    /\ pc' = "read1"
    /\ UNCHANGED <<queueVars, enqueueScreen, xe, histVars>>

(* xe = e->event, or x and y out of e->event on a change of screen.        *)
ReadFirst ==
    /\ pc = "read1"
    /\ xe' = [xe EXCEPT !.fst = slots[head].ev]
    /\ pc' = "read2"
    /\ UNCHANGED <<queueVars, screenVars, histVars>>

ReadSecond ==
    /\ pc = "read2"
    /\ xe' = [xe EXCEPT !.snd = slots[head].ev]
    /\ pc' = "advance"
    /\ UNCHANGED <<queueVars, screenVars, histVars>>

(* Mutant of Advance: head stays behind when the screen changed.           *)
AdvanceEventsOnly ==
    /\ pc = "advance"
    /\ head' = IF xe.to = "screen" THEN head ELSE Succ(head)
    /\ pc' = "test"
    /\ last' = xe
    /\ log' = Refated(xe.fst.id, xe.to)
    /\ UNCHANGED <<tail, lastMotion, slots, screenVars, xe, runs>>

(* ++head, then NewCurrentScreen or the device's processInputProc: nothing *)
(* the interrupt writes is read once head has moved on.                    *)
Advance ==
    /\ pc = "advance"
    /\ head' = Succ(head)
    /\ pc' = "test"
    /\ last' = xe
    /\ log' = Refated(xe.fst.id, xe.to)
    /\ UNCHANGED <<tail, lastMotion, slots, screenVars, xe, runs>>

-----------------------------------------------------------------------------
Devices ==
    \/ \E t \in Times, screen \in Screens : Motion(t, screen)
    \/ \E t \in Times : KeyOrButton(t)

MainLoop ==
    \/ Enter
    \/ Test
    \/ Compare
    \/ TakeScreen
    \/ ReadFirst
    \/ ReadSecond
    \/ Advance

Next ==
    \/ Devices
    \/ \E t \in Times, screen \in Screens, g \in BOOLEAN : Warp(t, screen, g)
    \/ MainLoop

(* Only the main loop is fair: it polls the indices on every turn of       *)
(* Dispatch, while no device has to generate anything.                     *)
Spec == Init /\ [][Next]_vars

FairSpec == Spec /\ WF_vars(MainLoop)

-----------------------------------------------------------------------------
TypeOK ==
    /\ head \in Index /\ tail \in Index
    /\ lastMotion \in BOOLEAN
    /\ slots \in [Index -> Slot]
    /\ enqueueScreen \in Screens
    /\ dequeueScreen \in Screens \cup {NoScreen}
    /\ pc \in Places
    /\ xe \in Copy
    /\ log \in Seq([motion : BOOLEAN, fate : Fates])
    /\ runs \in [Index -> SUBSET Nat]
    /\ last \in Copy

(* The ring between head and tail holds the events still owed, oldest      *)
(* first, each one later than every event already dispatched and meant for *)
(* a real screen.                                                          *)
RingInOrder ==
    /\ dequeueScreen # NoScreen
    /\ last.fst.id <= Len(log)
    /\ \A i \in Index : InQueue(i) =>
          LET ev == slots[i].ev IN
          /\ ev.id \in 1 .. Len(log)
          /\ log[ev.id].fate = "queued"
          /\ log[ev.id].motion = ev.motion
          /\ slots[i].screen # NoScreen
          /\ last.fst.id < ev.id
    /\ \A i, j \in Index :
          InQueue(i) /\ InQueue(j) /\ Dist(i) < Dist(j) => slots[i].ev.id < slots[j].ev.id

(* While the main thread is inside the loop body there is an event at      *)
(* head, and its copy is that event or one that was merged into it.        *)
CopyIsHead ==
    /\ pc \in {"compare", "take", "read1", "read2", "advance"} => head # tail
    /\ pc \in {"read2", "advance"} =>
          /\ last.fst.id < xe.fst.id
          /\ xe.fst.id <= slots[head].ev.id
          /\ xe.fst.motion = slots[head].ev.motion
          /\ ~xe.fst.motion => xe.fst = slots[head].ev

(* lastMotion speaks of the newest slot, as long as that slot is queued.   *)
LastMotionHonest == head # tail => (lastMotion <=> slots[Pred(tail)].ev.motion)

(* No key or button that entered the ring is overwritten by a motion, nor  *)
(* lost when the handler interrupts the loop: only a motion is ever merged *)
(* away, and a key stays in the ring until the loop takes it out.          *)
KeysSurvive ==
    \A n \in 1 .. Len(log) :
        ~log[n].motion =>
            /\ log[n].fate # "merged"
            /\ log[n].fate = "queued" => \E i \in Index : InQueue(i) /\ slots[i].ev.id = n

(* A copy whose halves are of two events is of two motions.                *)
NeverMixed(copy) ==
    /\ copy.fst.motion = copy.snd.motion
    /\ ~copy.fst.motion => copy.fst = copy.snd

(* The event the loop is about to hand over, and the one it handed over    *)
(* last, were copied whole if they are a key or a button, though the       *)
(* handler may have come between the two halves.                           *)
KeysWhole == NeverMixed(last) /\ (pc = "advance" => NeverMixed(xe))

QueueInv == RingInOrder /\ CopyIsHead /\ LastMotionHonest /\ KeysSurvive /\ KeysWhole

(* Events reach the devices in the order they were generated, none twice,  *)
(* whatever the handler does between two reads of the loop.                *)
DispatchInOrder == [][last' # last => last.fst.id < last'.fst.id]_vars

(* Every key or button that entered the ring is taken out of it by the     *)
(* loop, however many motions are merged behind it meanwhile.              *)
KeysTaken ==
    \A n \in 1 .. MaxEvents :
        (n <= Len(log) /\ log[n].fate = "queued" /\ ~log[n].motion) ~>
            (n <= Len(log) /\ log[n].fate \in {"device", "screen"})

-----------------------------------------------------------------------------
(* What comments of the file claim and the code does not keep.             *)

(* "Must be reentrant with ProcessInputEvents": the handler may merge a    *)
(* motion into the slot whose event the loop has already copied; head then *)
(* steps over it and the motion is neither dispatched nor tossed.          *)
NothingLost ==
    \A n \in 1 .. Len(log) :
        log[n].fate = "queued" => \E i \in Index : InQueue(i) /\ slots[i].ev.id = n

(* "Assumption - screen switching can only occur on motion events": the    *)
(* loop consumes an event whose screen differs as a change of screen, so   *)
(* a key or button consumed that way never reaches its device.             *)
SwitchesOnlyOnMotion == last.to = "screen" => last.fst.motion
=============================================================================
