# A TLA+ verification project for the XFree86 X server

The repository is the XFree86 4.5 source tree. Its program is the X server: one
process with one thread, serving many clients over stream connections, driven by
`select` and interrupted by a SIGIO handler. This project models the part of the
server in which every state change of a client, a connection or an input event
is decided: `os`, `dix` and the device independent input queue of `mi`. Paths
are relative to `src/source/programs/Xserver/` unless they start with `src/`.

Modelled: the hardware input queue, the client scheduler with server grabs, the
output buffers, the work queue, the grabs and freezing of devices, the SYNC
extension, and both sides of XDMCP (the display's automaton in the server and the
manager in `src/source/programs/xdm/`). All are model-checked with TLC; every
safety invariant, every action property and both refinements are also proved with
TLAPS for all values of their constants.

## 1. Inventory

### 1.1 Components, their state and operations

| Component | State | Operations | Interacts with | Correct when |
|---|---|---|---|---|
| Hardware input queue (`mi/mieq.c`, copied in `hw/xfree86/common/xf86Xinput.c`) | ring of events with `head`, `tail`, `lastMotion`, enqueue and dequeue screen | `mieqEnqueue` (SIGIO), `mieqProcessInputEvents` (main thread), `mieqSwitchScreen` | `mi/mipointer.c`, the devices' `processInputProc` | order kept, no key or button lost once in the ring, tossing only when full |
| Client scheduler (`dix/dispatch.c`, `os/connection.c`, `os/WaitFor.c`) | `clients[]`, `ConnectionTranslation[]`, the descriptor sets and their `Saved*` copies, `grabState`, `grabClient`, `grabWaiters`, `dispatchException`, `nClients`, `nextFreeClientID` | wait, accept, set up, run requests, close, grab and ungrab the server, ignore and attend a client, make it (im)pervious, kill, retain, reset | everything: requests run inside it | sets name open connections only, nobody forgotten, grabs exclude, counts right, reset only when nobody is left |
| Work queue, sleep queue, callbacks, block handlers (`dix/dixutils.c`) | linked lists | `QueueWorkProc`, `ProcessWorkQueue`, `ProcessWorkQueueZombies`, `ClientSleep`, `ClientSignal`, `ClientWakeup` | ignores and attends clients | every procedure called once, lists survive nested removal |
| Smart scheduler (`dix/dispatch.c`, `os/utils.c`) | priority, ticks and slice per client | `SmartScheduleClient`, the interval timer | picks from the round | no ready client starves |
| Timers (`os/WaitFor.c`) | sorted list of expiry times that wrap | `TimerSet`, `TimerForce`, `TimerCancel`, `TimerCheck`, `DoTimer` | `WaitForSomething` | each fires once, in order, also across the wrap |
| Request input buffers (`os/io.c`) | per client `ConnectionInput`, shared `AvailableInput` | `ReadRequestFromClient`, `InsertFakeRequest`, `ResetCurrentRequest` | `ClientsWithInput` | requests neither lost nor split wrongly |
| Reply output buffers (`os/io.c`) | per client `ConnectionOutput`, `OutputPending`, `ClientsWriteBlocked` | `WriteToClient`, `FlushClient`, `FlushAllOutput` | write set of select, `MarkClientException` | bytes in order, none lost over partial writes |
| Resource table (`dix/resource.c`) | per client hash | add, free (by id, type, client), look up, new id, rebuild | close-down, every extension | each resource deleted once, count exact |
| Device grabs, synchronous replay (`dix/events.c`, `dix/grabs.c`) | grab and freeze state per device, held events | grab, ungrab, allow events, freeze, replay | input queue, close-down | held events replayed in order, no device frozen for ever |
| SYNC (`Xext/sync.c`) | counters, triggers, awaits, alarms | set, change, await, alarm | ignores and attends clients | lists hold triggers that exist, every true one fires, who waits is ignored |
| XDMCP (`os/xdmcp.c`, `src/source/programs/xdm/`) | automaton, timeouts, retransmissions; the manager's sessions | query, willing, request, accept, manage, keepalive | work queue, reset | the two sides agree on a session |

`PROJECT.json` names the module of each, and what of it is left out. Resource
table, request input buffers, timers and smart scheduler have no module yet.
Also in the tree, without a module planned: request handlers on windows,
properties, atoms, colormaps and drawing contexts, fonts, other extensions, low
bandwidth X, access control, device drivers, rendering, ICE and session
management, client libraries, font server, and other programs. `PROJECT.json`
gives the reason for each.

### 1.2 Hard behaviours

* The SIGIO handler runs between any two instructions of the main thread, and
  the input queue has no lock.
* The scheduler keeps redundant sets of descriptors, two generations of them
  while a server grab is on, and edits them from requests, work procedures,
  close-downs and the result of `select`.
* A client may be killed, may kill another, and may grab the server, while
  others are in the list of ready clients of the same round.
* A failed write closes a connection and leaves its descriptor in every set; the
  kernel may give it to the next connection before anyone has cleaned up.
* A client that sleeps, one that waits for the grab and one that an extension
  ignores are all "ignored" by the same sets.
* Nested scans of the work queue unlink and free cells while outer scans hold
  pointers into it.
* A write may stop anywhere; what is left must stay in a set somebody looks at.
* Replaying one held event may freeze, thaw, grab or release the devices whose
  queue is being replayed.
* An alarm or await that fires edits the list of triggers that is being walked,
  deleting a trigger cuts off those in front of it, and a request may fail after it
  has registered some of its triggers.
* Display and manager talk over datagrams that are lost, duplicated and late, and
  the manager may be restarted between any two of them.
* Clients that are being set up, that run, and whose resources are retained are
  counted differently, and the count decides the reset.

## 2. Modules

| Module | Content |
|---|---|
| `InputQueue` | `mi/mieq.c` and the ways events get into it |
| `InputFIFO` | its promise: a bounded FIFO that joins motions |
| `MCInputQueue` | the refinement mapping, and the module TLC runs |
| `InputQueueProofs` | proofs about `InputQueue`, and the refinement |
| `ClientMasks` | the descriptor sets of `os/connection.c` and the operations on them, as functions from sets to sets |
| `ClientScheduler` | the life of clients: `WaitForSomething`, `EstablishNewConnections`, `Dispatch`, requests, close-down, reset (EXTENDS `ClientMasks`) |
| `ServerGrab` | its promise: one holder, nobody else served |
| `MCClientScheduler` | the refinement mapping, and the module TLC runs |
| `ClientSchedulerProofs` | proofs about sets, slots, counts and reset |
| `ClientServedProofs` | proofs about server grabs, with the refinement, and about who is heard, who is served and what is remembered |
| `OutputBuffers` | `os/io.c`: replies from `WriteToClient` to the peer, partial writes, failed writes and reused descriptors |
| `OutputBuffersProofs` | proofs about `OutputBuffers` |
| `WorkQueue` | `dix/dixutils.c`: the work queue as linked cells, sleeping clients, scans inside scans |
| `WorkQueueProofs` | proofs about `WorkQueue` |
| `XdmcpSession` | `os/xdmcp.c` and xdm over a faulty network |
| `XdmcpSessionProofs` | proofs about `XdmcpSession` |
| `DeviceFreeze` | `dix/events.c`, `xkb/xkbPrKeyEv.c`: grabs, freezing, held events, replay |
| `MCDeviceFreeze` | the clients and passive grabs TLC runs it with |
| `DeviceFreezeProofs` | proofs about `DeviceFreeze` |
| `SyncCounters` | `Xext/sync.c`: counters, triggers, alarms, awaits, SERVERTIME |
| `MCSyncCounters` | the conditions and attributes TLC runs it with |
| `SyncCountersProofs` | proofs about `SyncCounters` |

How they fit together: `ClientScheduler` is the frame, one client's request after
another. The others look into a part that it abstracts: `OutputBuffers` into the
failed write that closes a connection (fault `WriteFails`), `WorkQueue` into its
set of queued procedures and its sleeping clients, `SyncCounters` into who is
ignored and attended to, `DeviceFreeze` into what becomes of the events
`InputQueue` delivers, `XdmcpSession` into where a first connection and a reset
come from.

`(mutant of X)` in a comment marks an alternative definition of X with a bug that
such code may plausibly have; no specification uses it. Substituting it for X
shows that a property can tell the difference.

### 2.1 The input queue

The handler runs to completion, so an enqueue is one action (`Motion`,
`KeyOrButton`, ending in `Merge`, `Publish` or `TossLate`). The main thread can be
interrupted anywhere, so `mieqProcessInputEvents` takes one action per access to
the ring: `Test` (the loop condition), `Compare` (screens), `TakeScreen` (which
reads the slot a second time), `ReadFirst` and `ReadSecond` (the copy
`xe = e->event` is of several words, here two), `Advance`. `Warp` is
`miPointerWarpCursor` moving to another screen, called between events with the
signal held. Events carry an identity, whether they are motions, and a time;
`log`, `runs` and `last` are history and steer nothing. In `log` the event that a
motion is merged over gets the fate "merged", whatever it is; `KeysSurvive` says that
it is no key or button, `KeysWhole` that a copied key is not of two halves.

### 2.2 The client scheduler

The server is one thread; `pc` says where it is. An action is a stretch of code
between two points where something else can matter: a return of `select`, the
reading of a request, the execution of one, a close-down. An action contains every
call its code makes: `CloseDownClient` includes `UngrabServer`, the waking of a
waiter, the zombies of the work queue, the descriptor sets and the slot.

`m` is the static state of `os/connection.c`, `clients` joins each `ClientRec` with
what the OS layer keeps of it: `fd = 0` is a NULL `osPrivate`, `open` is a
non-NULL `trans_conn`. `sent` and `hungup` are the peer's end; `buffered` counts
whole requests in the input buffer, `retry` says the first of them is a
`GrabServer` that was put back. `holds`, history, says who was granted the server
and has not let go of it.

What is abstracted, and why that is sound here:

* Peers act only when the server next looks at their socket: waiting with an
  empty work queue, or about to read from that client. Earlier or later is
  indistinguishable to the server.
* A request is told apart when it is executed, not when it is sent.
* The work queue is a set: its procedures are run in any order, and a client is
  in it once at most. `SmartScheduleClient` picks any ready client.
* The time limit for setting a connection up may strike at any later time.
* `ProcInitialConnection` and `ProcEstablishConnection` are one action: the
  first only notes the byte order and changes nothing others can see.
* Reading through a NULL `osPrivate` is no action: the server is dead there, and
  `NeverReadsClosed` says that it does not get there.
* `CheckConnections` goes through a copy of `AllClients` (`checking`); the code takes
  the copy a word of the mask at a time, the model at once.
* `clientReady[]` is a set, used in the order of the descriptors (`IsNextReady`); a client
  that was closed meanwhile may come up at any time.
* Left out: partial requests, requests that end a turn with an error,
  `LastSelectMask`, the write set, timers, failed allocations, LBX, the priority
  changes of SYNC; `dispatchExceptionAtReset` is `DE_RESET`.

### 2.3 The output buffers

`pc` is the thread's stack of procedures; `FlushClient` is split at every `writev`,
so that the peer reads in between. Bytes are numbered per connection, hence loss,
repetition and reordering all show. `Writev` takes any number of bytes the kernel
has room for; `WritevBlocked`, `WritevTooLong` and `WritevFails` are the other
returns, and `AllocateOutputBuffer` may fail. A failed write closes the descriptor
and leaves its number in every set until `CloseDownClient`; `AllocNewConnection` may
be handed the same number before. `OutputPending`, `NewOutputPending`,
`ClientsWriteBlocked` and `AnyClientsWriteBlocked` are kept as in the code. Left
out: `CriticalOutputPending` as a flag (its flush may come between any two
requests), reply callbacks, LBX.

### 2.4 The work queue

`next` is memory: the address of a `next` field is the number of its cell, and 0
for `workQueue` itself, so `workQueueLast` and the scan's `p` may point into a freed
cell, and `PointersLive` can fail. `stack` is the thread; `CloseDownClient`
inside `EstablishNewConnections` inside `ProcessWorkQueue` pushes a scan for zombies
over the outer one. Three procedures are queued: `ClientSleep`'s signal,
`LbxWaitForUngrab` (which asks to be called again) and `EstablishNewConnections`.

### 2.5 XDMCP

The display has one action per message it receives, `timeout`, `KeepAlive` and `XdmcpReset`;
`send_packet` is a function of the state. The manager has one per opcode, the acts of the
children it forks (connect, exit, fail to open, be reaped), `TimeoutProtoDisplays` and `Crash`.
Channels are sets: they reorder; `Taken` may leave a copy, `Lose` drops one. `XdmcpOpenDisplay`
binds the session to the first connection that is authorized, whose ever it is
(`os/xdmcp.c:640`): one of the manager's children (`ChildConnects`) or that of another program
(`OtherConnects`, `Other`). Left out: `-once`, DECLINE and UNWILLING (the server ends),
broadcast and indirect queries, several managers, local displays and the chooser.

### 2.6 Devices

One action carries a request, an event from the hardware or the end of a client through
`ComputeFreezes`; where the code replays held events, the steps (`PlayReplay`,
`PlayReleasedEvent`, `SecondHalf` of a repeated key, `ReleaseActiveGrab` of a close-down) are
actions of their own that exclude everything else, so that what must hold in between can be
stated. `dev` keeps for each device what `DeviceIntRec` keeps under `sync`, its grab, and the
event of `FROZEN_WITH_EVENT`; `pending` and `pendtail` are `syncEvents`. `done`, `down` and
`physical` are history. `activatingKey` says that `CoreProcessKeyboardEvent` has noted the key
as one whose press activated a grab; the replay of a press activates grabs without noting it
(`dix/events.c:1085`), and the release of a key not noted ends no grab. Left out: extension
devices, times, `confineTo`, cursors, event masks, windows that are destroyed, more than one key
and one button, a focus other than PointerRoot.

### 2.7 SYNC

`S` is the extension's state; a request is a function from `S` to `S`, because firing a
trigger changes the list that is walked, releases clients and restarts alarms
within the request. `S.greater`, `S.less` and `S.pnext` are the bracket of SERVERTIME
(`pnext_time` is the upper end of it or NULL), from which `Block` computes the
timeout of select and `Wakeup` what to fire; `Tick` is the clock. `S.alive` is
FALSE once the code would follow a dangling pointer or not leave a loop.

Each loop of the code is a `Walk`, the function that gives the state after the first
i elements: `Fired` (`SyncChangeCounter` looks at the triggers of a list, which take
themselves out of it and their siblings out of others), `AllTold` (`FreeCounter`),
`Conditions` (an Await whose third condition may fail), `Deleted` (the resources of a
client, which delete each other), `Closest` (the bracket). A walk runs over the list
as it was when the loop began. So does the code with its saved `pnext`, as long as
no two conditions of one Await are on one counter (`SyncAssumption`).

`Unlinked` is the loop of `SyncDeleteTriggerFromCounter` as it is written: `pPrev` stays
NULL, so that the list becomes what is behind the trigger that is deleted
(`Xext/sync.c:302-316`). What was in front of it is in no list any more: an alarm
that is never looked at, an await that waits on. So a list says nothing of who
waits, but who is in it does wait (`ListsMatch`), and the properties of lists speak of
what is in them: `NoneOverdue`, `ChangesNoticed`. The latter also bounds the damage
(`KeepsPlace`): a condition of an await is put in the list of its counter and stays
there unless a trigger behind it is deleted. `EveryChangeNoticed` is what the comment
in the code asks for, and is violated (3.2).

A dropped alarm may keep the number of a counter that is freed later. Where the code
would then follow the pointer, `stray` is set, and the step either kills the server
(`alive` FALSE) or does nothing by it (`Becomes`). The dropped await of a freed counter
needs no memory: it only waits. An identifier is not used again while such a
trigger has it (a bound: the new counter would not be the one the pointer means).

`ChangesNoticed` asks of an alarm that it moves its value or becomes inactive when
it goes off; one on a transition with delta 0 stays as it is and only sends its event
(`Moves`, `Xext/sync.c:627-684`). Left out: events and thresholds, `SetPriority`,
partial attribute masks, two conditions of one Await on one counter.

## 3. Runs

### 3.1 Runs that pass

| Run | Question | Bounds | States |
|---|---|---|---|
| `input_queue` | order, no key overwritten, mixed or lost, refinement of `InputFIFO`, whatever waits is taken, every key too | ring of 3, two screens, 4 events | 116 thousand |
| `clients` | sets, nobody forgotten, sleep, counts, slots, reset, kills and retained clients, refinement of `ServerGrab` | smart, 2 clients, 2 descriptors, all faults | 1.6 million |
| `dumb_round` | grabs, kills and impervious clients inside a round; buffered input; no client starves another of the socket | not smart, 2 clients, 2 requests each, no faults | 324 thousand |
| `output_buffers` | streams whole and in order, nothing buffered is forgotten, descriptors reused | 2 connections, 4 bytes each, a socket of 1, a buffer of 2, all outcomes of a write | 1.2 million |
| `work_queue` | list, pointers and stale clients under nested scans; every procedure called | 3 clients, 4 cells, 2 closures, without LBX proxies | 645 thousand |
| `xdmcp_session` | sessions started once and connected, none strays, disagreement found out, display served | 2 sessions, 2 faults, the second of which may be a client that no manager started, limits 2 and 1 | 808 thousand |
| `device_freeze` | freezes accounted for, held events replayed in order, the one kept for a replay is the last, close-down ends | 2 clients, 3 passive grabs, 2 windows, 3 events, XKB | 733 thousand |
| `sync_counters` | who waits is ignored, lists hold what waits, nothing in them overdue, every change noticed there | 2 clients, 1 alarm, 1 counter and SERVERTIME, clock to 2 | 1.5 million |

Why the bounds are enough. A ring of 3 holds two events: it wraps, fills and
empties, and four events suffice for one to be copied, one merged over it, one
behind and one tossed. `MAXCLIENTS` counts the server as client 0.
In `clients` and `dumb_round` two clients are the one that acts and the one that is
acted upon; every request and fault of the module meets every other there. Clients are accepted
and closed without end, and two descriptors for two clients make every new
connection reuse one. Three connected at once no run has; that is left to
the theorems (`SetsCorrect`, `NobodyForgottenCorrect`, `Refinement`). Nobody
waits in `grabWaiters` in `clients`, for only an impervious client is served while another holds the server: the waiting,
and the waking by `UngrabServer`, are in `dumb_round`, with one waiter at a time. Which of
several waiters is woken (`IsFirstWaiter`, the search from the highest word) no run tells
apart; the theorems hold for it as it is, with any number of clients, waiters and words.
`MaxPending` is the number of whole requests in a socket or a buffer: 1 is enough
where only the kind of request matters, 2 where the next one waits in the buffer.
`MAX_TIMES_PER = 2` (10 in the code) lets a turn end both ways.
`output_buffers`: with a socket of one byte and a buffer of two, a write stops in
the buffer, in the data and in the pads, and a second connection gets the
descriptor of the first. `work_queue`: three clients are one whose close-down
scans, one whose procedure is unlinked by it, and one behind; four cells let a
freed one be reused while a scan holds it. `xdmcp_session`: two sessions
are the one that runs and the one that is offered, two faults a duplicate and a restart.
The client that no manager started comes after the first fault (`OtherAfter = {1}`), so
that it meets a datagram lost or doubled or a manager restarted before it; without this
bound there are twice the states, and the theorems have none of it.
`device_freeze`: two passive grabs of the button and one of the key freeze each
other's device in turn, and three events are two of one device and one between. An active
grab is on the first window, so that the replay of an event it has frozen (which looks at the
windows below) activates the passive grabs on the second; the theorems have grabs on any.
`sync_counters`: an alarm and two awaits on one list, in both orders, so that
the deletion of any of them cuts off none, one or two; alarms on a
comparison and on a transition, with and without a delta.
`CHECK_DEADLOCK FALSE` is given where bounded supplies end: the events of
`input_queue` and `device_freeze`, the sessions of XDMCP (the code ends
there too: FatalError), the clock of `sync_counters`.

Fairness. `SocketsDrained` and `KeepsTaking` need the server's thread to go on:
`WF_vars(Server)` and `WF_vars(MainLoop)`. The thread runs whenever `select` or
its own loops let it, and the kernel schedules it; nothing is assumed of peers,
of devices or of single actions. In `ServerGrab` no fairness is assumed; in
`InputFIFO` the reader is weakly fair. `ImplementsFIFO` is its safety part, which is
proved, and `KeepsTaking` its fairness, which TLC checks of the loop, together with
what follows from it for the keys (`KeysTaken`).
`Delivered` needs the thread to go on with what it has begun (weak fairness of
flushing, closing and sleeping), the server to come back to `WaitForSomething`
again and again though requests go on (strong fairness of `Wait`: `Dispatch` gives
each client a bounded turn), and peers that read as long as they are up.
`Drained` needs the scan and the wait to go on. `CloseEnds` needs the steps of a
replay to go on (`GoesOn`); they exclude everything else. XDMCP: datagrams that are
not lost arrive, processes run, timers expire while nothing is under way, and a
REQUEST that is sent again and again is sent at last (strong fairness, as `sendto`
may fail each single time); the number of faults is bounded, as no protocol
answers over a network that loses everything. `sync_await_released` assumes
that time passes, that the server sleeps when it has no more to do, and that
select returns when its timeout has come; the await waits on in spite of it.

### 3.2 Runs that are violated

Each states what a comment or a document says of the program, and TLC finds the
execution in which the code does otherwise.

| Run | What happens |
|---|---|
| `pervious_forgotten` | A client that was woken under a grab while impervious, and then becomes pervious, is in no set when the grab ends. |
| `sync_await_released` | `SyncInitTrigger` reads the clock into SERVERTIME without checking its triggers; an Await whose time has come meanwhile is in no bracket, and waits on. |
| `sync_trigger_dropped` | An alarm is deleted from a list in which a later Await is in front of it; the await is in no list then, and when the counter reaches its value it waits on. |
| `replay_overtaken` | The release of a repeated key is frozen and kept for a replay; XKB processes the press behind it, and ReplayKeyboard brings the release last. |

### 3.3 More that the modules show

These have no run; the definitions named state the claim, and a config with the
constants given finds the execution.

* `InputQueue!NothingLost` (constants of `input_queue`; `mi/mieq.c:80`, "Must be reentrant with
  ProcessInputEvents"): a motion is merged into the slot the loop has just copied, and skipped
  with it.
* `InputQueue!SwitchesOnlyOnMotion` (same; `mi/mieq.c:150`, "screen switching can only occur on
  motion events"): after a warp to another screen a queued key is consumed as a screen switch.
* A motion may be torn: the loop's copy can mix two motions merged while it was copied
  (`ReadFirst`, `ReadSecond`); `KeysWhole` says that this happens to motions only. `Stamp`
  compares every time with that of the initialisation, as `lastEventTime` is assigned nowhere
  else.
* `NeverReadsClosed` without the smart scheduler and with `SetCloseDownMode`: a client that
  retains its resources and is killed earlier in the round is read through a NULL `osPrivate`
  (`dix/dispatch.c:388`).
* `AsleepNotServed` with impervious clients: one asleep under another's grab is heard again when
  the grab ends, out of the saved sets (`os/connection.c:1182`). So is one that sleeps under its
  own grab, when an impervious client ends it; its input is then in `ClientsWithInput` and not
  in `IgnoredClientsWithInput`, against `BufferedRemembered`.
* `WaitersHandedOn` with impervious clients and kills: the waiter that was woken dies before it
  grabs; the others wait on while nobody holds the server (`dix/dispatch.c:1149`).
* `ProcUngrabServer` does not ask who sends it, so an impervious client can end another's grab;
  without impervious clients nobody but the holder is served then, which is what the refinement
  of `ServerGrab` shows.
* `WorkQueue!ClosureLive`: `ClientSignal` twice before the queue is scanned queues the sleep
  procedure twice (`dix/dixutils.c:680`), and the second call gets the closure the first has
  freed (`dix/dispatch.c:3519`). `ddx.tbl.ms:944-946` speaks of "a call".
* `PointersLive` with `"ProxyFails"` in `Events`: with LBX, the close-down of a proxy inside the
  scan closes its clients and frees the cell the outer scan holds, although
  `dix/dixutils.c:575-580` asks to "be reentrant with QueueWorkProc".
* `XdmcpSession!NeverRefusesRunning`: a duplicate MANAGE of the running session is refused when
  a late REQUEST has made a new offer (`xdm/xdmcp.c:1188`).
* In `xdm/dm.c`, `RESERVER_DISPLAY` uses the display after `StopDisplay` may have freed it.
* `InOrder` and `KeysMatch` with `noXkbExtension = TRUE`: the press of a repeated key is queued
  behind events that came later, and the key ends up down. With XKB it is not queued but
  processed, behind a release that has just frozen the keyboard: `replay_overtaken`. Each way of
  handling the repeat breaks what the other one keeps (`KeptIsLast` holds without XKB:
  `ReplayWithoutXkb`). Replayed pointer events reach `DeviceEventCallback` twice.
* `SyncCounters!CounterForgotten` (constants of `sync_counters`): `SyncInitTrigger` stores the
  counter before its later checks (`Xext/sync.c:427`, `499-506`). A ChangeAlarm that fails in
  between leaves the alarm with a counter whose list it is not in, and `FreeCounter` walks that
  list only; QueryAlarm, ChangeAlarm and FreeAlarm then follow a pointer to freed memory.
  `sync.tex:390-391` says that DestroyCounter "sets the counter fields for all triggers that
  specify this counter to None". TLC meets a shorter way to the same first, an alarm
  dropped from its list by the deletion of a trigger behind it.
* SYNC: what was dropped from its list (`sync_trigger_dropped`) is not told when its counter is
  destroyed either; an alarm then keeps the freed counter. A PositiveTransition may be missed
  when QueryCounter refreshes SERVERTIME without checking its triggers (`Xext/sync.c:784`);
  `startOver` FALSE keeps an old bracket, so that select gets a timeout of zero; a failed
  ChangeAlarm leaves delta and test changed but the check that goes with them not, with which
  the loop of `SyncAlarmTriggerFired` may not end; an await that ends with its counter attends
  to a client whose connection is already closed.

The passing runs avoid the violations above by their constants, not by changed code:
`NobodyForgotten` is checked where nobody becomes pervious, `AsleepNotServed`
where nobody is impervious, `NeverReadsClosed` where no client retains its
resources, `PointersLive` without LBX proxies, `InOrder` with XKB. `ReplayIsLatest` names its
exception (`OvertakenByPress`), and the properties of `SyncCounters` say what its lists still do for
those that are in them. `InputQueue` passes
with events of any kind because its properties speak of what the ring does keep.

## 4. Proofs

All theorems hold for every value of the constants that satisfies the `ASSUME`s:
a ring of at least 2 slots; at least one client besides the server and one
descriptor; positive word size, turn length and buffer bound; `Kinds` and `Faults`
any subset; any numbers of connections, cells, sessions, faults, windows, passive
grabs and events; a `None` that is no event of a device and no trigger, counter
or value; any requests of SYNC, with values of any width. Where a theorem has an
assumption of its own, its statement carries it and it is named below.

**Input queue** (`InputQueueProofs`). `TypeCorrect`; `RingCorrect`: `QueueInv`, whose parts
`KeysSurvive` (what is merged away was a motion) and `KeysWhole` (what is copied in two
halves is one key) are what its users rely on;
`DispatchedInOrder`: `DispatchInOrder`. `QueueInv` is inductive together with
`TypeOK`. That events leave in order needs more than order in the ring: the loop's
copy may be older than the slot (a motion has been merged into it), so
`CopyIsHead` says that it is the head or a motion merged into it, and
`last` is older than all that is queued. `LastMotionHonest` is needed because
`lastMotion` outlives the slot it speaks of: only while the ring is not empty
does a merge see the truth. The lemmas treat the ring as distances from the head
(`Dist`): a publish adds one at the far end, an advance takes one off the near end.
`FIFOCorrect`: `ImplementsFIFO`, the ring is a bounded queue that joins motions. The
abstract queue is read off the ring in order of distance; `RunsInv` (each slot knows
what was merged into it, and the copied event is one of these) makes the step that
takes an event out a `Take` of `InputFIFO`, even when a merge has come in between.

**Scheduler** (`ClientSchedulerProofs`). The inductive invariant `IInv` joins what
lasts between requests (`DataInv`) to where the server is. `SetsAgree` is not
inductive by itself: a close must know that the descriptor it takes out of the
sets is not that of another client, which is `TranslationAgrees` in both
directions; `Within` is the same fact for each operation of
`os/connection.c`, proved once as a lemma about the operation and used wherever
it is called. The slot that is given out must be free (`LeastFreeSlot`), and a
client that is counted must be `Running` when `nClients` goes down
(`CountsRunning`, with the cardinality lemmas of `FiniteSetTheorems`). `Serving`
says that the client whose request runs has a connection. Theorems: `TypeCorrect`,
`SetsCorrect`, `SlotsCorrect`, `CountCorrect`, and from a second invariant
`ResetInv` (after the last running client closed, no turn goes on) `ResetCorrect`.

**Server grab** (`ClientServedProofs`). `GrabInv` adds to `GrabAgrees` that
`ClientsWithInput` too is confined during a grab, and `GrabTurns`: a round
collected before the grab ends with `GrabKickout`; of one collected after it every
client still connected may be served. `GrabCorrect` and `GrabExcludes` follow, with
impervious clients, kills and faults in play. `Refinement`: when no client
can make itself impervious, `Spec` implements `ServerGrab`; the step simulation
goes through `HoldsInv` (`holds` is the grabber or nobody). With `GrabExcludes` it
says that only impervious clients ever wait in `grabWaiters`: everybody else's
`GrabServer` stays unread until the grab ends.

**Who is served** (`ClientServedProofs`). Each theorem names the requests it excludes,
as a condition on `Kinds`, because the code breaks the property with them (3.3);
faults are unrestricted. `Attended(c)`, for every connected client, says where its
descriptor is: heard now or after the grab (`NobodyForgottenCorrect`, with
`Steady`: not `Sleep`, `Impervious` and `Pervious` all three), unheard while it sleeps, in the
saved sets too (`SleepCorrect`, without `Impervious`), and with its input in the set that
fits (`BuffersCorrect`, with `SleepersPervious`: not both). These depend on each other:
`HeardInv` keeps input sets within listening sets and says that a client whose turn
is to come is heard, `QueueInv` that a queued wake-up is for a client asleep, and each
operation of `os/connection.c` has one lemma about what it does to one descriptor.
`ReadsCorrect` (with `ReadsSafely`: the smart scheduler, or no `SetCloseDownMode`) rests on
`ReadInv`: a round has one client, or nobody is retained.

**XDMCP** (`XdmcpSessionProofs`). `TypeInv` adds to `TypeOK` that whoever waits for the answer
to a MANAGE or KEEPALIVE has a session ID (`AsksForSession`). `OfferInv` adds to `OfferIsNew`
that identifiers are handed out upwards (`HandedOut`): what is offered was never managed because
nothing above `globalSessionID` was. From it `StartsOnce`: the path of `manage` that ends the
running session and forks is taken only for a session that never had a child (not for one whose
child has yet to connect, either), since it was offered, and `DisposeProtoDisplay` takes the
offer away with it. `NoneStrays` and `SessionsConnected` are inductive over `TypeInv`. None of
them limits how often datagrams are lost, duplicated or reordered, or how often the manager
crashes.

**Devices** (`DeviceFreezeProofs`). `IInv` is `TypeOK`, `Queued` (the held events and
`pendtail`), `Held(dev)`, `PassiveHeld`, `Quiet` and `RepeatsKey`. Each function of the
code that changes devices has a lemma from a weak to a strong condition on all
devices: `Linked` (a device frozen by another's grab is frozen by one that is
active) is what `Activate`, `Deactivate` and `DeliverGrabbed` need before they call
`FreezeThaw`; `Accounted` is what they leave behind. `NoneHeldBack` needs `Quiet`: a
walk of the queue that has begun goes on until every device that is thawed has
been played. Theorems: `TypeCorrect`, `FreezesCorrect`, `TailCorrect` (`TailAtEnd`: the
tail is the end of the queue, so no event overwrites another), `NoneHeldBack`,
`GrabsEnd`.

That events come out in order needs history. `LatestInv` joins `ReplayIsLatest` to what
is under way: the press of a repeated key still to be processed is the last event of
the keyboard (`AgainInv`), and the event being replayed that of its device (`ReplayInv`);
`Remembers` and `Records` say what each function of the code keeps of the events
devices hold. Theorem `ReplayCorrect`: the event kept is the last of its device to the half
of a repeated key, or XKB has gone on to the press (`OvertakenByPress`); without XKB
`ReplayWithoutXkb` has no exception. `OrderCorrect` and `KeysCorrect` assume XKB
(`XkbProcesses`), for without it the code breaks both. `SortedInv`: what is held for a
device is sorted, and later than what it has processed. `FollowInv`: the last event
held for a device that changes its button or key is what the hardware last said; with
none held, it has already been processed, or is the press to be repeated.

**Output buffers** (`OutputBuffersProofs`). `IInv` is `TypeOK`, the shape of the thread
(`StackInv`: who calls whom; `ThreadInv`: a local holds something only while its
procedure is active, and `writev` is offered no more than is left), `FdInv` (the two
directions of `ConnectionTranslation`, and that what is registered for nobody is in no
set), `UnusedInv` and `EstablishInv`. Theorems: `FdsBelongCorrect`; `OutputScheduledCorrect`,
inductive over `IInv`, where the flush of another client must be known not to take
this one out of a set; `StreamCorrect`: what was read, what is in the socket and what is
unwritten is, in this order, what was sent. The lemmas behind it say what dropping a
prefix (`Drop`) leaves of a concatenation, and what a partial write leaves pending.

**Work queue** (`WorkQueueProofs`). The theorems assume that no proxy of LBX fails
(`NoProxyFails`; otherwise see 3.3). `ListInv` says that the allocated cells are the least
set closed under links, which is not inductive; `Sorted` is: links ascend by number
and skip none. Then the first cell missed would be linked from one that is not
missed (`AllReached`). `Shape` is the thread: a queue scan under
`EstablishNewConnections` under a close-down under its scan for zombies, or part of
it. The frames carry what they rely on: the interrupted scan stands at the head or
at a procedure that is not unlinked meanwhile, with the procedure it has called
behind it (`QueueFrame`); a scan for zombies has left none behind (`ZombiesFrame`), so
that at its end nobody gone is queued and the record can be freed. `QueueFrame` needs
that clients with `LbxWaitForUngrab` queued are running, which is where `NoProxyFails`
enters. `Room` shows the bounds on cells and numbers never to stop a close-down.
Theorems: `ListCorrect`, `PointersCorrect`, `NoStaleCorrect`.

**SYNC** (`SyncCountersProofs`). `IInv` is `TypeOK` and `Sound(S)`: `Matched`, `Waiting`,
`NoneDue`. As deletions cut lists off, no part of the invariant says that who waits is in
a list. `Matched` is the other direction: a list has nothing twice (`NoneTwice`), and only what
exists and waits for its counter (`Proper`), so that no walk meets freed memory;
the conditions of an await are on different counters (`Apart`); and a counter in
whose list somebody is exists (`Existing`), so that its identifier is not created again,
with another value, under the one who waits (`NoneDue` needs it). Whoever is dropped is no
part of `Matched`; an alarm may have a counter whose list it is not in.

What a deletion does is one lemma, `UnlinkedIs`: the rest in its order, and whoever is
missing was the one deleted or in front of it. `Cut` states it of a list of the state, `Put` the
insertion. `Thins` states it of several deletions in a row: what still waits but
has left a list was in front of one that does not wait any more (`Dropped`). It is
transitive (`ThinsTwice`), hence part of the invariant of every walk that deletes.

What a walk computes is not proved by induction over the list but from an invariant of
the walk: a set of positions that holds 0 and with each its successor (`Induction`, from
`LeastExists`); that the function exists follows in the same way (`FiredIs`,
`AllToldIs`, `DeletedIs`, `ConditionsIs`, `ClosestIs`). The invariant of a walk says
what has become of the list so far. `Partway`: all that came true among the first i
triggers has gone off, the rest is as it was (`OwnersApart`: no two triggers of a list
belong to one await), and no await has ended but through one that came true. `Told`:
the same of a counter d that is being destroyed, whose list still has what was freed
(`Matched(s, d)`: all lists match but that of d). `Cleared`: of the resources of a client
that closes down, some of which went with others. `Begun`: of the conditions of an
Await, up to one that fails. One step of each walk has its lemma (`TriggerFiredIs`,
`CounterDestroyedIs`, `DeleteResourceIs`, `InitConditionIs`).

Each request is shown to be `Good`: it leaves `Sound`, awaits end for `Reasons`, what
comes true in a list `GoesOff`, and conditions keep their `Places` but for what is
dropped. `BecomesGood` adds the use of a freed counter.

Theorems: `TypeCorrect` (no sum leaves the 64 bits), `WaitersAreIgnored`,
`ListsAlwaysMatch`, `NobodyIsOverdue`, and of steps `AwaitsEndForAReason` and
`ChangesAreNoticed`. They assume that the conditions of one Await are on different
counters and that the clock stays below the largest value; conditions, attributes, widths
and orders of close-down are any. They say nothing good of a trigger in no list:
it is `sync_trigger_dropped` that does. `Sound` is kept by the steps that end the server too.

Theorems about properties no run lists (`TypeOK` of four modules, `GrabAgrees`,
`TailAtEnd`, `OfferIsNew`) say more than a run could; the runs spend their time on
the rest. `TypeOK` of `OutputBuffers`, `WorkQueue` and `SyncCounters` is a conjunct of
`StreamInv`, `ListInv` and `ListsMatch`.

Only model-checked is what the prover cannot do at all, liveness under fairness:
`KeepsTaking`, `SocketsDrained`, `Delivered`, `Drained`, `DisagreementEnds`, `Served`,
`CloseEnds`. The four violations (3.2) are counterexamples, for which a run is enough.

Induction is over least elements where it is needed (`LeastNumber`, and in
`OutputBuffersProofs` the least descriptor): a set of naturals has one by
`WFMin` and `NatLessThanWellFounded`, for which no operator has to be instantiated.

## 5. Plan

Done: `InputQueue`, `ClientScheduler`, `WorkQueue`, `OutputBuffers`, `DeviceFreeze`,
`XdmcpSession`, `SyncCounters`. Left, in this order:

1. `ResourceTable` (`dix/resource.c`): deletion functions that delete. Theorem: the
   element count is exact; deleted once.
2. `RequestInput` (`os/io.c`): partial and big requests, `InsertFakeRequest`, the shared
   buffer.
3. `Timers` (`os/WaitFor.c`): milliseconds modulo a small power of two. Theorem: the
   list stays sorted by distance from now, as long as all expiries are within
   half the range. Timer callbacks that set or free timers.
4. `SmartSchedule`: priority and round robin; whether every ready client is served.
5. Lists of callbacks and block handlers with deletion while they are called;
   extension devices in `DeviceFreeze`.

Not modelled, and not planned: requests on windows, properties, atoms, colormaps
and drawing contexts (sequential data structures), rendering (pixels), drivers
(hardware), client libraries and the other programs of the tree. The tree has
14698 files, most of them these; the modules cover the few that decide which
client is served and what reaches it.

`PROJECT.json` lists the hazards of the code at their lines, with the properties
that cover each, or why none does. Hazards of the parts not yet modelled, besides
those listed: timer expiry compared through the sign of a 32-bit difference that
wraps every 49 days (`os/WaitFor.c:498`), a client freed by a failed set-up but left
in `clients[]` (`dix/dispatch.c:3724`).

## 6. Running it

    tlc -config clients.cfg MCClientScheduler.tla
    tlc -config input_queue.cfg MCInputQueue.tla
    tlc -config device_freeze.cfg MCDeviceFreeze.tla
    tlc -config sync_trigger_dropped.cfg MCSyncCounters.tla
    tlapm ClientServedProofs.tla
    tlapm SyncCountersProofs.tla
    tlapm WorkQueueProofs.tla
