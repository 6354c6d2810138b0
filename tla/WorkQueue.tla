------------------------------- MODULE WorkQueue -------------------------------
(***************************************************************************)
(* The work queue and the sleeping clients of dix (dix/dixutils.c): a      *)
(* linked list of procedures that WaitForSomething scans before the server *)
(* blocks.  A procedure that returns TRUE is unlinked and freed; one of    *)
(* them, EstablishNewConnections, closes clients down, and each of these   *)
(* close-downs queues and scans the same list again while the outer scan   *)
(* still holds a pointer into it.                                          *)
(*                                                                         *)
(* The list is kept as the C code has it: cells of memory with a next      *)
(* field, the head workQueue, and workQueueLast, the address of the next   *)
(* field that the next cell is to be linked from.                          *)
(***************************************************************************)
EXTENDS Naturals, Sequences, FiniteSets

CONSTANTS
    MaxClients,      \* clients 1..MaxClients
    NCells,          \* bound: cells of memory the queue may use at once
    MaxSleeps,       \* bound: closures made for ClientSleep
    MaxQueued,       \* bound: procedures queued in one behaviour
    Events           \* subset of {"KillClient", "WriteFails", "FontReply", "LbxGrab", "ProxyFails"}

ASSUME NumbersAssumption ==
    /\ MaxClients \in Nat \ {0} /\ NCells \in Nat \ {0}
    /\ MaxSleeps \in Nat /\ MaxQueued \in Nat

Clients == 1..MaxClients
Cells == 1..NCells
Nil == NCells + 1
Head0 == 0                     \* &workQueue, as the address of a next field
NoClient == 0
NoClosure == 0

VARIABLES
    next,            \* the next field of each cell, and workQueue at Head0
    cell,            \* what an allocated cell holds, or Free
    workQueueLast,
    sleepQueue,      \* the closure of the client's entry, or NoClosure
    closures,        \* the closures that are allocated
    clients,         \* "running", "exception", "gone" (clientGone), "freed"
    GrabInProgress,  \* the client that has grabbed the server, or NoClient
    stack,           \* the thread: its procedures, innermost first
    queued, slept    \* how many were queued, how many closures were made

listVars == <<next, cell, workQueueLast, queued>>
sleepVars == <<sleepQueue, closures, slept>>
vars == <<listVars, sleepVars, clients, GrabInProgress, stack>>

Free == [function |-> "none", client |-> NoClient, closure |-> NoClosure, id |-> 0]
Frame(f, a, q) == [function |-> f, at |-> a, q |-> q]
Top == Head(stack)
In(f) == Top.function = f
Goto(f) == stack' = <<Frame(f, 0, Nil)>>
Pop == stack' = Tail(stack)

Allocated == {c \in Cells : cell[c] # Free}
Gone(c) == c # NoClient /\ clients[c] \in {"gone", "freed"}
Awake == {c \in Clients : clients[c] = "running" /\ sleepQueue[c] = NoClosure}

Init ==
    /\ next = [a \in Cells \cup {Head0} |-> Nil] /\ cell = [c \in Cells |-> Free]
    /\ workQueueLast = Head0
    /\ sleepQueue = [c \in Clients |-> NoClosure] /\ closures = {}
    /\ clients = [c \in Clients |-> "running"] /\ GrabInProgress = NoClient
    /\ stack = <<Frame("dispatch", 0, Nil)>>
    /\ queued = 0 /\ slept = 0

(***************************************************************************)
(* QueueWorkProc.                                                          *)
(***************************************************************************)
\* Bound: as many cells and numbers are kept back as clients may be signalled
\* when they are closed down.
Sleepers == {c \in Clients : sleepQueue[c] # NoClosure}
HasRoom == /\ Cardinality(Allocated) + Cardinality(Sleepers) < NCells
           /\ queued + Cardinality(Sleepers) < MaxQueued

\* (mutant of LinkedLast) The queue's last cell stays the one it was.
LinkedBefore(q) == workQueueLast

\* The address the next cell is linked from, once q is the last.
LinkedLast(q) == q

QueueWorkProc(function, client, closure) ==
    LET q == CHOOSE c \in Cells \ Allocated : TRUE IN
    /\ cell' = [cell EXCEPT ![q] = [function |-> function, client |-> client,
                                    closure |-> closure, id |-> queued + 1]]
    /\ next' = [next EXCEPT ![workQueueLast] = q, ![q] = Nil]
    /\ workQueueLast' = LinkedLast(q)
    /\ queued' = queued + 1

\* ClientSignal: the sleep procedure is queued, once more if it is already.
ClientSignal(c) == QueueWorkProc("sleep", c, sleepQueue[c])

(***************************************************************************)
(* Requests, and what happens between two calls of WaitForSomething.       *)
(***************************************************************************)
\* A request that needs a font of a font server: the client sleeps.
ClientSleep(c) ==
    /\ In("dispatch") /\ c \in Awake /\ slept < MaxSleeps /\ HasRoom
    /\ slept' = slept + 1
    /\ closures' = closures \cup {slept + 1}
    /\ sleepQueue' = [sleepQueue EXCEPT ![c] = slept + 1]
    /\ UNCHANGED <<listVars, clients, GrabInProgress, stack>>

\* GrabServer and UngrabServer, on behalf of the proxy they concern.
GrabServer(c) ==
    /\ "LbxGrab" \in Events /\ In("dispatch") /\ c \in Awake
    /\ GrabInProgress' = IF GrabInProgress = NoClient THEN c
                         ELSE IF GrabInProgress = c THEN NoClient ELSE GrabInProgress
    /\ UNCHANGED <<listVars, sleepVars, clients, stack>>

\* The proxy of client c is told of the grab; LbxWaitForUngrab is queued
\* when no earlier one is (proxy->grabClient).
WaitsForUngrab(c) == \E q \in Allocated : cell[q].function = "ungrab" /\ cell[q].client = c
LbxServerGrab(c) ==
    /\ In("dispatch") /\ GrabInProgress # NoClient /\ c \in Awake /\ ~WaitsForUngrab(c)
    /\ HasRoom /\ QueueWorkProc("ungrab", c, NoClosure)
    /\ UNCHANGED <<sleepVars, clients, GrabInProgress, stack>>

\* A write fails and its client is left for later (MarkClientException).
WriteFails(c) ==
    /\ "WriteFails" \in Events /\ In("dispatch") /\ clients[c] = "running"
    /\ WaitsForUngrab(c) => "ProxyFails" \in Events
    /\ clients' = [clients EXCEPT ![c] = "exception"]
    /\ UNCHANGED <<listVars, sleepVars, GrabInProgress, stack>>

(***************************************************************************)
(* CloseDownClient, as far as the queues go: a sleeping client is          *)
(* signalled, the procedures of clients that are gone are run, and its     *)
(* record is freed.                                                        *)
(***************************************************************************)
CloseDownClient(c) ==
    /\ clients[c] \in {"running", "exception"}
    /\ clients' = [clients EXCEPT ![c] = "gone"]
    /\ GrabInProgress' = IF GrabInProgress = c THEN NoClient ELSE GrabInProgress
    /\ IF sleepQueue[c] # NoClosure
       THEN ClientSignal(c)
       ELSE UNCHANGED listVars
    /\ UNCHANGED sleepVars

\* (mutant of Zombies) The close-down does not look for them.
NoZombies(c) == <<Frame("close", c, Nil)>>

\* What CloseDownClient does next: the scan, then the rest of it.
Zombies(c) == <<Frame("zombies", Head0, Nil), Frame("close", c, Nil)>>

KillClient(c) ==
    /\ "KillClient" \in Events /\ In("dispatch")
    /\ CloseDownClient(c) /\ stack' = Zombies(c) \o stack

\* A descriptor closed by a failed write makes select fail.
CheckConnections(c) ==
    /\ In("block") /\ clients[c] = "exception"
    /\ CloseDownClient(c) /\ stack' = Zombies(c) \o stack

ClientFreed ==
    /\ In("close") /\ clients' = [clients EXCEPT ![Top.at] = "freed"] /\ Pop
    /\ UNCHANGED <<listVars, sleepVars, GrabInProgress>>

(***************************************************************************)
(* The scans.  p is the address of a next field, q the cell behind it.     *)
(***************************************************************************)
Scanning == In("queue") \/ In("zombies")
p == Top.at
q0 == next[p]

Unlinked(q) ==
    /\ next' = [next EXCEPT ![p] = next[q]]
    /\ cell' = [cell EXCEPT ![q] = Free]
Called(function) ==
    /\ Scanning /\ Top.q = Nil /\ q0 # Nil /\ cell[q0].function = function
    /\ In("zombies") => Gone(cell[q0].client)

LastOf == p

ScanEnds ==
    /\ Scanning /\ Top.q = Nil /\ q0 = Nil
    /\ workQueueLast' = LastOf
    /\ IF In("queue") THEN Goto("block") ELSE Pop
    /\ UNCHANGED <<next, cell, queued, sleepVars, clients, GrabInProgress>>

\* ProcessWorkQueueZombies passes over the others.
PassOver ==
    /\ In("zombies") /\ q0 # Nil /\ ~Gone(cell[q0].client)
    /\ stack' = <<[Top EXCEPT !.at = q0]>> \o Tail(stack)
    /\ UNCHANGED <<listVars, sleepVars, clients, GrabInProgress>>

\* A sleep procedure (doOpenFont and its like): done, or the client is gone:
\* it wakes the client and frees its closure.
SleepProcEnds ==
    LET k == cell[q0].closure IN
    /\ Called("sleep")
    /\ sleepQueue' = [sleepQueue EXCEPT ![cell[q0].client] = NoClosure]
    /\ closures' = closures \ {k}
    /\ Unlinked(q0)
    /\ UNCHANGED <<workQueueLast, queued, slept, clients, GrabInProgress, stack>>

\* (mutant of SleepProcSuspended) It asks to be called again.
SleepProcKept ==
    /\ Called("sleep") /\ ~Gone(cell[q0].client)
    /\ stack' = <<[Top EXCEPT !.at = q0]>> \o Tail(stack)
    /\ UNCHANGED <<listVars, sleepVars, clients, GrabInProgress>>

\* ... or suspended again, and still asleep.
SleepProcSuspended ==
    /\ Called("sleep") /\ ~Gone(cell[q0].client)
    /\ Unlinked(q0)
    /\ UNCHANGED <<workQueueLast, queued, sleepVars, clients, GrabInProgress, stack>>

\* LbxWaitForUngrab asks to be called again as long as the grab lasts.
LbxWaitForUngrab ==
    /\ Called("ungrab")
    /\ IF ~Gone(cell[q0].client) /\ GrabInProgress # NoClient
       THEN /\ stack' = <<[Top EXCEPT !.at = q0]>> \o Tail(stack)
            /\ UNCHANGED <<next, cell>>
       ELSE Unlinked(q0) /\ UNCHANGED stack
    /\ UNCHANGED <<workQueueLast, queued, sleepVars, clients, GrabInProgress>>

(***************************************************************************)
(* EstablishNewConnections, called from the queue: it closes the clients   *)
(* marked by a failed write, one after the other, and returns TRUE.        *)
(***************************************************************************)
EstablishNewConnections ==
    /\ Called("establish")
    /\ stack' = <<Frame("establish", 1, Nil), [Top EXCEPT !.q = q0]>> \o Tail(stack)
    /\ UNCHANGED <<listVars, sleepVars, clients, GrabInProgress>>

KillStraggler ==
    LET c == Top.at
        rest == <<[Top EXCEPT !.at = c + 1]>> \o Tail(stack)
    IN  /\ In("establish") /\ c \in Clients
        /\ IF clients[c] = "exception"
           THEN CloseDownClient(c) /\ stack' = Zombies(c) \o rest
           ELSE stack' = rest /\ UNCHANGED <<listVars, sleepVars, clients, GrabInProgress>>

Established ==
    /\ In("establish") /\ Top.at \notin Clients /\ Pop
    /\ UNCHANGED <<listVars, sleepVars, clients, GrabInProgress>>

\* Its cell is unlinked through the pointer the scan has kept all along.
EstablishReturns ==
    /\ In("queue") /\ Top.q # Nil
    /\ Unlinked(Top.q)
    /\ stack' = <<[Top EXCEPT !.q = Nil]>> \o Tail(stack)
    /\ UNCHANGED <<workQueueLast, queued, sleepVars, clients, GrabInProgress>>

(***************************************************************************)
(* WaitForSomething: the queue, then select, which may report a listener   *)
(* and, through the wake-up handlers, replies of font servers.             *)
(***************************************************************************)
ProcessWorkQueue ==
    /\ In("dispatch") /\ Goto("wait")
    /\ UNCHANGED <<listVars, sleepVars, clients, GrabInProgress>>

\* (mutant of HasWork) Work is looked for behind the first of it.
HasMoreWork == workQueueLast \notin {Head0, next[Head0]}

HasWork == next[Head0] # Nil

Wait ==
    /\ In("wait")
    /\ stack' = IF HasWork THEN <<Frame("queue", Head0, Nil)>>
                ELSE <<Frame("block", 0, Nil)>>
    /\ UNCHANGED <<listVars, sleepVars, clients, GrabInProgress>>

FontReply(c) ==
    /\ "FontReply" \in Events /\ In("block") /\ sleepQueue[c] # NoClosure /\ HasRoom
    /\ ClientSignal(c)
    /\ UNCHANGED <<sleepVars, clients, GrabInProgress, stack>>

\* A listener is ready: the work is queued and the loop goes round.
Listener ==
    /\ In("block") /\ HasRoom
    /\ QueueWorkProc("establish", NoClient, NoClosure)
    /\ Goto("wait") \/ Goto("dispatch")
    /\ UNCHANGED <<sleepVars, clients, GrabInProgress>>

Select ==
    /\ In("block") /\ (Goto("dispatch") \/ Goto("wait"))
    /\ UNCHANGED <<listVars, sleepVars, clients, GrabInProgress>>

----------------------------------------------------------------------------
Scan == ScanEnds \/ PassOver \/ SleepProcEnds \/ SleepProcSuspended \/ LbxWaitForUngrab
        \/ EstablishNewConnections \/ KillStraggler \/ Established \/ EstablishReturns
        \/ ClientFreed
Waiting == ProcessWorkQueue \/ Wait \/ Select
Next ==
    \/ \E c \in Clients : ClientSleep(c) \/ GrabServer(c) \/ LbxServerGrab(c)
                          \/ WriteFails(c) \/ KillClient(c) \/ FontReply(c)
                          \/ CheckConnections(c)
    \/ Scan \/ Waiting \/ Listener

Spec == Init /\ [][Next]_vars

\* A round of Dispatch ends, and the thread goes on with what it has begun.
FairSpec == Spec /\ WF_vars(Scan) /\ WF_vars(Waiting)

(***************************************************************************)
(* Properties.                                                             *)
(***************************************************************************)
Functions == {"none", "sleep", "ungrab", "establish"}
Procedures == {"dispatch", "wait", "block", "queue", "zombies", "close", "establish"}

\* Every variable has its type: next fields point at cells or are NULL, and
\* the thread's procedures hold addresses of next fields.
TypeOK ==
    /\ next \in [Cells \cup {Head0} -> Cells \cup {Nil}]
    /\ cell \in [Cells -> [function : Functions, client : Clients \cup {NoClient},
                           closure : 0..MaxSleeps, id : 0..MaxQueued]]
    /\ workQueueLast \in Cells \cup {Head0}
    /\ sleepQueue \in [Clients -> 0..MaxSleeps] /\ closures \subseteq 1..MaxSleeps
    /\ clients \in [Clients -> {"running", "exception", "gone", "freed"}]
    /\ GrabInProgress \in Clients \cup {NoClient}
    /\ stack \in Seq([function : Procedures, at : Nat, q : Cells \cup {Nil}]) /\ stack # <<>>
    /\ queued \in 0..MaxQueued /\ slept \in 0..MaxSleeps

\* S is closed under links: it holds all that is reached from workQueue.
Linked(S) == \A a \in S \cup {Head0} : next[a] # Nil => next[a] \in S

\* Wherever a procedure may be queued, workQueueLast is the address of the
\* field that ends the list; during the scan it may be out of date only
\* between the unlinking of the last cell and the end of the loop.
MayQueue == Scanning => q0 # Nil
TailInv == MayQueue => /\ workQueueLast \in Allocated \cup {Head0}
                       /\ next[workQueueLast] = Nil

\* The list is exactly what is allocated, in the order it was queued: no
\* procedure is lost because it was linked behind a cell already unlinked,
\* none is freed and still linked, whatever close-downs queue and unlink
\* while a scan is under way (ProcessWorkQueue: "must be reentrant").
ListInv ==
    /\ TypeOK
    /\ TailInv
    /\ Linked(Allocated) /\ \A S \in SUBSET Cells : Linked(S) => Allocated \subseteq S
    /\ \A q \in Allocated : next[q] # Nil => cell[q].id < cell[next[q]].id

\* No scan holds the address of a cell that was freed under it, nor a
\* procedure that is being called one (ProcessWorkQueueZombies inside
\* ProcessWorkQueue).
PointersLive ==
    \A i \in DOMAIN stack : stack[i].function \in {"queue", "zombies"} =>
        /\ stack[i].at \in Allocated \cup {Head0}
        /\ stack[i].q # Nil => next[stack[i].at] = stack[i].q /\ stack[i].q \in Allocated

\* Neither queue names a client whose record is freed: what a close-down
\* leaves, it has found (CloseDownClient).
NoStaleClient ==
    /\ \A q \in Allocated : cell[q].client # NoClient => clients[cell[q].client] # "freed"
    /\ \A c \in Clients : clients[c] = "freed" => sleepQueue[c] = NoClosure

\* A sleep procedure is called with the closure its client sleeps on, never
\* with one that an earlier call has freed.  It does not hold: a client that
\* is signalled twice is in the queue twice.
ClosureLive == Called("sleep") => cell[q0].closure \in closures

\* Whatever is queued is called and unlinked, unless it is LbxWaitForUngrab
\* and asks to be called again.
Queued(n) == \E q \in Allocated : cell[q].id = n /\ cell[q].function # "ungrab"
Drained == \A n \in 1..MaxQueued : Queued(n) ~> ~Queued(n)
================================================================================
