------------------------------ MODULE SyncCounters ------------------------------
(***************************************************************************)
(* The counters, alarms and awaits of the SYNC extension (Xext/sync.c),    *)
(* with the system counter SERVERTIME and the block and wakeup handlers    *)
(* through which the sleeping server notices that a time has come.         *)
(*                                                                         *)
(* An alarm has one trigger, an Await request one for each condition; each *)
(* counter has the list of the triggers that wait for it.  A request is    *)
(* carried through before the next: its action computes all that the       *)
(* triggers it fires do to the state S of the extension.                   *)
(*                                                                         *)
(* The requests that set an alarm give all its attributes; the conditions  *)
(* of one Await are on different counters.  Events are left out.           *)
(***************************************************************************)
EXTENDS Integers, Sequences, FiniteSets, SequencesExt

CONSTANTS
    Clients, Alarms,
    Counters,               \* the counters of clients
    SERVERTIME, None,
    MinValue, MaxValue,     \* the range of an INT64
    Values,                 \* of SetCounter and CreateCounter
    AwaitLists,             \* the conditions of Await requests
    AlarmSettings,          \* the attributes of CreateAlarm and ChangeAlarm
    MaxTime                 \* bound: the clock

AllCounters == Counters \cup {SERVERTIME}
Comparisons == {"PositiveComparison", "NegativeComparison"}
Tests == Comparisons \cup {"PositiveTransition", "NegativeTransition"}
Int64 == MinValue..MaxValue
Condition == [counter : AllCounters, relative : BOOLEAN, wait : Int64, test : Tests]
Setting == [counter : AllCounters \cup {None}, relative : BOOLEAN, wait : Int64,
            test : Tests, delta : Int64]

\* A trigger is <<client, i>>, the i-th condition of its await, or <<alarm, 0>>.
TriggerId == (Clients \cup Alarms) \X Nat
TriggerRec == [counter : AllCounters \cup {None}, check : Tests, value : Int64, test : Tests]
AlarmRec == [client : Clients, counter : AllCounters \cup {None}, check : Tests, value : Int64,
             test : Tests, delta : Int64, state : {"Active", "Inactive"}]

ASSUME SyncAssumption ==
    /\ SERVERTIME \notin Counters /\ Clients \cap Alarms = {}
    /\ IsFiniteSet(Counters) /\ IsFiniteSet(Alarms)
    /\ None \notin AllCounters \cup Clients /\ None \notin Int64
    /\ None \notin Seq(TriggerRec) /\ None \notin AlarmRec
    /\ MinValue \in Int /\ MaxValue \in Int /\ MinValue < 0 /\ MaxTime \in 0..(MaxValue - 1)
    /\ Values \subseteq Int64 /\ AwaitLists \subseteq Seq(Condition)
    /\ \A list \in AwaitLists : list # <<>> /\ IsInjective([i \in DOMAIN list |-> list[i].counter])
    /\ AlarmSettings \subseteq Setting

VARIABLES
    S,          \* the state of the extension, see State
    clock,      \* GetTimeInMillis
    phase,      \* "dispatch", or "asleep" in WaitForSomething
    timeout     \* what the block handler has set

vars == <<S, clock, phase, timeout>>

State ==
    [value : [AllCounters -> Int64 \cup {None}], owner : [Counters -> Clients \cup {None}],
     list : [AllCounters -> Seq(TriggerId)],
     await : [Clients -> Seq(TriggerRec) \cup {None}], alarm : [Alarms -> AlarmRec \cup {None}],
     ignored : SUBSET Clients, gone : SUBSET Clients,
     greater : Int64, less : Int64, pnext : BOOLEAN,      \* the bracket of SERVERTIME
     stray : BOOLEAN,         \* the request has used a counter that was freed
     alive : BOOLEAN]         \* the server runs

IsAlarm(t) == t[2] = 0
Trigger(s, t) == IF IsAlarm(t) THEN s.alarm[t[1]] ELSE s.await[t[1]][t[2]]

\* The trigger t exists and waits for the counter k.
Triggers(s) ==
    {<<a, 0>> : a \in {a \in Alarms : s.alarm[a] # None}}
    \cup UNION {{<<c, i>> : i \in DOMAIN s.await[c]} : c \in {c \in Clients : s.await[c] # None}}
WaitsFor(s, t, k) == t \in Triggers(s) /\ Trigger(s, t).counter = k

Init ==
    /\ S = [value |-> [k \in AllCounters |-> IF k = SERVERTIME THEN 0 ELSE None],
            owner |-> [k \in Counters |-> None],
            list |-> [k \in AllCounters |-> <<>>],
            await |-> [c \in Clients |-> None], alarm |-> [a \in Alarms |-> None],
            ignored |-> {}, gone |-> {}, greater |-> MaxValue, less |-> MinValue, pnext |-> FALSE,
            stray |-> FALSE, alive |-> TRUE]
    /\ clock = 0 /\ phase = "dispatch" /\ timeout = None

\* A loop over the list l: what base has become after the first i elements.
Walk(step(_, _), base, l) ==
    LET after[i \in 0..Len(l)] == IF i = 0 THEN base ELSE step(after[i - 1], l[i])
    IN  after

(***************************************************************************)
(* Triggers.                                                               *)
(***************************************************************************)
\* SyncCheckTrigger*, for a counter that goes from old to new.
Check(check, old, new, test) ==
    CASE check = "PositiveComparison" -> new >= test
      [] check = "NegativeComparison" -> new <= test
      [] check = "PositiveTransition" -> old < test /\ new >= test
      [] check = "NegativeTransition" -> old > test /\ new <= test

CheckTrigger(s, t, old) ==
    LET x == Trigger(s, t) IN x.counter = None \/ Check(x.check, old, s.value[x.counter], x.value)

\* (mutant of AlreadyTrue) No trigger is looked at before its counter changes.
NeverTrue(s, t) == FALSE

\* It is TRUE as soon as it is initialised.
AlreadyTrue(s, t) == CheckTrigger(s, t, s.value[Trigger(s, t).counter])

\* SyncComputeBracketValues, for SERVERTIME, which never decreases; pnext_time
\* is bracket_greater or NULL.
Nearer(s, b, t) ==
    LET x == Trigger(s, t) IN
    IF x.test \notin {"PositiveComparison", "PositiveTransition"} \/ s.value[SERVERTIME] >= x.value
    THEN b
    ELSE IF x.value < b.greater THEN [b EXCEPT !.greater = x.value, !.newgt = TRUE]
    ELSE IF x.test = "PositiveTransition" /\ x.value > b.less
    THEN [b EXCEPT !.less = x.value, !.newlt = TRUE]
    ELSE b
Closest(s, startOver) ==
    Walk(LAMBDA b, t : Nearer(s, b, t),
         [greater |-> IF startOver THEN MaxValue ELSE s.greater,
          less |-> IF startOver THEN MinValue ELSE s.less, newgt |-> FALSE, newlt |-> FALSE],
         s.list[SERVERTIME])
WithBracket(s, new) ==
    [s EXCEPT !.greater = new.greater, !.less = new.less,
              !.pnext = IF new.newgt \/ new.newlt THEN new.newgt ELSE @]

Bracket(s, k, startOver) ==
    IF k = SERVERTIME THEN WithBracket(s, Closest(s, startOver)[Len(s.list[k])]) ELSE s

Exists(s, k) == s.value[k] # None

\* The walk to the trigger t never assigns pPrev: the list is then what is behind
\* t, and the triggers in front of t are in no list.
Unlinked(l, t) ==
    IF t \in ToSet(l) THEN SubSeq(l, SelectInSeq(l, LAMBDA u : u = t) + 1, Len(l)) ELSE l

SyncDeleteTriggerFromCounter(s, t) ==
    LET k == Trigger(s, t).counter IN
    IF k = None THEN s
    ELSE Bracket([s EXCEPT !.list[k] = Unlinked(@, t), !.stray = @ \/ ~Exists(s, k)], k, TRUE)

SyncAddTriggerToCounter(s, t) ==
    LET k == Trigger(s, t).counter IN
    IF k = None THEN s ELSE Bracket([s EXCEPT !.list[k] = <<t>> \o @], k, TRUE)

\* FreeAwait, whose conditions are on different counters; FreeCounter deletes the
\* list of a counter that is being destroyed.
FreeAwait(s, c, destroyed) ==
    LET on == {s.await[c][i].counter : i \in DOMAIN s.await[c]} \ {destroyed}
        its(k) == <<c, CHOOSE i \in DOMAIN s.await[c] : s.await[c][i].counter = k>>
        left == [k \in AllCounters |->
                    IF k \in on THEN Unlinked(s.list[k], its(k)) ELSE s.list[k]]
        stray == s.stray \/ \E k \in on : ~Exists(s, k)
        timed == IF SERVERTIME \in on THEN SERVERTIME ELSE None
    IN  [Bracket([s EXCEPT !.list = left, !.stray = stray], timed, TRUE) EXCEPT !.await[c] = None]

\* SyncAwaitTriggerFired; AttendClient is not prepared for a client whose
\* connection is closed already.
SyncAwaitTriggerFired(s, c, destroyed) ==
    FreeAwait([s EXCEPT !.ignored = @ \ {c}, !.alive = @ /\ c \notin s.gone], c, destroyed)

\* SyncAlarmTriggerFired: the value moves on by delta until the trigger is
\* FALSE; or the alarm becomes inactive; or the loop does not end.
SyncAlarmTriggerFired(s, a) ==
    LET x == s.alarm[a]
        now == s.value[x.counter]
        moved(n) == x.value + n * x.delta
        ends == {n \in 1..(MaxValue - MinValue + 1) :
                    moved(n) \notin Int64 \/ ~Check(x.check, now, now, moved(n))}
        n == CHOOSE n \in ends : \A m \in ends : n <= m
    IN  IF x.state # "Active" THEN s
        ELSE IF x.counter = None \/ (x.delta = 0 /\ x.test \in Comparisons)
        THEN [s EXCEPT !.alarm[a].state = "Inactive"]
        ELSE IF ends = {} THEN [s EXCEPT !.alive = FALSE]
        ELSE IF moved(n) \notin Int64 THEN [s EXCEPT !.alarm[a].state = "Inactive"]
        ELSE [s EXCEPT !.alarm[a].value = moved(n)]

TriggerFired(s, t) ==
    IF IsAlarm(t) THEN SyncAlarmTriggerFired(s, t[1]) ELSE SyncAwaitTriggerFired(s, t[1], None)

\* (mutant of SyncChangeCounter) The walk ends with the first trigger that fires.
ChangeCounterOnce(s, k, value) ==
    LET set == [s EXCEPT !.value[k] = value]
        true == SelectSeq(s.list[k], LAMBDA t : CheckTrigger(set, t, s.value[k]))
    IN  Bracket(IF true = <<>> THEN set ELSE TriggerFired(set, true[1]), k, FALSE)

\* (mutant of SyncChangeCounter) Every trigger of the list fires.
ChangeCounterAll(s, k, value) ==
    LET after == Walk(TriggerFired, [s EXCEPT !.value[k] = value], s.list[k])
    IN  Bracket(after[Len(s.list[k])], k, FALSE)

\* The trigger t of a counter that was old is looked at.
Fire(r, t, old) == IF CheckTrigger(r, t, old) THEN TriggerFired(r, t) ELSE r
Fired(s, k, value) ==
    Walk(LAMBDA r, t : Fire(r, t, s.value[k]), [s EXCEPT !.value[k] = value], s.list[k])
SyncChangeCounter(s, k, value) == Bracket(Fired(s, k, value)[Len(s.list[k])], k, FALSE)

(***************************************************************************)
(* The deletion of resources.                                              *)
(***************************************************************************)
WithoutCounter(s, k) == [s EXCEPT !.value[k] = None, !.owner[k] = None, !.list[k] = <<>>]

\* SyncAlarmCounterDestroyed.
SyncAlarmCounterDestroyed(s, a) ==
    [s EXCEPT !.alarm[a].state = "Inactive", !.alarm[a].counter = None]

\* (mutant of FreeCounter) The clients that wait are not attended to.
FreeCounterQuietly(s, k) ==
    LET destroyed(r, t) == IF IsAlarm(t) THEN SyncAlarmCounterDestroyed(r, t[1])
                           ELSE FreeAwait(r, t[1], k)
    IN  WithoutCounter(Walk(destroyed, s, s.list[k])[Len(s.list[k])], k)

CounterDestroyed(r, t, k) ==
    IF IsAlarm(t) THEN SyncAlarmCounterDestroyed(r, t[1]) ELSE SyncAwaitTriggerFired(r, t[1], k)
AllTold(s, k) == Walk(LAMBDA r, t : CounterDestroyed(r, t, k), s, s.list[k])
FreeCounter(s, k) == WithoutCounter(AllTold(s, k)[Len(s.list[k])], k)

\* (mutant of FreeAlarm) The trigger stays in the list.
FreeAlarmOnly(s, a) == [s EXCEPT !.alarm[a] = None]

FreeAlarm(s, a) == [SyncDeleteTriggerFromCounter(s, <<a, 0>>) EXCEPT !.alarm[a] = None]

Resources(c) ==
    {<<"counter", k>> : k \in {k \in Counters : S.owner[k] = c}}
    \cup {<<"alarm", a>> : a \in {a \in Alarms : S.alarm[a] # None /\ S.alarm[a].client = c}}
    \cup {<<"await", x>> : x \in {x \in {c} : S.await[x] # None}}

\* FreeClientResources calls the delete function of one resource; it may be gone
\* by the deletion of another.
Delete(s, resource) ==
    CASE resource[1] = "counter" -> FreeCounter(s, resource[2])
      [] resource[1] = "alarm" -> FreeAlarm(s, resource[2])
      [] resource[1] = "await" -> IF s.await[resource[2]] = None THEN s
                                  ELSE FreeAwait(s, resource[2], None)
Deleted(s, order) == Walk(Delete, s, order)

(***************************************************************************)
(* SyncInitTrigger.                                                        *)
(***************************************************************************)
Wrap(v) == MinValue + ((v - MinValue) % (MaxValue - MinValue + 1))

\* The value of SERVERTIME is brought up to date whenever it is looked at.
Queried(s, k) == IF k = SERVERTIME THEN [s EXCEPT !.value[k] = clock] ELSE s

\* The trigger t of s gets the attributes x.  A value out of range is an error.
With(trigger, x, value) ==
    [trigger EXCEPT !.counter = x.counter, !.check = x.test, !.value = value]
Attributed(s, t, x) ==
    LET sum == x.wait + IF x.relative THEN s.value[x.counter] ELSE 0
    IN  [s |-> IF IsAlarm(t) THEN [s EXCEPT !.alarm[t[1]] = With(@, x, Wrap(sum))]
               ELSE [s EXCEPT !.await[t[1]][t[2]] = With(@, x, Wrap(sum))],
         ok |-> sum \in Int64]

\* It is put in the list of its new counter, when there was no error.
Listed(r, t, moves) ==
    IF ~r.ok THEN r
    ELSE [r EXCEPT !.s = IF moves THEN SyncAddTriggerToCounter(@, t)
                         ELSE Bracket(@, Trigger(@, t).counter, TRUE)]

SyncInitTrigger(s, t, x) ==
    LET moves == x.counter # Trigger(s, t).counter
        left == IF moves THEN SyncDeleteTriggerFromCounter(s, t) ELSE s
    IN  IF x.counter # None /\ ~Exists(s, x.counter) THEN [s |-> s, ok |-> FALSE]
        ELSE IF x.counter = None /\ x.relative
        THEN [s |-> [left EXCEPT !.alarm[t[1]].counter = None, !.alarm[t[1]].check = x.test],
              ok |-> FALSE]
        ELSE Listed(Attributed(Queried(left, x.counter), t, x), t, moves)

(***************************************************************************)
(* Requests.                                                               *)
(***************************************************************************)
Dispatch(c) == phase = "dispatch" /\ S.alive /\ c \notin S.gone \cup S.ignored
Rest == UNCHANGED <<clock, phase, timeout>>

\* To use a counter that was freed may end the server; or it does nothing, as the
\* list of that counter is empty.
Becomes(s) == S' = [s EXCEPT !.stray = FALSE] \/ (s.stray /\ S' = [S EXCEPT !.alive = FALSE])

\* Bound: an id is not used again while a trigger has the counter it was of.
CreateCounter(c, k, v) ==
    /\ Dispatch(c) /\ ~Exists(S, k) /\ \A t \in Triggers(S) : ~WaitsFor(S, t, k)
    /\ S' = [S EXCEPT !.value[k] = v, !.owner[k] = c] /\ Rest

\* ProcSyncSetCounter, ProcSyncChangeCounter.
SetCounter(c, k, v) == Dispatch(c) /\ Exists(S, k) /\ Becomes(SyncChangeCounter(S, k, v)) /\ Rest

ProcSyncDestroyCounter(c, k) == Dispatch(c) /\ Exists(S, k) /\ Becomes(FreeCounter(S, k)) /\ Rest

ProcSyncQueryCounter(c) == Dispatch(c) /\ S' = Queried(S, SERVERTIME) /\ Rest

\* The conditions are initialised in turn, up to one whose initialisation fails: it
\* is not counted in num_waitconditions.
Counted(r, c) == IF r.ok THEN r ELSE [r EXCEPT !.s.await[c] = Front(@)]
Blank(x) == [counter |-> None, check |-> x.test, value |-> 0, test |-> x.test]
InitCondition(r, c, x) ==
    LET more == [r.s EXCEPT !.await[c] = Append(@, Blank(x))]
    IN  IF r.ok THEN Counted(SyncInitTrigger(more, <<c, Len(more.await[c])>>, x), c) ELSE r
Conditions(s, c, list) ==
    Walk(LAMBDA r, x : InitCondition(r, c, x), [s |-> [s EXCEPT !.await[c] = <<>>], ok |-> TRUE],
         list)
InitConditions(s, c, list) == Conditions(s, c, list)[Len(list)]

\* The client is ignored, and attended to again if a condition is TRUE already.
Waits(s, c) ==
    IF \E i \in DOMAIN s.await[c] : AlreadyTrue(s, <<c, i>>)
    THEN SyncAwaitTriggerFired(s, c, None) ELSE s
Awaited(r, c) ==
    IF r.ok THEN Waits([r.s EXCEPT !.ignored = @ \cup {c}], c) ELSE FreeAwait(r.s, c, None)

ProcSyncAwait(c, list) ==
    Dispatch(c) /\ S' = Awaited(InitConditions(S, c, list), c) /\ Rest

\* SyncChangeAlarmAttributes: delta and test-type are set before they are looked
\* at together.
Activated(r, a) == IF r.ok THEN [r EXCEPT !.s.alarm[a].state = "Active"] ELSE r
SyncChangeAlarmAttributes(s, a, x) ==
    LET set == [s EXCEPT !.alarm[a].test = x.test, !.alarm[a].delta = x.delta]
        match == IF x.test \in {"PositiveComparison", "PositiveTransition"} THEN x.delta >= 0
                 ELSE x.delta <= 0
    IN  IF match THEN Activated(SyncInitTrigger(set, <<a, 0>>, x), a)
        ELSE [s |-> set, ok |-> FALSE]

\* An alarm that is TRUE already goes off at once.
Alarmed(s, a) == IF AlreadyTrue(s, <<a, 0>>) THEN SyncAlarmTriggerFired(s, a) ELSE s
Created(r, a, x) ==
    IF ~r.ok THEN [r.s EXCEPT !.alarm[a] = None]
    ELSE IF x.counter = None THEN [r.s EXCEPT !.alarm[a].state = "Inactive"]
    ELSE Alarmed(r.s, a)
Changed(r, a) == IF r.ok THEN Alarmed(r.s, a) ELSE r.s

ProcSyncCreateAlarm(c, a, x) ==
    LET default == [client |-> c, counter |-> None, check |-> "PositiveComparison", value |-> 0,
                    test |-> "PositiveComparison", delta |-> 1, state |-> "Inactive"]
        set == [S EXCEPT !.alarm[a] = default]
    IN  /\ Dispatch(c) /\ S.alarm[a] = None
        /\ S' = Created(SyncChangeAlarmAttributes(set, a, x), a, x) /\ Rest

ProcSyncChangeAlarm(c, a, x) ==
    /\ Dispatch(c) /\ S.alarm[a] # None
    /\ Becomes(Changed(SyncChangeAlarmAttributes(S, a, x), a)) /\ Rest

ProcSyncDestroyAlarm(c, a) ==
    /\ Dispatch(c) /\ S.alarm[a] # None /\ Becomes(FreeAlarm(S, a)) /\ Rest

\* CloseDownClient: the resources in the order of their hash.
CloseDownClient(c) ==
    /\ phase = "dispatch" /\ S.alive /\ c \notin S.gone
    /\ \E order \in Bijection(1..Cardinality(Resources(c)), Resources(c)) :
          Becomes([Deleted([S EXCEPT !.gone = @ \cup {c}], order)[Len(order)] EXCEPT
                      !.ignored = @ \ {c}])
    /\ UNCHANGED <<clock, phase, timeout>>

(***************************************************************************)
(* Time.                                                                   *)
(***************************************************************************)
\* ServertimeBlockHandler.
Block ==
    /\ phase = "dispatch" /\ S.alive /\ phase' = "asleep"
    /\ timeout' = IF ~S.pnext THEN None ELSE IF clock >= S.greater THEN clock ELSE S.greater
    /\ UNCHANGED <<S, clock>>

\* ServertimeWakeupHandler, when select returns.
Wakeup ==
    /\ phase = "asleep" /\ phase' = "dispatch" /\ timeout' = None
    /\ Becomes(IF S.pnext /\ clock >= S.greater THEN SyncChangeCounter(S, SERVERTIME, clock) ELSE S)
    /\ UNCHANGED clock

Tick == clock < MaxTime /\ clock' = clock + 1 /\ UNCHANGED <<S, phase, timeout>>

----------------------------------------------------------------------------
Requests(c) ==
    \/ \E k \in Counters, v \in Values : CreateCounter(c, k, v) \/ SetCounter(c, k, v)
    \/ (\E k \in Counters : ProcSyncDestroyCounter(c, k)) \/ ProcSyncQueryCounter(c)
    \/ \E list \in AwaitLists : ProcSyncAwait(c, list)
    \/ \E a \in Alarms, x \in AlarmSettings :
          ProcSyncCreateAlarm(c, a, x) \/ ProcSyncChangeAlarm(c, a, x)
    \/ \E a \in Alarms : ProcSyncDestroyAlarm(c, a)
    \/ CloseDownClient(c)

Next == (\E c \in Clients : Requests(c)) \/ Block \/ Wakeup \/ Tick

Spec == Init /\ [][Next]_vars

\* Time passes, the server goes to sleep when it has no more to do, and select
\* returns when its timeout has come: Wakeup is weakly fair then (it is enabled
\* exactly in these states, and leaves them).
TimesOut == phase = "asleep" /\ timeout # None /\ clock >= timeout
FairSpec == Spec /\ WF_vars(Block) /\ WF_vars(Tick) /\ []<>~TimesOut

(***************************************************************************)
(* Properties.                                                             *)
(***************************************************************************)
\* Every variable has its type.
TypeOK ==
    /\ S \in State
    /\ clock \in 0..MaxTime /\ phase \in {"dispatch", "asleep"}
    /\ timeout \in 0..MaxValue \cup {None}

\* The server ignores a client exactly while its Await waits: none is left
\* ignored for good, and none is attended to while it waits, whichever way the
\* await ends (SyncAwaitTriggerFired, FreeAwait, errors of ProcSyncAwait).
WaitersIgnored == S.alive => S.ignored = {c \in Clients : S.await[c] # None}

\* A list has only triggers that exist and wait for this counter, each once: no
\* walk of a list, however it was cut before, meets a trigger that was freed.  And
\* every value stays in its 64 bits, which SyncAlarmTriggerFired adds to (TypeOK).
ListsMatch ==
    /\ TypeOK
    /\ S.alive => \A k \in AllCounters :
        /\ IsInjective(S.list[k])
        /\ \A t \in ToSet(S.list[k]) : WaitsFor(S, t, k)

\* A condition in the list of a client's counter is not so already: no comparison
\* there is TRUE, from before the await began or by a change that passed it over.
NoneOverdue ==
    S.alive => \A k \in Counters : \A t \in ToSet(S.list[k]) :
        ~IsAlarm(t) /\ Trigger(S, t).check \in Comparisons => ~CheckTrigger(S, t, None)

\* An await ends only if one of its conditions has come true, the counter of one
\* was destroyed in this step, or the client closed down.
Reason(c) ==
    \/ c \in S'.gone
    \/ \E i \in DOMAIN S.await[c] :
          LET x == S.await[c][i] IN
          /\ Exists(S, x.counter)
          /\ \/ ~Exists(S', x.counter)
             \/ Check(x.check, S.value[x.counter], S'.value[x.counter], x.value)
ReleasedForAReason == [][\A c \in Clients : S.await[c] # None /\ S'.await[c] = None => Reason(c)]_vars

\* When the counter of a client changes, each alarm and await in its list that waits
\* for the change goes off in that step: the await ends, the alarm moves its value
\* or becomes inactive.  (An alarm on a transition whose delta is 0 only sends its
\* event.)  And each condition of an await is in the list of its counter from the
\* step in which the await begins, until a trigger behind it is deleted.
Moves(x) == x.state = "Active" /\ (x.delta # 0 \/ x.test \in Comparisons)
Noticed(t) ==
    IF IsAlarm(t) THEN S'.alarm[t[1]] # S.alarm[t[1]] ELSE S'.await[t[1]] = None
ComesTrue(t, k) ==
    /\ S'.value[k] # S.value[k]
    /\ Check(Trigger(S, t).check, S.value[k], S'.value[k], Trigger(S, t).value)
ListedNotice(k) ==
    \A t \in ToSet(S.list[k]) :
        ComesTrue(t, k) /\ (IsAlarm(t) => Moves(S.alarm[t[1]])) => Noticed(t)
DroppedBefore(c, i, k) == S.await[c] # None /\ <<c, i>> \notin ToSet(S.list[k])
DroppedNow(c, i, k) ==
    \E at, behind \in DOMAIN S.list[k] :
        at < behind /\ S.list[k][at] = <<c, i>> /\ ~WaitsFor(S', S.list[k][behind], k)
KeepsPlace(c) ==
    \A i \in DOMAIN S'.await[c] :
        LET k == S'.await[c][i].counter IN
        <<c, i>> \in ToSet(S'.list[k]) \/ DroppedBefore(c, i, k) \/ DroppedNow(c, i, k)
ChangesNoticed ==
    [][S'.alive => /\ \A k \in Counters : Exists(S, k) /\ Exists(S', k) => ListedNotice(k)
                   /\ \A c \in Clients : S'.await[c] # None => KeepsPlace(c)]_vars

\* "This function should always be used to change a counter's value so that any
\* triggers depending on the counter will be checked" (sync.c): those of an await
\* that are in no list any more, too.
AllNotice(k) ==
    \A t \in Triggers(S) : WaitsFor(S, t, k) /\ ComesTrue(t, k) /\ ~IsAlarm(t) => Noticed(t)
EveryChangeNoticed ==
    [][S'.alive => \A k \in Counters : Exists(S, k) /\ Exists(S', k) => AllNotice(k)]_vars

\* "The processing of further requests for the client is blocked until one or
\* more of the triggers becomes TRUE" (sync.tex): who waits for a time,
\* in the list of SERVERTIME, goes on when it has come.
Due(c) ==
    S.await[c] # None /\ \E i \in DOMAIN S.await[c] :
        LET x == S.await[c][i] IN
        /\ x.counter = SERVERTIME /\ <<c, i>> \in ToSet(S.list[SERVERTIME])
        /\ x.check = "PositiveComparison" /\ clock >= x.value
AwaitReleased == \A c \in Clients : Due(c) ~> (~Due(c) \/ ~S.alive)

\* DestroyCounter "sets the counter fields for all triggers that specify this
\* counter to None" (sync.tex).
CounterForgotten == \A t \in Triggers(S), k \in Counters : IsAlarm(t) /\ WaitsFor(S, t, k) => Exists(S, k)
================================================================================
