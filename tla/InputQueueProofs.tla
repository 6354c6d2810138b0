--------------------------- MODULE InputQueueProofs ---------------------------
(***************************************************************************)
(* The ring of the input queue is correct for every size of the ring, any  *)
(* number of screens and any behaviour of the devices.                     *)
(***************************************************************************)
EXTENDS MCInputQueue, SequenceTheorems, TLAPS

USE QueueSizeAssumption

-----------------------------------------------------------------------------
(* Types.                                                                  *)

LEMMA StepsStayInRing ==
    ASSUME NEW i \in Index
    PROVE  Succ(i) \in Index /\ Pred(i) \in Index
BY DEF Index, Succ, Pred

LEMMA NewEventType ==
    ASSUME TypeOK, NEW motion \in BOOLEAN, NEW t \in Times
    PROVE  /\ NewEvent(motion, t) \in Event
           /\ NewEvent(motion, t).motion = motion
           /\ NewEvent(motion, t).id = Len(log) + 1
BY TimeAssumption DEF TypeOK, Event, Stamp, NewEvent

LogEntry == [motion : BOOLEAN, fate : Fates]

(* Writing down a new fate leaves the log a log.                           *)
LEMMA FateWritten ==
    ASSUME log \in Seq(LogEntry), NEW k, NEW f \in Fates
    PROVE  /\ Refated(k, f) \in Seq(LogEntry)
           /\ Len(Refated(k, f)) = Len(log)
           /\ \A n \in 1 .. Len(log) : Refated(k, f)[n].motion = log[n].motion
           /\ \A n \in 1 .. Len(log) : Refated(k, f)[n].fate = IF n = k THEN f ELSE log[n].fate
<1> DEFINE w == Refated(k, f)
<1>1. log \in [1 .. Len(log) -> LogEntry]
  OBVIOUS
<1>2. DOMAIN log = 1 .. Len(log) /\ DOMAIN w = DOMAIN log
  BY <1>1 DEF Refated
<1>3. ASSUME NEW n \in 1 .. Len(log)
      PROVE  /\ w[n] \in LogEntry
             /\ w[n].motion = log[n].motion
             /\ w[n].fate = IF n = k THEN f ELSE log[n].fate
  <2>1. log[n] \in LogEntry
    BY <1>1
  <2>2. w[n] = IF n = k THEN [log[n] EXCEPT !.fate = f] ELSE log[n]
    BY <1>2 DEF Refated
  <2>3. [log[n] EXCEPT !.fate = f] \in LogEntry
    BY <2>1 DEF LogEntry
  <2> QED
    BY <2>1, <2>2, <2>3 DEF LogEntry
<1>4. w = [n \in 1 .. Len(log) |-> w[n]]
  BY <1>2 DEF Refated
<1> HIDE DEF w
<1>5. w \in [1 .. Len(log) -> LogEntry]
  BY <1>3, <1>4
<1>6. w \in Seq(LogEntry) /\ Len(w) = Len(log)
  BY <1>5
<1> QED
  BY <1>3, <1>6 DEF w

LEMMA EnqueueType ==
    ASSUME TypeOK, NEW ev \in Event, NEW screen \in Screens,
           Merge(ev, screen) \/ Publish(ev, screen) \/ TossLate(ev)
    PROVE  /\ head' \in Index /\ tail' \in Index
           /\ lastMotion' \in BOOLEAN
           /\ slots' \in [Index -> Slot]
           /\ log' \in Seq(LogEntry)
           /\ runs' \in [Index -> SUBSET Nat]
<1>1. [ev |-> ev, screen |-> screen] \in Slot
  BY DEF Slot
<1>2. Pred(tail) \in Index /\ Succ(tail) \in Index
  BY StepsStayInRing DEF TypeOK
<1>3. ev.id \in Nat /\ ev.motion \in BOOLEAN
  BY DEF Event
<1>4. \A f \in Fates : Logged(ev, f) \in LogEntry
  BY <1>3 DEF Logged, LogEntry
<1>5. CASE Merge(ev, screen)
  <2>1. log' \in Seq(LogEntry)
    <3> DEFINE k == slots[Pred(tail)].ev.id
               merged == Refated(k, "merged")
    <3>1. merged \in Seq(LogEntry)
      BY FateWritten DEF TypeOK, LogEntry, Fates
    <3>2. log' = Append(merged, Logged(ev, "queued"))
      BY <1>5 DEF Merge
    <3> QED
      BY <3>1, <3>2, <1>4 DEF Fates
  <2> QED
    BY <1>5, <1>1, <1>2, <1>3, <2>1 DEF Merge, Store, TypeOK
<1>6. CASE Publish(ev, screen)
  <2>1. log' \in Seq(LogEntry)
    BY <1>6, <1>4 DEF Publish, TypeOK, LogEntry, Fates
  <2> QED
    BY <1>6, <1>1, <1>2, <1>3, <2>1 DEF Publish, Store, TypeOK
<1>7. CASE TossLate(ev)
  BY <1>7, <1>4 DEF TossLate, TypeOK, LogEntry, Fates, queueVars
<1> QED
  BY <1>5, <1>6, <1>7

(* Every variable keeps its type: no enqueue or advance leaves the ring.   *)
THEOREM TypeCorrect == Spec => []TypeOK
<1>1. Init => TypeOK
  <2> SUFFICES ASSUME Init PROVE TypeOK
    OBVIOUS
  <2>1. NoEvent \in Event /\ NoCopy \in Copy
    BY DEF NoEvent, Event, NoCopy, Copy
  <2>2. [ev |-> NoEvent, screen |-> NoScreen] \in Slot
    BY <2>1 DEF Slot
  <2>3. 0 \in Index
    BY DEF Index
  <2>4. slots \in [Index -> Slot] /\ runs \in [Index -> SUBSET Nat]
    BY <2>2 DEF Init
  <2>5. log \in Seq([motion : BOOLEAN, fate : Fates])
    BY DEF Init
  <2>6. head \in Index /\ tail \in Index /\ lastMotion \in BOOLEAN
    BY <2>3 DEF Init
  <2>7. enqueueScreen \in Screens /\ dequeueScreen \in Screens \cup {NoScreen}
    BY ScreenAssumption DEF Init
  <2>8. pc \in Places /\ xe \in Copy /\ last \in Copy
    BY <2>1 DEF Init, Places
  <2> QED
    BY <2>4, <2>5, <2>6, <2>7, <2>8 DEF TypeOK
<1>2. TypeOK /\ [Next]_vars => TypeOK'
  <2> SUFFICES ASSUME TypeOK, [Next]_vars PROVE TypeOK'
    OBVIOUS
  <2>1. ASSUME NEW t \in Times, NEW screen \in Screens, Motion(t, screen) PROVE TypeOK'
    BY <2>1, NewEventType, EnqueueType DEF Motion, Enqueue, TypeOK, LogEntry
  <2>2. ASSUME NEW t \in Times, KeyOrButton(t) PROVE TypeOK'
    BY <2>2, NewEventType, EnqueueType DEF KeyOrButton, Enqueue, TypeOK, screenVars, LogEntry
  <2>3. ASSUME NEW t \in Times, NEW screen \in Screens, NEW g \in BOOLEAN, Warp(t, screen, g)
        PROVE TypeOK'
    BY <2>3, NewEventType, EnqueueType DEF Warp, Enqueue, TypeOK, queueVars, LogEntry
  <2>4. CASE Enter
    BY <2>4 DEF Enter, TypeOK, queueVars, screenVars, histVars, Places
  <2>5. CASE Test
    BY <2>5 DEF Test, TypeOK, queueVars, screenVars, histVars, Places
  <2>6. CASE Compare
    <3>1. NoCopy \in Copy /\ [NoCopy EXCEPT !.to = "screen"] \in Copy
      BY DEF NoCopy, NoEvent, Copy, Event
    <3> QED
      BY <2>6, <3>1 DEF Compare, TypeOK, queueVars, screenVars, histVars, Places
  <2>7. CASE TakeScreen
    BY <2>7 DEF TakeScreen, TypeOK, queueVars, histVars, Places, Slot
  <2>8. CASE ReadFirst
    BY <2>8 DEF ReadFirst, TypeOK, queueVars, screenVars, histVars, Places, Slot, Copy
  <2>9. CASE ReadSecond
    BY <2>9 DEF ReadSecond, TypeOK, queueVars, screenVars, histVars, Places, Slot, Copy
  <2>10. CASE Advance
    <3>1. log' \in Seq(LogEntry)
      BY <2>10, FateWritten DEF Advance, TypeOK, Copy, Fates, LogEntry
    <3> QED
      BY <2>10, <3>1, StepsStayInRing DEF Advance, TypeOK, screenVars, Places, LogEntry
  <2>11. CASE UNCHANGED vars
    BY <2>11 DEF vars, TypeOK, queueVars, screenVars, histVars
  <2> QED
    BY <2>1, <2>2, <2>3, <2>4, <2>5, <2>6, <2>7, <2>8, <2>9, <2>10, <2>11
    DEF Next, Devices, MainLoop
<1> QED
  BY <1>1, <1>2, PTL DEF Spec

-----------------------------------------------------------------------------
(* The ring as a window of slots behind head.                              *)

LEMMA DistBounds ==
    ASSUME TypeOK
    PROVE  /\ \A i \in Index : Dist(i) \in 0 .. QUEUE_SIZE - 1
           /\ \A i, j \in Index : Dist(i) = Dist(j) => i = j
           /\ Dist(head) = 0
BY DEF TypeOK, Index, Dist

LEMMA NewestQueued ==
    ASSUME TypeOK, head # tail
    PROVE  /\ InQueue(head) /\ InQueue(Pred(tail))
           /\ Dist(Pred(tail)) = Dist(tail) - 1
BY DEF TypeOK, Index, Dist, InQueue, Pred

LEMMA RingGrows ==
    ASSUME TypeOK, ~Full, head' = head, tail' = Succ(tail)
    PROVE  /\ head' # tail'
           /\ Pred(tail') = tail
           /\ Dist(tail) \in Nat
           /\ \A i \in Index : Dist(i)' = Dist(i)
           /\ \A i \in Index : InQueue(i)' <=> InQueue(i) \/ i = tail
           /\ \A i \in Index : InQueue(i) => Dist(i) < Dist(tail) /\ i # tail
<1>1. head \in Index /\ tail \in Index /\ tail' \in Index
  BY StepsStayInRing DEF TypeOK
<1>3. head' # tail' /\ Pred(tail') = tail
  BY <1>1 DEF Full, Succ, Pred, Index
<1>4. \A i \in Index : Dist(i)' = Dist(i)
  BY DEF Dist
<1>5. \A i \in Index : InQueue(i)' <=> InQueue(i) \/ i = tail
  BY <1>1 DEF InQueue, Dist, Full, Succ, Index
<1>6. \A i \in Index : InQueue(i) => Dist(i) < Dist(tail) /\ i # tail
  BY <1>1 DEF InQueue, Dist, Index
<1> QED
  BY <1>1, <1>3, <1>4, <1>5, <1>6, DistBounds

LEMMA RingShrinks ==
    ASSUME TypeOK, head # tail, head' = Succ(head), tail' = tail
    PROVE  /\ \A i \in Index : InQueue(i)' <=> InQueue(i) /\ i # head
           /\ \A i \in Index : i # head => Dist(i)' = Dist(i) - 1
           /\ head' # tail' => Pred(tail) # head
BY DEF TypeOK, Index, InQueue, Dist, Succ, Pred

-----------------------------------------------------------------------------
(* What an enqueue does to the log and to the slots.                       *)

LEMMA LogGrows ==
    ASSUME NEW l \in Seq(LogEntry), NEW e \in LogEntry
    PROVE  /\ Len(Append(l, e)) = Len(l) + 1
           /\ \A n \in 1 .. Len(l) : Append(l, e)[n] = l[n]
           /\ Append(l, e)[Len(l) + 1] = e
OBVIOUS

LEMMA LoggedFields ==
    ASSUME NEW ev \in Event, NEW f \in Fates
    PROVE  /\ Logged(ev, f) \in LogEntry
           /\ Logged(ev, f).motion = ev.motion
           /\ Logged(ev, f).fate = f
BY DEF Logged, LogEntry, Event

LEMMA PublishKeeps ==
    ASSUME TypeOK, QueueInv, NEW ev \in Event, ev.id = Len(log) + 1,
           NEW screen \in Screens, Publish(ev, screen),
           UNCHANGED <<pc, xe, last>>, dequeueScreen' # NoScreen
    PROVE  QueueInv'
<1>1. /\ log \in Seq(LogEntry) /\ Len(log) \in Nat
      /\ head \in Index /\ tail \in Index /\ slots \in [Index -> Slot]
  BY DEF TypeOK, LogEntry
<1>2. /\ Len(log') = Len(log) + 1
      /\ \A n \in 1 .. Len(log) : log'[n] = log[n]
      /\ log'[ev.id].motion = ev.motion /\ log'[ev.id].fate = "queued"
  BY <1>1, LogGrows, LoggedFields DEF Publish, Fates
<1>3. /\ slots'[tail].ev = ev /\ slots'[tail].screen = screen
      /\ \A i \in Index : i # tail => slots'[i] = slots[i]
  BY <1>1 DEF Publish, Store
<1>4. /\ head' # tail' /\ Pred(tail') = tail
      /\ \A i \in Index : Dist(i)' = Dist(i)
      /\ \A i \in Index : InQueue(i)' <=> InQueue(i) \/ i = tail
      /\ \A i \in Index : InQueue(i) => Dist(i) < Dist(tail) /\ i # tail
  BY RingGrows DEF Publish
<1>5. last.fst.id < ev.id /\ last.fst.id <= Len(log')
  BY <1>1, <1>2 DEF QueueInv, RingInOrder, TypeOK, Copy, Event
<1>6. RingInOrder'
  <2>1. ASSUME NEW i \in Index, InQueue(i)'
        PROVE  LET e == slots'[i].ev IN
               /\ e.id \in 1 .. Len(log')
               /\ log'[e.id].fate = "queued"
               /\ log'[e.id].motion = e.motion
               /\ slots'[i].screen # NoScreen
               /\ last'.fst.id < e.id
    <3>1. CASE i = tail
      BY <3>1, <1>1, <1>2, <1>3, <1>5, ScreenAssumption
    <3>2. CASE i # tail
      BY <3>2, <2>1, <1>1, <1>2, <1>3, <1>4 DEF QueueInv, RingInOrder
    <3> QED
      BY <3>1, <3>2
  <2>2. ASSUME NEW i \in Index, NEW j \in Index, InQueue(i)', InQueue(j)', Dist(i)' < Dist(j)'
        PROVE  slots'[i].ev.id < slots'[j].ev.id
    <3>1. Dist(i) < Dist(j) /\ Dist(i) \in Int /\ Dist(j) \in Int /\ Dist(tail) \in Int
      BY <2>2, <1>1, <1>4, DistBounds
    <3>2. i # tail /\ InQueue(i)
      BY <3>1, <2>2, <1>4
    <3>3. CASE j = tail
      BY <3>3, <3>2, <1>1, <1>3 DEF QueueInv, RingInOrder
    <3>4. CASE j # tail
      BY <3>1, <3>2, <3>4, <2>2, <1>3, <1>4 DEF QueueInv, RingInOrder
    <3> QED
      BY <3>3, <3>4
  <2> QED
    BY <2>1, <2>2, <1>5 DEF RingInOrder
<1>7. CopyIsHead'
  <2>1. pc \in {"compare", "take", "read1", "read2", "advance"} => slots'[head] = slots[head]
    BY <1>1, <1>3 DEF QueueInv, CopyIsHead
  <2> QED
    BY <2>1, <1>4 DEF QueueInv, CopyIsHead, Publish
<1>8. LastMotionHonest'
  BY <1>3, <1>4 DEF LastMotionHonest, Publish
<1>9. KeysSurvive'
  <2> SUFFICES ASSUME NEW n \in 1 .. Len(log'), ~log'[n].motion
               PROVE  /\ log'[n].fate # "merged"
                      /\ log'[n].fate = "queued" =>
                            \E i \in Index : InQueue(i)' /\ slots'[i].ev.id = n
    BY DEF KeysSurvive
  <2>1. CASE n = ev.id
    <3>1. PICK i \in Index : i = tail
      BY <1>1
    <3>2. InQueue(i)' /\ slots'[i].ev.id = n
      BY <2>1, <3>1, <1>3, <1>4
    <3>3. log'[n].fate = "queued"
      BY <2>1, <1>2
    <3> QED
      BY <3>2, <3>3
  <2>2. CASE n # ev.id
    <3>1. n \in 1 .. Len(log)
      BY <2>2, <1>1, <1>2
    <3>2. /\ log'[n].fate # "merged"
          /\ log'[n].fate = "queued" => \E i \in Index : InQueue(i) /\ slots[i].ev.id = n
      BY <3>1, <1>2 DEF QueueInv, KeysSurvive
    <3>3. ASSUME NEW i \in Index, InQueue(i)
          PROVE  InQueue(i)' /\ slots'[i] = slots[i]
      BY <3>3, <1>3, <1>4
    <3> QED
      BY <3>2, <3>3
  <2> QED
    BY <2>1, <2>2
<1>10. KeysWhole'
  BY DEF QueueInv, KeysWhole
<1> QED
  BY <1>6, <1>7, <1>8, <1>9, <1>10 DEF QueueInv

LEMMA MergeKeeps ==
    ASSUME TypeOK, QueueInv, NEW ev \in Event, ev.id = Len(log) + 1,
           NEW screen \in Screens, Merge(ev, screen),
           UNCHANGED <<pc, xe, last>>, dequeueScreen' # NoScreen
    PROVE  QueueInv'
<1> DEFINE newest == Pred(tail)
           old == slots[newest].ev
<1>1. /\ log \in Seq(LogEntry) /\ Len(log) \in Nat
      /\ head \in Index /\ tail \in Index /\ slots \in [Index -> Slot]
      /\ newest \in Index
  BY StepsStayInRing DEF TypeOK, LogEntry
<1>2. /\ head # tail /\ ev.motion
      /\ InQueue(newest) /\ Dist(newest) = Dist(tail) - 1
      /\ old.motion /\ old.id \in 1 .. Len(log)
      /\ last.fst.id < old.id
      /\ log[old.id].fate = "queued" /\ log[old.id].motion = old.motion
  BY <1>1, NewestQueued DEF Merge, Coalesces, QueueInv, RingInOrder, LastMotionHonest
<1>3. /\ Len(log') = Len(log) + 1
      /\ \A n \in 1 .. Len(log) : log'[n].motion = log[n].motion
      /\ \A n \in 1 .. Len(log) : n # old.id => log'[n].fate = log[n].fate
      /\ log'[old.id].fate = "merged"
      /\ log'[ev.id].motion = ev.motion /\ log'[ev.id].fate = "queued"
  <2> DEFINE w == Refated(old.id, "merged")
  <2>1. /\ w \in Seq(LogEntry) /\ Len(w) = Len(log)
        /\ \A n \in 1 .. Len(log) : w[n].motion = log[n].motion
        /\ \A n \in 1 .. Len(log) : w[n].fate = IF n = old.id THEN "merged" ELSE log[n].fate
    BY <1>1, FateWritten DEF Fates
  <2>2. log' = Append(w, Logged(ev, "queued"))
    BY DEF Merge
  <2> HIDE DEF w
  <2>3. Logged(ev, "queued") \in LogEntry
    BY LoggedFields DEF Fates
  <2>4. /\ Len(log') = Len(w) + 1
        /\ \A n \in 1 .. Len(w) : log'[n] = w[n]
        /\ log'[Len(w) + 1] = Logged(ev, "queued")
    BY <2>1, <2>2, <2>3, LogGrows
  <2>5. log'[ev.id].motion = ev.motion /\ log'[ev.id].fate = "queued"
    BY <2>1, <2>4, LoggedFields DEF Fates
  <2> QED
    BY <2>1, <2>4, <2>5, <1>2
<1>4. /\ slots'[newest].ev = ev /\ slots'[newest].screen = screen
      /\ \A i \in Index : i # newest => slots'[i] = slots[i]
  BY <1>1 DEF Merge, Store
<1>5. /\ head' = head /\ tail' = tail /\ lastMotion' = ev.motion
      /\ \A i \in Index : Dist(i)' = Dist(i)
      /\ \A i \in Index : InQueue(i)' <=> InQueue(i)
  BY DEF Merge, Dist, InQueue
<1>6. \A i \in Index : InQueue(i) /\ i # newest =>
          Dist(i) < Dist(newest) /\ slots[i].ev.id < old.id
  <2> SUFFICES ASSUME NEW i \in Index, InQueue(i), i # newest
               PROVE  Dist(i) < Dist(newest) /\ slots[i].ev.id < old.id
    OBVIOUS
  <2>1. Dist(i) < Dist(newest)
    BY <1>1, <1>2, DistBounds DEF InQueue
  <2> QED
    BY <2>1, <1>1, <1>2 DEF QueueInv, RingInOrder
<1>7. RingInOrder'
  <2>1. last'.fst.id <= Len(log') /\ last'.fst.id < ev.id
    BY <1>1, <1>2, <1>3 DEF QueueInv, RingInOrder, TypeOK, Copy, Event
  <2>2. ASSUME NEW i \in Index, InQueue(i)'
        PROVE  LET e == slots'[i].ev IN
               /\ e.id \in 1 .. Len(log')
               /\ log'[e.id].fate = "queued"
               /\ log'[e.id].motion = e.motion
               /\ slots'[i].screen # NoScreen
               /\ last'.fst.id < e.id
    <3>1. CASE i = newest
      BY <3>1, <2>1, <1>1, <1>3, <1>4, ScreenAssumption
    <3>2. CASE i # newest
      <4>1. InQueue(i) /\ slots'[i] = slots[i] /\ slots[i].ev.id < old.id
        BY <3>2, <2>2, <1>4, <1>5, <1>6
      <4>2. /\ slots[i].ev.id \in 1 .. Len(log)
            /\ slots[i].ev.id # old.id
            /\ last.fst.id < slots[i].ev.id
            /\ slots[i].screen # NoScreen
            /\ log[slots[i].ev.id].fate = "queued"
            /\ log[slots[i].ev.id].motion = slots[i].ev.motion
        BY <4>1, <1>1, <1>2 DEF QueueInv, RingInOrder
      <4> QED
        BY <4>1, <4>2, <1>1, <1>3
    <3> QED
      BY <3>1, <3>2
  <2>3. ASSUME NEW i \in Index, NEW j \in Index, InQueue(i)', InQueue(j)', Dist(i)' < Dist(j)'
        PROVE  slots'[i].ev.id < slots'[j].ev.id
    <3>1. /\ InQueue(i) /\ InQueue(j) /\ Dist(i) < Dist(j)
          /\ Dist(i) \in Int /\ Dist(j) \in Int
      BY <2>3, <1>5, DistBounds
    <3>2. i # newest
      BY <3>1, <1>1, <1>2, DistBounds DEF InQueue
    <3>3. CASE j = newest
      BY <3>1, <3>2, <3>3, <1>1, <1>4 DEF QueueInv, RingInOrder
    <3>4. CASE j # newest
      BY <3>1, <3>2, <3>4, <1>4 DEF QueueInv, RingInOrder
    <3> QED
      BY <3>3, <3>4
  <2> QED
    BY <2>1, <2>2, <2>3 DEF RingInOrder, QueueInv
<1>8. CopyIsHead'
  <2>1. CASE head = newest
    <3>1. slots'[head'].ev = ev
      BY <2>1, <1>4, <1>5
    <3>2. ASSUME pc \in {"read2", "advance"}
          PROVE  last.fst.id < xe.fst.id /\ xe.fst.id <= ev.id /\ xe.fst.motion = ev.motion
      <4>1. last.fst.id < xe.fst.id /\ xe.fst.id <= old.id /\ xe.fst.motion = old.motion
        BY <3>2, <2>1 DEF QueueInv, CopyIsHead
      <4>2. xe.fst.id \in Nat /\ ev.motion \in BOOLEAN /\ old.motion \in BOOLEAN
        BY <1>1 DEF TypeOK, Copy, Event, Slot
      <4> QED
        BY <4>1, <4>2, <1>1, <1>2
    <3> QED
      BY <3>1, <3>2, <1>2, <1>5 DEF CopyIsHead
  <2>2. CASE head # newest
    BY <2>2, <1>1, <1>4, <1>5 DEF QueueInv, CopyIsHead
  <2> QED
    BY <2>1, <2>2
<1>9. LastMotionHonest'
  <2>1. Pred(tail)' = newest
    BY <1>5 DEF Pred
  <2> QED
    BY <2>1, <1>2, <1>4, <1>5 DEF LastMotionHonest
<1>10. KeysSurvive'
  <2> SUFFICES ASSUME NEW n \in 1 .. Len(log'), ~log'[n].motion
               PROVE  /\ log'[n].fate # "merged"
                      /\ log'[n].fate = "queued" =>
                            \E i \in Index : InQueue(i)' /\ slots'[i].ev.id = n
    BY DEF KeysSurvive
  <2>1. n # ev.id /\ n # old.id
    BY <1>2, <1>3
  <2>2. n \in 1 .. Len(log) /\ log'[n].fate = log[n].fate /\ ~log[n].motion
    BY <2>1, <1>1, <1>3
  <2>3. log[n].fate # "merged"
    BY <2>2 DEF QueueInv, KeysSurvive
  <2>4. ASSUME log[n].fate = "queued"
        PROVE  \E i \in Index : InQueue(i)' /\ slots'[i].ev.id = n
    <3>1. PICK i \in Index : InQueue(i) /\ slots[i].ev.id = n
      BY <2>2, <2>4 DEF QueueInv, KeysSurvive
    <3>2. i # newest
      BY <2>1, <3>1
    <3> QED
      BY <3>1, <3>2, <1>4, <1>5
  <2> QED
    BY <2>2, <2>3, <2>4
<1>11. KeysWhole'
  BY DEF QueueInv, KeysWhole
<1> QED
  BY <1>7, <1>8, <1>9, <1>10, <1>11 DEF QueueInv

LEMMA TossKeeps ==
    ASSUME TypeOK, QueueInv, NEW ev \in Event, ev.id = Len(log) + 1, TossLate(ev),
           UNCHANGED <<pc, xe, last>>, dequeueScreen' # NoScreen
    PROVE  QueueInv'
<1>1. /\ log \in Seq(LogEntry) /\ Len(log) \in Nat
  BY DEF TypeOK, LogEntry
<1>2. /\ Len(log') = Len(log) + 1
      /\ \A n \in 1 .. Len(log) : log'[n] = log[n]
      /\ log'[ev.id].fate = "tossed"
  BY <1>1, LogGrows, LoggedFields DEF TossLate, Fates
<1>3. /\ UNCHANGED queueVars
      /\ \A i \in Index : Dist(i)' = Dist(i)
      /\ \A i \in Index : InQueue(i)' <=> InQueue(i)
  BY DEF TossLate, queueVars, Dist, InQueue
<1>4. RingInOrder'
  <2>1. /\ Len(log') = Len(log) + 1 /\ Len(log) \in Nat
        /\ last.fst.id \in Nat /\ last.fst.id <= Len(log)
        /\ \A i \in Index : slots[i].ev.id \in Nat
    BY <1>1, <1>2 DEF QueueInv, RingInOrder, TypeOK, Copy, Event, Slot
  <2>2. \A i \in Index : InQueue(i) =>
            /\ slots[i].ev.id \in 1 .. Len(log')
            /\ log'[slots[i].ev.id] = log[slots[i].ev.id]
    BY <1>2, <2>1 DEF QueueInv, RingInOrder
  <2> QED
    BY <1>1, <1>3, <2>1, <2>2 DEF QueueInv, RingInOrder, queueVars
<1>5. CopyIsHead' /\ LastMotionHonest'
  BY <1>3 DEF QueueInv, CopyIsHead, LastMotionHonest, Pred, queueVars
<1>6. KeysSurvive' /\ KeysWhole'
  BY <1>1, <1>2, <1>3 DEF QueueInv, KeysSurvive, KeysWhole, queueVars
<1> QED
  BY <1>4, <1>5, <1>6 DEF QueueInv

LEMMA EnqueueKeeps ==
    ASSUME TypeOK, QueueInv, NEW motion \in BOOLEAN, NEW t \in Times, NEW screen \in Screens,
           Enqueue(motion, t, screen),
           UNCHANGED <<pc, xe, last>>, dequeueScreen' # NoScreen
    PROVE  QueueInv'
BY NewEventType, MergeKeeps, PublishKeeps, TossKeeps DEF Enqueue

-----------------------------------------------------------------------------
(* What the main loop does.                                                *)

LEMMA AdvanceKeeps ==
    ASSUME TypeOK, QueueInv, Advance
    PROVE  QueueInv' /\ last.fst.id < last'.fst.id
<1> DEFINE id == xe.fst.id
<1>1. /\ log \in Seq(LogEntry) /\ Len(log) \in Nat
      /\ head \in Index /\ tail \in Index /\ slots \in [Index -> Slot]
      /\ xe.to \in Fates /\ id \in Nat /\ last.fst.id \in Nat
  BY DEF TypeOK, LogEntry, Copy, Event, Fates
<1>2. /\ head # tail /\ last.fst.id < id /\ id <= slots[head].ev.id
      /\ ~slots[head].ev.motion => id = slots[head].ev.id
      /\ NeverMixed(xe)
  BY DEF Advance, QueueInv, CopyIsHead, KeysWhole
<1>3. /\ slots[head].ev.id \in 1 .. Len(log)
      /\ log[slots[head].ev.id].motion = slots[head].ev.motion
  BY <1>1, <1>2, NewestQueued DEF QueueInv, RingInOrder
<1>4. /\ Len(log') = Len(log)
      /\ \A n \in 1 .. Len(log) : log'[n].motion = log[n].motion
      /\ \A n \in 1 .. Len(log) : log'[n].fate = IF n = id THEN xe.to ELSE log[n].fate
  <2>1. log' = Refated(id, xe.to)
    BY DEF Advance
  <2> QED
    BY <2>1, <1>1, FateWritten
<1>5. /\ \A i \in Index : InQueue(i)' <=> InQueue(i) /\ i # head
      /\ \A i \in Index : i # head => Dist(i)' = Dist(i) - 1
      /\ head' # tail' => Pred(tail) # head
  BY <1>2, RingShrinks DEF Advance
<1>6. /\ slots' = slots /\ last' = xe /\ dequeueScreen' = dequeueScreen
      /\ pc' = "test" /\ lastMotion' = lastMotion /\ tail' = tail
  BY DEF Advance, screenVars
<1>7. \A i \in Index : InQueue(i) /\ i # head => id < slots[i].ev.id
  <2> SUFFICES ASSUME NEW i \in Index, InQueue(i), i # head
               PROVE  id < slots[i].ev.id
    OBVIOUS
  <2>1. Dist(head) < Dist(i)
    BY <1>1, DistBounds
  <2>2. slots[head].ev.id < slots[i].ev.id /\ slots[i].ev.id \in Nat
    BY <2>1, <1>1, <1>2, NewestQueued DEF QueueInv, RingInOrder
  <2> QED
    BY <2>2, <1>1, <1>2, <1>3
<1>8. RingInOrder'
  <2>1. last'.fst.id <= Len(log')
    BY <1>1, <1>2, <1>3, <1>4, <1>6
  <2>2. ASSUME NEW i \in Index, InQueue(i)'
        PROVE  LET e == slots'[i].ev IN
               /\ e.id \in 1 .. Len(log')
               /\ log'[e.id].fate = "queued"
               /\ log'[e.id].motion = e.motion
               /\ slots'[i].screen # NoScreen
               /\ last'.fst.id < e.id
    <3>1. InQueue(i) /\ i # head /\ id < slots[i].ev.id
      BY <2>2, <1>5, <1>7
    <3> QED
      BY <3>1, <1>1, <1>4, <1>6 DEF QueueInv, RingInOrder
  <2>3. ASSUME NEW i \in Index, NEW j \in Index, InQueue(i)', InQueue(j)', Dist(i)' < Dist(j)'
        PROVE  slots'[i].ev.id < slots'[j].ev.id
    <3>1. InQueue(i) /\ InQueue(j) /\ Dist(i) < Dist(j)
      BY <2>3, <1>5, DistBounds
    <3> QED
      BY <3>1, <1>6 DEF QueueInv, RingInOrder
  <2> QED
    BY <2>1, <2>2, <2>3, <1>6 DEF RingInOrder, QueueInv
<1>9. CopyIsHead'
  BY <1>6 DEF CopyIsHead
<1>10. LastMotionHonest'
  BY <1>2, <1>5, <1>6 DEF QueueInv, LastMotionHonest, Pred
<1>11. KeysSurvive'
  <2> SUFFICES ASSUME NEW n \in 1 .. Len(log'), ~log'[n].motion
               PROVE  /\ log'[n].fate # "merged"
                      /\ log'[n].fate = "queued" =>
                            \E i \in Index : InQueue(i)' /\ slots'[i].ev.id = n
    BY DEF KeysSurvive
  <2>1. n \in 1 .. Len(log) /\ ~log[n].motion
    BY <1>4
  <2>2. CASE n = id
    BY <2>1, <2>2, <1>4 DEF TypeOK, Copy
  <2>3. CASE n # id /\ log[n].fate # "queued"
    BY <2>1, <2>3, <1>4 DEF QueueInv, KeysSurvive
  <2>4. CASE n # id /\ log[n].fate = "queued"
    <3>1. PICK i \in Index : InQueue(i) /\ slots[i].ev.id = n
      BY <2>1, <2>4 DEF QueueInv, KeysSurvive
    <3>2. i # head
      BY <2>1, <2>4, <3>1, <1>2, <1>3
    <3> QED
      BY <2>1, <2>4, <3>1, <3>2, <1>4, <1>5, <1>6
  <2> QED
    BY <2>2, <2>3, <2>4
<1>12. KeysWhole'
  BY <1>2, <1>6 DEF KeysWhole
<1> QED
  BY <1>2, <1>6, <1>8, <1>9, <1>10, <1>11, <1>12 DEF QueueInv

(* A step of the loop that only reads the ring.                            *)
LEMMA ReadKeeps ==
    ASSUME TypeOK, QueueInv, UNCHANGED <<queueVars, histVars>>,
           dequeueScreen' # NoScreen, CopyIsHead', KeysWhole'
    PROVE  QueueInv'
<1>1. /\ \A i \in Index : Dist(i)' = Dist(i)
      /\ \A i \in Index : InQueue(i)' <=> InQueue(i)
  BY DEF queueVars, Dist, InQueue
<1> QED
  BY <1>1 DEF QueueInv, RingInOrder, LastMotionHonest, KeysSurvive, Pred, queueVars,
              histVars

LEMMA MainLoopKeeps ==
    ASSUME TypeOK, QueueInv, MainLoop
    PROVE  QueueInv' /\ (last' # last => last.fst.id < last'.fst.id)
<1>1. dequeueScreen # NoScreen
  BY DEF QueueInv, RingInOrder
<1>0. pc' # "advance" /\ last' = last => KeysWhole'
  BY DEF QueueInv, KeysWhole
<1>2. CASE Enter
  <2>1. CopyIsHead'
    BY <1>2 DEF Enter, CopyIsHead
  <2> QED
    BY <1>0, <1>1, <1>2, <2>1, ReadKeeps DEF Enter, screenVars, histVars
<1>3. CASE Test
  <2>1. CopyIsHead'
    BY <1>3 DEF Test, CopyIsHead, queueVars
  <2> QED
    BY <1>0, <1>1, <1>3, <2>1, ReadKeeps DEF Test, screenVars, histVars
<1>4. CASE Compare
  <2>1. CopyIsHead'
    BY <1>4 DEF Compare, CopyIsHead, QueueInv, queueVars
  <2> QED
    BY <1>0, <1>1, <1>4, <2>1, ReadKeeps DEF Compare, screenVars, histVars
<1>5. CASE TakeScreen
  <2>1. CopyIsHead' /\ head # tail
    BY <1>5 DEF TakeScreen, CopyIsHead, QueueInv, queueVars
  <2>2. dequeueScreen' # NoScreen
    BY <1>5, <2>1, NewestQueued DEF TakeScreen, QueueInv, RingInOrder, TypeOK
  <2> QED
    BY <1>0, <1>5, <2>1, <2>2, ReadKeeps DEF TakeScreen, histVars
<1>6. CASE ReadFirst
  <2>1. head # tail
    BY <1>6 DEF ReadFirst, QueueInv, CopyIsHead
  <2>2. last.fst.id < slots[head].ev.id /\ slots[head].ev.id \in Nat
    BY <2>1, NewestQueued DEF QueueInv, RingInOrder, TypeOK
  <2>3. xe'.fst = slots[head].ev /\ slots' = slots /\ head' = head /\ tail' = tail /\ last' = last
    BY <1>6 DEF ReadFirst, TypeOK, Copy, queueVars, histVars
  <2>4. CopyIsHead'
    BY <2>1, <2>2, <2>3 DEF CopyIsHead
  <2> QED
    BY <1>0, <1>1, <1>6, <2>4, ReadKeeps DEF ReadFirst, screenVars, histVars
<1>7. CASE ReadSecond
  <2>1. xe'.fst = xe.fst /\ xe'.snd = slots[head].ev
    BY <1>7 DEF ReadSecond, TypeOK, Copy
  <2>2. CopyIsHead'
    BY <1>7, <2>1 DEF ReadSecond, CopyIsHead, QueueInv, queueVars, histVars
  <2>3. KeysWhole'
    BY <1>7, <2>1 DEF ReadSecond, CopyIsHead, QueueInv, KeysWhole, NeverMixed, histVars
  <2> QED
    BY <1>1, <1>7, <2>2, <2>3, ReadKeeps DEF ReadSecond, screenVars, histVars
<1>8. CASE Advance
  BY <1>8, AdvanceKeeps
<1> QED
  BY <1>2, <1>3, <1>4, <1>5, <1>6, <1>7, <1>8 DEF MainLoop

-----------------------------------------------------------------------------
(* The invariant and what follows from it.                                 *)

LEMMA StepKeeps ==
    ASSUME TypeOK, QueueInv, [Next]_vars
    PROVE  QueueInv' /\ (last' # last => last.fst.id < last'.fst.id)
<1>1. dequeueScreen # NoScreen
  BY DEF QueueInv, RingInOrder
<1>2. ASSUME NEW t \in Times, NEW screen \in Screens, Motion(t, screen)
      PROVE  QueueInv' /\ last' = last
  BY <1>1, <1>2, EnqueueKeeps DEF Motion
<1>3. ASSUME NEW t \in Times, KeyOrButton(t)
      PROVE  QueueInv' /\ last' = last
  BY <1>1, <1>3, EnqueueKeeps DEF KeyOrButton, screenVars, TypeOK
<1>4. ASSUME NEW t \in Times, NEW screen \in Screens, NEW g \in BOOLEAN, Warp(t, screen, g)
      PROVE  QueueInv' /\ last' = last
  <2>1. dequeueScreen' # NoScreen /\ UNCHANGED <<pc, xe, last>>
    BY <1>4, ScreenAssumption DEF Warp
  <2>2. CASE g
    BY <1>4, <2>1, <2>2, EnqueueKeeps DEF Warp
  <2>3. CASE ~g
    <3>1. UNCHANGED <<queueVars, histVars>>
      BY <1>4, <2>1, <2>3 DEF Warp, histVars
    <3>2. CopyIsHead'
      BY <2>1, <3>1 DEF CopyIsHead, QueueInv, queueVars
    <3>3. KeysWhole'
      BY <2>1 DEF KeysWhole, QueueInv
    <3> QED
      BY <2>1, <3>1, <3>2, <3>3, ReadKeeps
  <2> QED
    BY <2>1, <2>2, <2>3
<1>5. CASE UNCHANGED vars
  <2>1. CopyIsHead'
    BY <1>5 DEF CopyIsHead, QueueInv, vars, queueVars, histVars
  <2>2. KeysWhole'
    BY <1>5 DEF KeysWhole, QueueInv, vars, histVars
  <2> QED
    BY <1>1, <1>5, <2>1, <2>2, ReadKeeps DEF vars, screenVars, histVars
<1> QED
  BY <1>2, <1>3, <1>4, <1>5, MainLoopKeeps DEF Next, Devices

LEMMA InitKeeps == Init => QueueInv
<1> SUFFICES ASSUME Init PROVE QueueInv
  OBVIOUS
<1>1. \A i \in Index : ~InQueue(i)
  BY DEF Init, InQueue, Dist, Index
<1>2. last.fst.id = 0 /\ Len(log) = 0
  BY DEF Init, NoCopy, NoEvent
<1>3. KeysWhole
  BY DEF Init, NoCopy, NeverMixed, KeysWhole
<1> QED
  BY <1>1, <1>2, <1>3, ScreenAssumption
  DEF Init, QueueInv, RingInOrder, CopyIsHead, LastMotionHonest, KeysSurvive

(* The ring is in order, and no key or button in it is ever overwritten,   *)
(* wherever the SIGIO handler interrupts the loop: the copy the loop holds *)
(* is the head event or one merged into it, so stepping over the head can  *)
(* lose a motion but never a key or a button.                              *)
THEOREM RingCorrect == Spec => []QueueInv
<1>1. Init => QueueInv
  BY InitKeeps
<1>2. TypeOK /\ QueueInv /\ [Next]_vars => QueueInv'
  BY StepKeeps
<1> QED
  BY <1>1, <1>2, TypeCorrect, PTL DEF Spec

(* Events are dispatched in the order they were generated, none twice.     *)
THEOREM DispatchedInOrder == Spec => DispatchInOrder
<1>1. TypeOK /\ QueueInv /\ [Next]_vars => [last' # last => last.fst.id < last'.fst.id]_vars
  BY StepKeeps
<1> QED
  BY <1>1, TypeCorrect, RingCorrect, PTL DEF Spec, DispatchInOrder

-----------------------------------------------------------------------------
(* The ring implements the bounded queue of InputFIFO.                     *)

(* Each slot in use knows what was merged into it, and the event the loop  *)
(* has copied is one of those of the slot at head.                         *)
RunsInv ==
    /\ \A i \in Index : InQueue(i) => slots[i].ev.id \in runs[i]
    /\ pc \in {"read2", "advance"} => xe.fst.id \in runs[head]

PlaceOf(i) == [motion |-> slots[i].ev.motion, ids |-> runs[i]]
WaitingPlaces == [motion : BOOLEAN, ids : SUBSET Nat]

(* The k-th slot behind the head.                                          *)
LEMMA NthIs ==
    ASSUME TypeOK
    PROVE  /\ Dist(tail) \in 0 .. QUEUE_SIZE - 1
           /\ \A k \in 1 .. Dist(tail) :
                 Nth(k) \in Index /\ Dist(Nth(k)) = k - 1 /\ InQueue(Nth(k))
           /\ head # tail => Dist(tail) >= 1 /\ Nth(1) = head /\ Nth(Dist(tail)) = Pred(tail)
           /\ Nth(Dist(tail) + 1) = tail
           /\ head = tail <=> Dist(tail) = 0
           /\ Full <=> Dist(tail) = QUEUE_SIZE - 1
<1>1. head \in Nat /\ tail \in Nat /\ head < QUEUE_SIZE /\ tail < QUEUE_SIZE
  BY DEF TypeOK, Index
<1>2. Dist(tail) \in 0 .. QUEUE_SIZE - 1
  BY <1>1 DEF Dist
<1>3. \A k \in 1 .. Dist(tail) :
         Nth(k) \in Index /\ Dist(Nth(k)) = k - 1 /\ InQueue(Nth(k))
  BY <1>1 DEF Dist, Nth, Index, InQueue
<1>4. head # tail => Dist(tail) >= 1 /\ Nth(1) = head /\ Nth(Dist(tail)) = Pred(tail)
  BY <1>1 DEF Dist, Nth, Pred
<1>5. Nth(Dist(tail) + 1) = tail
  BY <1>1 DEF Dist, Nth
<1>6. head = tail <=> Dist(tail) = 0
  BY <1>1 DEF Dist
<1>7. Full <=> Dist(tail) = QUEUE_SIZE - 1
  BY <1>1 DEF Dist, Full, Succ
<1> QED
  BY <1>2, <1>3, <1>4, <1>5, <1>6, <1>7

(* The places of the abstract queue, read off the ring.                    *)
LEMMA WaitingIs ==
    ASSUME TypeOK
    PROVE  /\ Waiting \in Seq(WaitingPlaces) /\ Len(Waiting) = Dist(tail)
           /\ \A k \in 1 .. Dist(tail) : Waiting[k] = PlaceOf(Nth(k))
           /\ head # tail => Waiting # <<>> /\ FIFO!Last(Waiting) = PlaceOf(Pred(tail))
           /\ head = tail => Waiting = <<>>
<1>1. PICK n \in Nat : n = Dist(tail)
  BY NthIs
<1>2. \A k \in 1 .. n : Waiting[k] = PlaceOf(Nth(k))
  BY <1>1 DEF Waiting, PlaceOf
<1>3. \A k \in 1 .. n : PlaceOf(Nth(k)) \in WaitingPlaces
  <2>1. \A k \in 1 .. n : Nth(k) \in Index
    BY <1>1, NthIs
  <2> QED
    BY <2>1 DEF PlaceOf, WaitingPlaces, TypeOK, Slot, Event
<1>4. Waiting \in [1 .. n -> WaitingPlaces]
  BY <1>1, <1>2, <1>3 DEF Waiting
<1>5. Waiting \in Seq(WaitingPlaces) /\ Len(Waiting) = n
  BY <1>4
<1>6. n # 0 => FIFO!Last(Waiting) = Waiting[n]
  BY <1>5 DEF FIFO!Last
<1>7. n = 0 => Waiting = <<>>
  BY <1>5
<1>8. n # 0 => Waiting # <<>>
  BY <1>5
<1> QED
  BY <1>1, <1>2, <1>5, <1>6, <1>7, <1>8, NthIs

(* The places after the last has been replaced, one added, the first taken *)
(* away.                                                                   *)
LEMMA LastReplaced ==
    ASSUME NEW w \in Seq(WaitingPlaces), NEW v \in Seq(WaitingPlaces), w # <<>>,
           NEW x \in WaitingPlaces,
           Len(v) = Len(w), \A k \in 1 .. Len(w) : v[k] = IF k = Len(w) THEN x ELSE w[k]
    PROVE  v = Append(FIFO!Front(w), x)
<1>1. PICK n \in Nat : n = Len(w) /\ n >= 1
  OBVIOUS
<1>2. PICK f : f = SubSeq(w, 1, n - 1)
  OBVIOUS
<1>3. f \in Seq(WaitingPlaces) /\ Len(f) = n - 1 /\ \A k \in 1 .. n - 1 : f[k] = w[k]
  BY <1>1, <1>2
<1>4. PICK a : a = Append(f, x)
  OBVIOUS
<1>5. /\ a \in Seq(WaitingPlaces) /\ Len(a) = n
      /\ \A k \in 1 .. n : a[k] = IF k = n THEN x ELSE w[k]
  BY <1>1, <1>3, <1>4
<1>6. v = a
  BY <1>1, <1>5, SeqEqual
<1> QED
  BY <1>1, <1>2, <1>4, <1>6 DEF FIFO!Front

LEMMA PlaceAdded ==
    ASSUME NEW w \in Seq(WaitingPlaces), NEW v \in Seq(WaitingPlaces), NEW x \in WaitingPlaces,
           Len(v) = Len(w) + 1,
           \A k \in 1 .. Len(w) + 1 : v[k] = IF k = Len(w) + 1 THEN x ELSE w[k]
    PROVE  v = Append(w, x)
<1>1. PICK n \in Nat : n = Len(w)
  OBVIOUS
<1>2. PICK a : a = Append(w, x)
  OBVIOUS
<1>3. /\ a \in Seq(WaitingPlaces) /\ Len(a) = n + 1
      /\ \A k \in 1 .. n + 1 : a[k] = IF k = n + 1 THEN x ELSE w[k]
  BY <1>1, <1>2
<1>4. v = a
  BY <1>1, <1>3, SeqEqual
<1> QED
  BY <1>2, <1>4

LEMMA PlaceRemoved ==
    ASSUME NEW w \in Seq(WaitingPlaces), NEW v \in Seq(WaitingPlaces), w # <<>>,
           Len(v) = Len(w) - 1, \A k \in 1 .. Len(w) - 1 : v[k] = w[k + 1]
    PROVE  v = Tail(w)
<1>1. PICK n \in Nat : n = Len(w) /\ n >= 1
  OBVIOUS
<1>2. PICK a : a = Tail(w)
  OBVIOUS
<1>3. a \in Seq(WaitingPlaces) /\ Len(a) = n - 1 /\ \A k \in 1 .. n - 1 : a[k] = w[k + 1]
  BY <1>1, <1>2
<1>4. v = a
  BY <1>1, <1>3, SeqEqual
<1> QED
  BY <1>2, <1>4

(* Each way an enqueue can end is a step of the abstract queue.            *)
LEMMA MergeJoins ==
    ASSUME TypeOK, QueueInv, RunsInv, NEW ev \in Event, ev.id = Len(log) + 1,
           NEW screen \in Screens, Merge(ev, screen), UNCHANGED <<pc, xe, last>>
    PROVE  RunsInv' /\ FIFO!Join
<1> DEFINE newest == Pred(tail)
<1>1. /\ head # tail /\ ev.motion /\ lastMotion /\ UNCHANGED <<head, tail>>
      /\ slots' = [slots EXCEPT ![newest] = [ev |-> ev, screen |-> screen]]
      /\ runs' = [runs EXCEPT ![newest] = @ \cup {ev.id}]
  BY DEF Merge, Coalesces, Store
<1>2. slots[newest].ev.motion /\ newest \in Index
  BY <1>1, StepsStayInRing DEF QueueInv, LastMotionHonest, TypeOK
<1>3. /\ \A i \in Index \ {newest} : slots'[i] = slots[i] /\ runs'[i] = runs[i]
      /\ slots'[newest].ev = ev /\ runs'[newest] = runs[newest] \cup {ev.id}
  BY <1>1, <1>2 DEF TypeOK
<1>4. /\ Dist(tail)' = Dist(tail) /\ \A k : Nth(k)' = Nth(k)
      /\ \A i \in Index : InQueue(i)' <=> InQueue(i)
  BY <1>1 DEF Dist, Nth, InQueue
<1>5. RunsInv'
  <2>1. \A i \in Index : InQueue(i)' => slots'[i].ev.id \in runs'[i]
    BY <1>2, <1>3, <1>4 DEF RunsInv
  <2>2. head \in Index /\ runs[head] \subseteq runs'[head]
    BY <1>3 DEF TypeOK
  <2> QED
    BY <1>1, <2>1, <2>2 DEF RunsInv
<1>6. Len(log') = Len(log) + 1
  <2> DEFINE l == Refated(slots[newest].ev.id, "merged")
  <2>1. l \in Seq(LogEntry) /\ Len(l) = Len(log)
    BY FateWritten DEF TypeOK, LogEntry, Fates
  <2>2. log' = Append(l, Logged(ev, "queued"))
    BY DEF Merge
  <2>3. Logged(ev, "queued") \in LogEntry
    BY LoggedFields DEF Fates
  <2> HIDE DEF l
  <2> QED
    BY <2>1, <2>2, <2>3
<1>7. PICK n \in Nat : n = Dist(tail) /\ n >= 1
  BY <1>1, NthIs
<1>8. PICK x : x = [motion |-> TRUE, ids |-> runs[newest] \cup {ev.id}]
  OBVIOUS
<1>9. x \in WaitingPlaces /\ ev.id \in Nat
  BY <1>2, <1>8 DEF WaitingPlaces, TypeOK, Event
<1>10. /\ Waiting \in Seq(WaitingPlaces) /\ Len(Waiting) = n /\ Waiting # <<>>
      /\ \A k \in 1 .. n : Waiting[k] = PlaceOf(Nth(k))
      /\ FIFO!Last(Waiting) = PlaceOf(newest)
  BY <1>1, <1>7, WaitingIs
<1>11. \A k \in 1 .. n : Nth(k) \in Index /\ (Nth(k) = newest <=> k = n)
  BY <1>1, <1>7, NthIs
<1>12. ASSUME NEW k \in 1 .. n
       PROVE  PlaceOf(Nth(k))' = IF k = n THEN x ELSE Waiting[k]
  <2>1. PlaceOf(Nth(k))' = [motion |-> slots'[Nth(k)].ev.motion, ids |-> runs'[Nth(k)]]
    BY <1>4 DEF PlaceOf
  <2>2. CASE k = n
    BY <2>1, <2>2, <1>1, <1>3, <1>8, <1>11
  <2>3. CASE k # n
    <3>1. Nth(k) \in Index \ {newest}
      BY <2>3, <1>11
    <3>2. slots'[Nth(k)] = slots[Nth(k)] /\ runs'[Nth(k)] = runs[Nth(k)]
      BY <3>1, <1>3
    <3> QED
      BY <2>1, <2>3, <3>2, <1>10 DEF PlaceOf
  <2> QED
    BY <2>2, <2>3
<1>13. Waiting' = [k \in 1 .. n |-> PlaceOf(Nth(k))']
  BY <1>4, <1>7 DEF Waiting, PlaceOf
<1>14. /\ Waiting' \in Seq(WaitingPlaces) /\ Len(Waiting') = n
       /\ \A k \in 1 .. n : Waiting'[k] = IF k = n THEN x ELSE Waiting[k]
  BY <1>7, <1>9, <1>10, <1>12, <1>13
<1>15. Waiting' = Append(FIFO!Front(Waiting), x)
  BY <1>7, <1>9, <1>10, <1>14, LastReplaced
<1>16. /\ x = FIFO!Place(TRUE, FIFO!Last(Waiting).ids \cup {Len(log')})
       /\ FIFO!Last(Waiting).motion
  <2>1. FIFO!Last(Waiting).ids = runs[newest] /\ FIFO!Last(Waiting).motion
    BY <1>2, <1>10 DEF PlaceOf
  <2>2. Len(log') = ev.id
    BY <1>6
  <2> QED
    BY <1>8, <2>1, <2>2 DEF FIFO!Place
<1> QED
  BY <1>5, <1>6, <1>10, <1>15, <1>16 DEF FIFO!Join, FIFO!Joins

LEMMA PublishAccepts ==
    ASSUME TypeOK, QueueInv, RunsInv, NEW ev \in Event, ev.id = Len(log) + 1,
           NEW screen \in Screens, Publish(ev, screen), UNCHANGED <<pc, xe, last>>
    PROVE  RunsInv' /\ FIFO!Accept(ev.motion)
<1>1. /\ ~Full /\ tail' = Succ(tail) /\ head' = head /\ ~Coalesces(ev.motion)
      /\ slots' = [slots EXCEPT ![tail] = [ev |-> ev, screen |-> screen]]
      /\ runs' = [runs EXCEPT ![tail] = {ev.id}]
      /\ log' = Append(log, Logged(ev, "queued"))
  BY DEF Publish, Store
<1>2. /\ tail \in Index
      /\ \A i \in Index \ {tail} : slots'[i] = slots[i] /\ runs'[i] = runs[i]
      /\ slots'[tail].ev = ev /\ runs'[tail] = {ev.id}
  BY <1>1 DEF TypeOK
<1>3. /\ \A i \in Index : InQueue(i)' <=> InQueue(i) \/ i = tail
      /\ \A i \in Index : InQueue(i) => i # tail
      /\ \A i \in Index : Dist(i)' = Dist(i)
  BY <1>1, RingGrows
<1>4. Dist(tail)' = Dist(tail) + 1 /\ \A k : Nth(k)' = Nth(k)
  <2>1. \A k : Nth(k)' = Nth(k)
    BY <1>1 DEF Nth
  <2>2. Dist(tail)' = Dist(tail) + 1
    BY <1>1 DEF Dist, Full, Succ, TypeOK, Index
  <2> QED
    BY <2>1, <2>2
<1>5. RunsInv'
  <2>1. \A i \in Index : InQueue(i)' => slots'[i].ev.id \in runs'[i]
    BY <1>2, <1>3 DEF RunsInv
  <2>2. pc \in {"read2", "advance"} => head # tail /\ head \in Index
    BY DEF QueueInv, CopyIsHead, TypeOK
  <2> QED
    BY <1>1, <1>2, <2>1, <2>2 DEF RunsInv
<1>6. Len(log') = Len(log) + 1
  <2>1. Logged(ev, "queued") \in LogEntry
    BY LoggedFields DEF Fates
  <2> QED
    BY <1>1, <2>1, LogGrows DEF TypeOK, LogEntry
<1>7. PICK n \in Nat : n = Dist(tail) /\ n < QUEUE_SIZE - 1
  BY <1>1, NthIs
<1>8. PICK x : x = [motion |-> ev.motion, ids |-> {ev.id}]
  OBVIOUS
<1>9. x \in WaitingPlaces
  BY <1>8 DEF WaitingPlaces, Event
<1>10. /\ Waiting \in Seq(WaitingPlaces) /\ Len(Waiting) = n
      /\ \A k \in 1 .. n : Waiting[k] = PlaceOf(Nth(k))
  BY <1>7, WaitingIs
<1>11. /\ \A k \in 1 .. n : Nth(k) \in Index /\ Nth(k) # tail
       /\ Nth(n + 1) = tail
  BY <1>3, <1>7, NthIs
<1>12. ASSUME NEW k \in 1 .. n + 1
       PROVE  PlaceOf(Nth(k))' = IF k = n + 1 THEN x ELSE Waiting[k]
  <2>1. PlaceOf(Nth(k))' = [motion |-> slots'[Nth(k)].ev.motion, ids |-> runs'[Nth(k)]]
    BY <1>4 DEF PlaceOf
  <2>2. CASE k = n + 1
    BY <2>1, <2>2, <1>2, <1>8, <1>11
  <2>3. CASE k # n + 1
    <3>1. k \in 1 .. n /\ Nth(k) \in Index \ {tail}
      BY <2>3, <1>7, <1>11
    <3>2. slots'[Nth(k)] = slots[Nth(k)] /\ runs'[Nth(k)] = runs[Nth(k)]
      BY <3>1, <1>2
    <3> QED
      BY <2>1, <2>3, <3>1, <3>2, <1>10 DEF PlaceOf
  <2> QED
    BY <2>2, <2>3
<1>13. Waiting' = [k \in 1 .. n + 1 |-> PlaceOf(Nth(k))']
  BY <1>4, <1>7 DEF Waiting, PlaceOf
<1>14. /\ Waiting' \in Seq(WaitingPlaces) /\ Len(Waiting') = n + 1
       /\ \A k \in 1 .. n + 1 : Waiting'[k] = IF k = n + 1 THEN x ELSE Waiting[k]
  BY <1>7, <1>9, <1>10, <1>12, <1>13
<1>15. Waiting' = Append(Waiting, x)
  BY <1>7, <1>9, <1>10, <1>14, PlaceAdded
<1>16. ~FIFO!Joins(ev.motion)
  BY <1>1, WaitingIs DEF FIFO!Joins, Coalesces, QueueInv, LastMotionHonest, PlaceOf
<1> QED
  BY <1>5, <1>6, <1>7, <1>8, <1>10, <1>15, <1>16 DEF FIFO!Accept, FIFO!Place

LEMMA TossTosses ==
    ASSUME TypeOK, QueueInv, RunsInv, NEW ev \in Event, TossLate(ev), UNCHANGED <<pc, xe, last>>
    PROVE  RunsInv' /\ FIFO!Toss(ev.motion)
<1>1. /\ ~Coalesces(ev.motion) /\ Full /\ UNCHANGED <<head, tail, lastMotion, slots, runs>>
      /\ log' = Append(log, Logged(ev, "tossed"))
  BY DEF TossLate, queueVars
<1>2. Len(log') = Len(log) + 1
  <2>1. Logged(ev, "tossed") \in LogEntry
    BY LoggedFields DEF Fates
  <2> QED
    BY <1>1, <2>1, LogGrows DEF TypeOK, LogEntry
<1>3. Waiting' = Waiting /\ RunsInv'
  BY <1>1 DEF Waiting, Dist, Nth, InQueue, RunsInv
<1>4. ~FIFO!Joins(ev.motion)
  BY <1>1, WaitingIs DEF FIFO!Joins, Coalesces, QueueInv, LastMotionHonest, PlaceOf
<1>5. Len(Waiting) = QUEUE_SIZE - 1
  BY <1>1, WaitingIs, NthIs
<1> QED
  BY <1>2, <1>3, <1>4, <1>5 DEF FIFO!Toss

(* The loop steps over the head: whichever of its events it has copied.    *)
LEMMA AdvanceTakes ==
    ASSUME TypeOK, QueueInv, RunsInv, Advance
    PROVE  RunsInv' /\ FIFO!Take
<1>1. /\ head # tail /\ head' = Succ(head) /\ tail' = tail /\ pc' = "test"
      /\ UNCHANGED <<slots, runs>> /\ last' = xe /\ log' = Refated(xe.fst.id, xe.to)
      /\ xe.fst.id \in runs[head]
  BY DEF Advance, QueueInv, CopyIsHead, RunsInv
<1>2. Len(log') = Len(log)
  BY <1>1, FateWritten DEF TypeOK, LogEntry, Copy, Fates
<1>3. /\ Dist(tail)' = Dist(tail) - 1
      /\ \A k \in 1 .. Dist(tail) - 1 : Nth(k)' = Nth(k + 1)
  <2>1. head \in Nat /\ tail \in Nat /\ head < QUEUE_SIZE /\ tail < QUEUE_SIZE
    BY DEF TypeOK, Index
  <2>2. Dist(tail)' = Dist(tail) - 1
    BY <1>1, <2>1 DEF Dist, Succ
  <2>3. \A k \in 1 .. Dist(tail) - 1 : Nth(k)' = Nth(k + 1)
    BY <1>1, <2>1 DEF Dist, Succ, Nth
  <2> QED
    BY <2>2, <2>3
<1>4. RunsInv'
  BY <1>1, RingShrinks DEF RunsInv
<1>5. PICK n \in Nat : n = Dist(tail) /\ n >= 1
  BY <1>1, NthIs
<1>6. /\ Waiting \in Seq(WaitingPlaces) /\ Len(Waiting) = n /\ Waiting # <<>>
      /\ \A k \in 1 .. n : Waiting[k] = PlaceOf(Nth(k))
      /\ Nth(1) = head
  BY <1>1, <1>5, NthIs, WaitingIs
<1>7. \A k \in 1 .. n - 1 : PlaceOf(Nth(k))' = Waiting[k + 1]
  <2> SUFFICES ASSUME NEW k \in 1 .. n - 1
               PROVE  PlaceOf(Nth(k))' = Waiting[k + 1]
    OBVIOUS
  <2>1. k + 1 \in 1 .. n /\ Nth(k)' = Nth(k + 1)
    BY <1>3, <1>5
  <2>2. PlaceOf(Nth(k))' = PlaceOf(Nth(k + 1))
    BY <1>1, <2>1 DEF PlaceOf
  <2> QED
    BY <2>1, <2>2, <1>6
<1>8. Waiting' = [k \in 1 .. n - 1 |-> PlaceOf(Nth(k))']
  BY <1>3, <1>5 DEF Waiting, PlaceOf
<1>9. \A k \in 1 .. n - 1 : Waiting[k + 1] \in WaitingPlaces
  <2>1. \A k \in 1 .. n - 1 : k + 1 \in 1 .. n
    BY <1>5
  <2> QED
    BY <1>6, <2>1
<1>10. /\ Waiting' \in Seq(WaitingPlaces) /\ Len(Waiting') = n - 1
       /\ \A k \in 1 .. n - 1 : Waiting'[k] = Waiting[k + 1]
  BY <1>5, <1>7, <1>8, <1>9
<1>11. Waiting' = Tail(Waiting)
  BY <1>6, <1>10, PlaceRemoved
<1>12. last'.fst.id \in Head(Waiting).ids
  <2>1. Head(Waiting) = PlaceOf(head)
    BY <1>5, <1>6
  <2> QED
    BY <1>1, <2>1 DEF PlaceOf
<1> QED
  BY <1>2, <1>4, <1>6, <1>11, <1>12 DEF FIFO!Take

(* What the abstract queue is made of, left alone.                         *)
LEMMA QueueLeftAlone ==
    ASSUME UNCHANGED <<head, tail, slots, runs, log, last>>
    PROVE  UNCHANGED FIFO!vars
<1>1. Waiting' = Waiting
  BY DEF Waiting, Dist, Nth
<1> QED
  BY <1>1 DEF FIFO!vars

(* A step of the loop, or none: at most the copy of the head is made.      *)
LEMMA ReadStutters ==
    ASSUME TypeOK, QueueInv, RunsInv, UNCHANGED <<head, tail, slots, runs, log, last>>,
           pc' \in {"read2", "advance"} =>
               \/ pc \in {"read2", "advance"} /\ xe'.fst = xe.fst
               \/ head # tail /\ xe'.fst = slots[head].ev
    PROVE  RunsInv' /\ UNCHANGED FIFO!vars
<1>1. head # tail => slots[head].ev.id \in runs[head]
  BY NewestQueued DEF RunsInv, TypeOK
<1>2. \A i \in Index : InQueue(i)' <=> InQueue(i)
  BY DEF InQueue, Dist
<1> QED
  BY <1>1, <1>2, QueueLeftAlone DEF RunsInv

LEMMA LoopSimulates ==
    ASSUME TypeOK, QueueInv, RunsInv, MainLoop
    PROVE  RunsInv' /\ (FIFO!Take \/ UNCHANGED FIFO!vars)
<1>1. CASE Enter
  BY <1>1, ReadStutters DEF Enter, queueVars, histVars
<1>2. CASE Test
  BY <1>2, ReadStutters DEF Test, queueVars, histVars
<1>3. CASE Compare
  BY <1>3, ReadStutters DEF Compare, queueVars, histVars
<1>4. CASE TakeScreen
  BY <1>4, ReadStutters DEF TakeScreen, queueVars, histVars
<1>5. CASE ReadFirst
  <2>1. head # tail /\ xe'.fst = slots[head].ev
    BY <1>5 DEF ReadFirst, QueueInv, CopyIsHead, TypeOK, Copy
  <2> QED
    BY <1>5, <2>1, ReadStutters DEF ReadFirst, queueVars, histVars
<1>6. CASE ReadSecond
  <2>1. xe'.fst = xe.fst
    BY <1>6 DEF ReadSecond, TypeOK, Copy
  <2> QED
    BY <1>6, <2>1, ReadStutters DEF ReadSecond, queueVars, histVars
<1>7. CASE Advance
  BY <1>7, AdvanceTakes
<1> QED
  BY <1>1, <1>2, <1>3, <1>4, <1>5, <1>6, <1>7 DEF MainLoop

LEMMA EnqueueSimulates ==
    ASSUME TypeOK, QueueInv, RunsInv, NEW motion \in BOOLEAN, NEW t \in Times,
           NEW screen \in Screens, Enqueue(motion, t, screen), UNCHANGED <<pc, xe, last>>
    PROVE  RunsInv' /\ FIFO!Next
<1>1. PICK ev \in Event : ev = NewEvent(motion, t)
  BY NewEventType
<1>2. ev.motion = motion /\ ev.id = Len(log) + 1
  BY <1>1, NewEventType
<1>3. Merge(ev, screen) \/ Publish(ev, screen) \/ TossLate(ev)
  BY <1>1 DEF Enqueue
<1> QED
  BY <1>2, <1>3, MergeJoins, PublishAccepts, TossTosses DEF FIFO!Next

LEMMA StepSimulates ==
    ASSUME TypeOK, QueueInv, RunsInv, [Next]_vars
    PROVE  RunsInv' /\ [FIFO!Next]_FIFO!vars
<1>1. ASSUME NEW t \in Times, NEW screen \in Screens, Motion(t, screen)
      PROVE  RunsInv' /\ FIFO!Next
  BY <1>1, EnqueueSimulates DEF Motion
<1>2. ASSUME NEW t \in Times, KeyOrButton(t)
      PROVE  RunsInv' /\ FIFO!Next
  BY <1>2, EnqueueSimulates DEF KeyOrButton, TypeOK
<1>3. ASSUME NEW t \in Times, NEW screen \in Screens, NEW g \in BOOLEAN, Warp(t, screen, g)
      PROVE  RunsInv' /\ (FIFO!Next \/ UNCHANGED FIFO!vars)
  <2>1. CASE g
    BY <1>3, <2>1, EnqueueSimulates DEF Warp
  <2>2. CASE ~g
    BY <1>3, <2>2, ReadStutters DEF Warp, queueVars
  <2> QED
    BY <2>1, <2>2
<1>4. CASE MainLoop
  BY <1>4, LoopSimulates DEF FIFO!Next
<1>5. CASE UNCHANGED vars
  BY <1>5, ReadStutters DEF vars, queueVars, histVars
<1> QED
  BY <1>1, <1>2, <1>3, <1>4, <1>5 DEF Next, Devices

LEMMA InitSimulates == Init => RunsInv /\ FIFO!Init
<1> SUFFICES ASSUME Init PROVE RunsInv /\ FIFO!Init
  OBVIOUS
<1>1. \A i \in Index : ~InQueue(i)
  BY DEF Init, InQueue, Dist, Index
<1>2. Dist(tail) = 0 /\ Len(log) = 0 /\ last.fst.id = 0
  BY DEF Init, Dist, NoCopy, NoEvent
<1>3. Waiting = <<>>
  BY <1>2 DEF Waiting
<1> QED
  BY <1>1, <1>2, <1>3 DEF Init, RunsInv, FIFO!Init

(* The ring, with its reader and the handler that interrupts it, does only *)
(* what the coalescing bounded queue may do: same order, same joining, an  *)
(* event tossed only when every place is taken, and the reader gets one of *)
(* the events of the oldest place, whenever the handler came in between.   *)
THEOREM FIFOCorrect == Spec => ImplementsFIFO
<1>1. Init => RunsInv /\ FIFO!Init
  BY InitSimulates
<1>2. TypeOK /\ QueueInv /\ RunsInv /\ [Next]_vars => RunsInv'
  BY StepSimulates
<1>3. TypeOK /\ QueueInv /\ RunsInv /\ [Next]_vars => [FIFO!Next]_FIFO!vars
  BY StepSimulates
<1> QED
  BY <1>1, <1>2, <1>3, TypeCorrect, RingCorrect, PTL DEF Spec, FIFO!Safety, ImplementsFIFO
=============================================================================
