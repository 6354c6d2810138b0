---------------------------- MODULE WorkQueueProofs ----------------------------
(***************************************************************************)
(* Proofs about WorkQueue for any number of clients, cells and procedures: *)
(* however close-downs queue, unlink and scan inside a scan, the list is   *)
(* what is allocated, no scan holds the address of a freed cell, and       *)
(* nothing queued names a client that was freed.  All without LBX proxies  *)
(* that fail, with which the code does not keep it.                        *)
(***************************************************************************)
EXTENDS WorkQueue, TLAPS, FiniteSetTheorems, SequenceTheorems

NoProxyFails == "ProxyFails" \notin Events

FrameRec == [function : Procedures, at : Nat, q : Cells \cup {Nil}]
CellRec == [function : Functions, client : Clients \cup {NoClient},
            closure : 0..MaxSleeps, id : 0..MaxQueued]

\* The addresses of the next fields that count, and the numbers of their cells.
Addresses == Allocated \cup {Head0}
Number(a) == IF a = Head0 THEN 0 ELSE cell[a].id

\* The list is what is allocated, sorted by number.
Sorted ==
    /\ \A q \in Allocated : cell[q].id \in 1..queued
    /\ \A q, r \in Allocated : cell[q].id = cell[r].id => q = r
    /\ \A q \in Allocated : \E a \in Addresses : next[a] = q
    /\ \A a \in Addresses : next[a] = Nil => \A q \in Allocated : cell[q].id <= Number(a)
    /\ \A a \in Addresses : next[a] # Nil =>
          /\ next[a] \in Allocated /\ Number(a) < cell[next[a]].id
          /\ \A q \in Allocated : cell[q].id <= Number(a) \/ cell[next[a]].id <= cell[q].id

\* What is queued, and for whom: nobody who waits for the end of a grab is
\* closed down by EstablishNewConnections.
Contents ==
    \A q \in Allocated :
        /\ cell[q].function # "none"
        /\ cell[q].function = "establish" <=> cell[q].client = NoClient
        /\ cell[q].client # NoClient => clients[cell[q].client] # "freed"
        /\ cell[q].function = "ungrab" => clients[cell[q].client] \in {"running", "gone"}

\* Who sleeps and is gone has been signalled, and what is freed does not sleep.
Signalled ==
    \A c \in Clients : sleepQueue[c] # NoClosure =>
        /\ clients[c] # "freed"
        /\ clients[c] = "gone" =>
              \E q \in Allocated : cell[q].function = "sleep" /\ cell[q].client = c

\* A cell and a number are left for each client that close-downs may signal.
Unsignalled == {c \in Clients : sleepQueue[c] # NoClosure /\ clients[c] \in {"running", "exception"}}
Room == /\ Cardinality(Allocated) + Cardinality(Unsignalled) <= NCells
        /\ queued + Cardinality(Unsignalled) <= MaxQueued

\* Who calls whom, and where it begins.
Calls(g, f) ==
    /\ f.q = Nil
    /\ \/ f.function = "establish" /\ g.function = "queue" /\ g.q # Nil
       \/ f.function = "close" /\ g.function \in {"dispatch", "block", "establish"}
       \/ f.function = "zombies" /\ g.function = "close"
Begins(f) == f.function \in {"dispatch", "wait", "block", "queue"}
             /\ (f.q # Nil => f.function = "queue")
Shape(s) ==
    /\ s \in Seq(FrameRec) /\ Len(s) >= 1 /\ Begins(s[Len(s)])
    /\ \A i \in 1..Len(s) - 1 : Calls(s[i + 1], s[i])

\* A scan of the queue that was interrupted stands at a cell that nobody
\* unlinks meanwhile, with the procedure it has called behind it; a scan for
\* zombies has left none behind it; a client is gone while its close-down lasts.
QueueFrame(f) ==
    /\ f.at = Head0 \/ (f.at \in Allocated /\ cell[f.at].function = "ungrab")
    /\ f.q # Nil => next[f.at] = f.q /\ f.q \in Allocated /\ cell[f.q].function = "establish"
    /\ \A q \in Allocated : cell[q].function = "ungrab" => clients[cell[q].client] = "running"
ZombiesFrame(f) ==
    /\ f.at \in Addresses
    /\ \A q \in Allocated : cell[q].id <= Number(f.at) => ~Gone(cell[q].client)
CloseFrame(f) == f.at \in Clients /\ clients[f.at] = "gone"
FrameInv(f) ==
    /\ f.function = "queue" => QueueFrame(f)
    /\ f.function = "zombies" => ZombiesFrame(f)
    /\ f.function = "close" => CloseFrame(f)

Closing(s, c) == \E i \in 1..Len(s) : s[i].function = "close" /\ s[i].at = c
ThreadInv ==
    /\ Shape(stack)
    /\ \A i \in 1..Len(stack) : FrameInv(stack[i])
    /\ In("close") => \A q \in Allocated : ~Gone(cell[q].client)
    /\ \A c \in Clients : clients[c] = "gone" => Closing(stack, c)

IInv == TypeOK /\ TailInv /\ Sorted /\ Contents /\ Signalled /\ Room /\ ThreadInv

----------------------------------------------------------------------------
(* Cells.                                                                  *)

LEMMA Memory ==
    /\ Nil \notin Cells /\ Head0 \notin Cells /\ Nil # Head0
    /\ IsFiniteSet(Cells) /\ Cardinality(Cells) = NCells /\ IsFiniteSet(Clients)
    /\ NoClient \notin Clients
<1>1. IsFiniteSet(Cells) /\ Cardinality(Cells) = NCells /\ IsFiniteSet(Clients)
  BY NumbersAssumption, FS_Interval DEF Cells, Clients
<1> QED
  BY <1>1, NumbersAssumption DEF Nil, Cells, Head0, NoClient, Clients

LEMMA AllocatedFinite ==
    /\ IsFiniteSet(Allocated) /\ Cardinality(Allocated) \in Nat
    /\ Cardinality(Allocated) < NCells => \E q \in Cells : q \notin Allocated
<1>1. Allocated \subseteq Cells
  BY DEF Allocated
<1>2. IsFiniteSet(Allocated)
  BY <1>1, Memory, FS_Subset
<1>3. Cardinality(Allocated) \in Nat
  BY <1>2, FS_CardinalityType
<1>4. ASSUME Cardinality(Allocated) < NCells PROVE \E q \in Cells : q \notin Allocated
  <2>1. Allocated # Cells
    BY <1>3, <1>4, Memory, NumbersAssumption
  <2> QED
    BY <1>1, <2>1
<1> QED
  BY <1>2, <1>3, <1>4

(* QueueWorkProc: a free cell is linked behind the last.                   *)
LEMMA CellQueued ==
    ASSUME TypeOK, Sorted, workQueueLast \in Addresses, next[workQueueLast] = Nil,
           Cardinality(Allocated) < NCells, queued < MaxQueued,
           NEW f \in Functions \ {"none"}, NEW c \in Clients \cup {NoClient}, NEW k \in 0..MaxSleeps,
           QueueWorkProc(f, c, k)
    PROVE  /\ Sorted' /\ queued' = queued + 1 /\ queued' \in 0..MaxQueued
           /\ next' \in [Cells \cup {Head0} -> Cells \cup {Nil}] /\ cell' \in [Cells -> CellRec]
           /\ workQueueLast' \in Allocated' /\ next'[workQueueLast'] = Nil
           /\ Cardinality(Allocated') = Cardinality(Allocated) + 1
           /\ \A a \in Addresses : next[a] # Nil => next'[a] = next[a]
           /\ \E q \in Cells \ Allocated :
                 /\ Allocated' = Allocated \cup {q}
                 /\ \A r \in Allocated : cell'[r] = cell[r]
                 /\ cell'[q] = [function |-> f, client |-> c, closure |-> k, id |-> queued + 1]
<1>1. PICK q \in Cells \ Allocated : q = CHOOSE r \in Cells \ Allocated : TRUE
  BY AllocatedFinite
<1>2. PICK x : x = [function |-> f, client |-> c, closure |-> k, id |-> queued + 1]
  OBVIOUS
<1>3. /\ cell' = [cell EXCEPT ![q] = x]
      /\ next' = [next EXCEPT ![workQueueLast] = q, ![q] = Nil]
      /\ workQueueLast' = q /\ queued' = queued + 1
  BY <1>1, <1>2 DEF QueueWorkProc, LinkedLast
<1>4. queued \in Nat /\ queued + 1 \in 0..MaxQueued
  BY NumbersAssumption DEF TypeOK
<1>5. x \in CellRec /\ x # Free /\ x.id = queued + 1
  BY <1>2, <1>4 DEF CellRec, Free
<1>6. /\ cell \in [Cells -> CellRec] /\ next \in [Cells \cup {Head0} -> Cells \cup {Nil}]
      /\ Allocated \subseteq Cells /\ Addresses \subseteq Cells \cup {Head0}
  BY DEF TypeOK, CellRec, Allocated, Addresses
<1>7. /\ cell' \in [Cells -> CellRec] /\ cell'[q] = x
      /\ \A r \in Cells \ {q} : cell'[r] = cell[r]
  BY <1>1, <1>3, <1>5, <1>6
<1>8. Allocated' = Allocated \cup {q} /\ Addresses' = Addresses \cup {q}
  BY <1>1, <1>5, <1>7 DEF Allocated, Addresses
<1>9. /\ next' \in [Cells \cup {Head0} -> Cells \cup {Nil}]
      /\ q # workQueueLast /\ next'[q] = Nil /\ next'[workQueueLast] = q
      /\ \A a \in Addresses \ {workQueueLast} : next'[a] = next[a]
  <2>1. q \notin Addresses /\ q \in Cells
    BY <1>1, Memory DEF Addresses
  <2> QED
    BY <1>3, <1>6, <2>1
<1>10. Cardinality(Allocated') = Cardinality(Allocated) + 1
  BY <1>1, <1>8, AllocatedFinite, FS_AddElement
<1>11. /\ \A a \in Addresses : Number(a)' = Number(a) /\ Number(a) \in 0..queued
       /\ Number(q)' = queued + 1 /\ q # Nil
  <2>1. \A a \in Addresses : Number(a)' = Number(a)
    BY <1>1, <1>6, <1>7 DEF Number, Addresses
  <2>2. \A a \in Addresses : Number(a) \in 0..queued
    BY <1>4 DEF Sorted, Number, Addresses
  <2> QED
    BY <1>1, <1>5, <1>7, <2>1, <2>2, Memory DEF Number
<1>12. \A r \in Allocated : cell'[r] = cell[r] /\ cell[r].id \in 1..queued
  BY <1>1, <1>6, <1>7 DEF Sorted
<1>13. \A r \in Allocated' : cell'[r].id \in 1..queued'
  BY <1>3, <1>4, <1>5, <1>7, <1>8, <1>12
<1>14. \A r, s \in Allocated' : cell'[r].id = cell'[s].id => r = s
  BY <1>4, <1>5, <1>7, <1>8, <1>12 DEF Sorted
<1>15. \A r \in Allocated' : \E a \in Addresses' : next'[a] = r
  <2>1. \A r \in Allocated : \E a \in Addresses \ {workQueueLast} : next[a] = r
    BY <1>6, Memory DEF Sorted
  <2> QED
    BY <1>8, <1>9, <2>1
<1>16. ASSUME NEW a \in Addresses', next'[a] = Nil
       PROVE  \A r \in Allocated' : cell'[r].id <= Number(a)'
  <2>1. CASE a = q
    BY <2>1, <1>3, <1>4, <1>11, <1>13
  <2>2. CASE a = workQueueLast
    BY <2>2, <1>9, <1>11, <1>16
  <2>3. CASE a \in Addresses \ {workQueueLast}
    <3>1. next[a] = Nil
      BY <2>3, <1>9, <1>16
    <3>2. Number(workQueueLast) <= Number(a) /\ Number(a) <= Number(workQueueLast)
      BY <2>3, <3>1, <1>4, <1>11, <1>12 DEF Sorted, Number, Addresses
    <3>3. a = workQueueLast
      BY <2>3, <3>2, <1>4, <1>11, <1>12 DEF Sorted, Number, Addresses
    <3> QED
      BY <2>3, <3>3
  <2> QED
    BY <1>8, <2>1, <2>2, <2>3
<1>17. ASSUME NEW a \in Addresses', next'[a] # Nil
       PROVE  /\ next'[a] \in Allocated' /\ Number(a)' < cell'[next'[a]].id
              /\ \A r \in Allocated' : cell'[r].id <= Number(a)' \/ cell'[next'[a]].id <= cell'[r].id
  <2>1. CASE a = workQueueLast
    <3>1. \A r \in Allocated : cell[r].id <= Number(a)
      BY <2>1 DEF Sorted
    <3> QED
      BY <2>1, <3>1, <1>4, <1>5, <1>7, <1>8, <1>9, <1>11, <1>12
  <2>2. CASE a \in Addresses \ {workQueueLast}
    <3>1. next'[a] = next[a] /\ next[a] # Nil
      BY <2>2, <1>9, <1>17
    <3>2. /\ next[a] \in Allocated /\ Number(a) < cell[next[a]].id
          /\ \A r \in Allocated : cell[r].id <= Number(a) \/ cell[next[a]].id <= cell[r].id
      BY <2>2, <3>1 DEF Sorted
    <3> QED
      BY <2>2, <3>1, <3>2, <1>4, <1>5, <1>7, <1>8, <1>11, <1>12
  <2>3. CASE a = q
    BY <2>3, <1>9, <1>17
  <2> QED
    BY <1>8, <2>1, <2>2, <2>3
<1>18. Sorted'
  BY <1>13, <1>14, <1>15, <1>16, <1>17 DEF Sorted
<1>19. \A a \in Addresses : next[a] # Nil => next'[a] = next[a]
  BY <1>9
<1>20. workQueueLast' \in Allocated' /\ next'[workQueueLast'] = Nil
  BY <1>3, <1>8, <1>9
<1>21. \E r \in Cells \ Allocated :
          /\ Allocated' = Allocated \cup {r}
          /\ \A s \in Allocated : cell'[s] = cell[s]
          /\ cell'[r] = [function |-> f, client |-> c, closure |-> k, id |-> queued + 1]
  BY <1>1, <1>2, <1>7, <1>8, <1>12
<1> QED
  BY <1>3, <1>4, <1>7, <1>9, <1>10, <1>18, <1>19, <1>20, <1>21

(* A scan at address a unlinks the cell behind it.                         *)
LEMMA CellUnlinked ==
    ASSUME TypeOK, Sorted, NEW a \in Addresses, NEW q \in Allocated, next[a] = q,
           next' = [next EXCEPT ![a] = next[q]], cell' = [cell EXCEPT ![q] = Free],
           queued' = queued
    PROVE  /\ Sorted' /\ Allocated' = Allocated \ {q} /\ a # q /\ a \in Addresses'
           /\ next' \in [Cells \cup {Head0} -> Cells \cup {Nil}] /\ cell' \in [Cells -> CellRec]
           /\ Cardinality(Allocated') = Cardinality(Allocated) - 1
           /\ \A r \in Allocated \ {q} : cell'[r] = cell[r]
           /\ next'[a] = next[q]
           /\ \A b \in Addresses : next[b] = q => b = a
           /\ \A b \in Addresses \ {a} : next'[b] = next[b]
<1>1. /\ cell \in [Cells -> CellRec] /\ next \in [Cells \cup {Head0} -> Cells \cup {Nil}]
      /\ Allocated \subseteq Cells /\ Addresses \subseteq Cells \cup {Head0}
      /\ Free \in CellRec /\ q # Nil
  BY Memory, NumbersAssumption
  DEF TypeOK, CellRec, Allocated, Addresses, Free, Functions, NoClient, NoClosure
<1>2. /\ cell' \in [Cells -> CellRec] /\ \A r \in Cells \ {q} : cell'[r] = cell[r]
      /\ cell'[q] = Free
  BY <1>1
<1>3. /\ next' \in [Cells \cup {Head0} -> Cells \cup {Nil}] /\ next'[a] = next[q]
      /\ \A b \in Addresses \ {a} : next'[b] = next[b]
  BY <1>1
<1>4. Allocated' = Allocated \ {q} /\ Addresses' = Addresses \ {q}
  BY <1>1, <1>2, Memory DEF Allocated, Addresses
<1>5. Cardinality(Allocated') = Cardinality(Allocated) - 1
  BY <1>4, AllocatedFinite, FS_RemoveElement
<1>6. \A r \in Allocated : cell[r].id \in Int
  BY DEF Sorted
<1>7. \A b \in Addresses : Number(b) \in Int /\ (b # q => Number(b)' = Number(b))
  BY <1>1, <1>2, <1>6, Memory DEF Number, Addresses
<1>8. Number(a) < cell[q].id /\ a # q /\ Number(q) = cell[q].id
  <2>1. Number(a) < cell[q].id /\ Number(q) = cell[q].id
    BY <1>1, Memory DEF Sorted, Number
  <2> QED
    BY <2>1, <1>6, <1>7
<1>9. \A b \in Addresses : next[b] = q => b = a
  <2> SUFFICES ASSUME NEW b \in Addresses, next[b] = q PROVE b = a
    OBVIOUS
  <2>1. /\ Number(b) < cell[q].id
        /\ \A r \in Allocated : cell[r].id <= Number(b) \/ cell[q].id <= cell[r].id
        /\ \A r \in Allocated : cell[r].id <= Number(a) \/ cell[q].id <= cell[r].id
    BY <1>1 DEF Sorted
  <2>2. CASE a = Head0
    BY <2>1, <2>2, <1>6, <1>7, <1>8 DEF Sorted, Number, Addresses
  <2>3. CASE b = Head0
    BY <2>1, <2>3, <1>6, <1>7, <1>8 DEF Sorted, Number, Addresses
  <2>4. CASE a \in Allocated /\ b \in Allocated
    <3>1. cell[a].id <= cell[b].id /\ cell[b].id <= cell[a].id
      BY <2>1, <2>4, <1>1, <1>6, <1>8, Memory DEF Number
    <3> QED
      BY <2>4, <3>1, <1>6 DEF Sorted
  <2> QED
    BY <2>2, <2>3, <2>4 DEF Addresses
<1>10. \A r \in Allocated' : cell'[r].id \in 1..queued'
  BY <1>1, <1>2, <1>4 DEF Sorted
<1>11. \A r, s \in Allocated' : cell'[r].id = cell'[s].id => r = s
  BY <1>1, <1>2, <1>4 DEF Sorted
<1>12. \A r \in Allocated' : \E b \in Addresses' : next'[b] = r
  <2> SUFFICES ASSUME NEW r \in Allocated \ {q} PROVE \E b \in Addresses \ {q} : next'[b] = r
    BY <1>4
  <2>1. PICK b \in Addresses : next[b] = r
    BY DEF Sorted
  <2>2. CASE b = q
    BY <2>1, <2>2, <1>3, <1>8
  <2>3. CASE b # q
    BY <2>1, <2>3, <1>3
  <2> QED
    BY <2>2, <2>3
<1>13. ASSUME NEW b \in Addresses', next'[b] = Nil
       PROVE  \A r \in Allocated' : cell'[r].id <= Number(b)'
  <2>1. b \in Addresses /\ b # q
    BY <1>4
  <2>2. CASE b = a
    <3>1. /\ next[q] = Nil /\ q \in Addresses
          /\ \A r \in Allocated : cell[r].id <= Number(a) \/ cell[q].id <= cell[r].id
      BY <2>2, <1>1, <1>3, <1>13 DEF Sorted, Addresses
    <3>2. \A r \in Allocated : cell[r].id <= Number(q)
      BY <3>1 DEF Sorted
    <3>3. \A r \in Allocated \ {q} : cell[r].id <= Number(a)
      BY <3>1, <3>2, <1>6, <1>8 DEF Sorted
    <3> QED
      BY <2>1, <2>2, <3>3, <1>1, <1>2, <1>4, <1>7
  <2>3. CASE b # a
    <3>1. \A r \in Allocated : cell[r].id <= Number(b)
      BY <2>1, <2>3, <1>3, <1>13 DEF Sorted
    <3> QED
      BY <2>1, <3>1, <1>1, <1>2, <1>4, <1>7
  <2> QED
    BY <2>2, <2>3
<1>14. ASSUME NEW b \in Addresses', next'[b] # Nil
       PROVE  /\ next'[b] \in Allocated' /\ Number(b)' < cell'[next'[b]].id
              /\ \A r \in Allocated' : cell'[r].id <= Number(b)' \/ cell'[next'[b]].id <= cell'[r].id
  <2>1. b \in Addresses /\ b # q
    BY <1>4
  <2>2. CASE b = a
    <3>1. next'[b] = next[q] /\ next[q] # Nil /\ q \in Addresses
      BY <2>2, <1>3, <1>14 DEF Addresses
    <3>2. PICK s : s = next[q]
      OBVIOUS
    <3>3. /\ s \in Allocated /\ cell[q].id < cell[s].id
          /\ \A r \in Allocated : cell[r].id <= cell[q].id \/ cell[s].id <= cell[r].id
      BY <3>1, <3>2, <1>8 DEF Sorted
    <3>4. \A r \in Allocated : cell[r].id <= Number(a) \/ cell[q].id <= cell[r].id
      BY <1>1 DEF Sorted
    <3>5. \A r \in Allocated \ {q} : cell[r].id <= Number(a) \/ cell[s].id <= cell[r].id
      BY <3>3, <3>4, <1>6, <1>8 DEF Sorted
    <3>6. s # q /\ Number(a) < cell[s].id
      BY <3>3, <1>6, <1>7, <1>8
    <3> QED
      BY <2>1, <2>2, <3>1, <3>2, <3>3, <3>5, <3>6, <1>1, <1>2, <1>4, <1>7
  <2>3. CASE b # a
    <3>1. next'[b] = next[b] /\ next[b] # q
      BY <2>1, <2>3, <1>3, <1>9
    <3>2. /\ next[b] \in Allocated /\ Number(b) < cell[next[b]].id
          /\ \A r \in Allocated : cell[r].id <= Number(b) \/ cell[next[b]].id <= cell[r].id
      BY <2>1, <3>1, <1>14 DEF Sorted
    <3> QED
      BY <2>1, <3>1, <3>2, <1>1, <1>2, <1>4, <1>7
  <2> QED
    BY <2>2, <2>3
<1>15. Sorted'
  BY <1>10, <1>11, <1>12, <1>13, <1>14 DEF Sorted
<1>16. a \in Addresses' /\ \A r \in Allocated \ {q} : cell'[r] = cell[r]
  BY <1>1, <1>2, <1>4, <1>8
<1> QED
  BY <1>2, <1>3, <1>4, <1>5, <1>8, <1>9, <1>15, <1>16

(* Each set of naturals has a least element.                               *)
LEMMA LeastNumber ==
    ASSUME NEW T, T \subseteq Nat, T # {}
    PROVE  \E n \in T : \A m \in T : n <= m
<1>1. PICK n \in T : \A m \in T : ~ (<<m, n>> \in OpToRel(<, Nat))
  BY WFMin, NatLessThanWellFounded
<1>2. \A m \in T : ~ (m < n)
  BY <1>1 DEF OpToRel
<1> QED
  BY <1>2

(* The links lead to every cell that is allocated, and to no other: the    *)
(* first one missed would be linked from one that is not missed.           *)
LEMMA AllReached ==
    ASSUME TypeOK, Sorted
    PROVE  /\ Linked(Allocated)
           /\ \A S \in SUBSET Cells : Linked(S) => Allocated \subseteq S
           /\ \A q \in Allocated : next[q] # Nil => cell[q].id < cell[next[q]].id
<1>1. Linked(Allocated)
  BY DEF Sorted, Linked, Addresses
<1>2. ASSUME NEW q \in Allocated, next[q] # Nil
      PROVE  cell[q].id < cell[next[q]].id
  <2>1. q \in Addresses /\ Number(q) = cell[q].id
    BY Memory DEF Addresses, Number, Allocated
  <2> QED
    BY <1>2, <2>1 DEF Sorted
<1>3. ASSUME NEW S \in SUBSET Cells, Linked(S), ~(Allocated \subseteq S)
      PROVE  FALSE
  <2>1. PICK T : T = {cell[q].id : q \in Allocated \ S}
    OBVIOUS
  <2>2. T \subseteq Nat /\ T # {}
    BY <2>1, <1>3 DEF Sorted
  <2>3. PICK n \in T : \A m \in T : n <= m
    BY <2>2, LeastNumber
  <2>4. PICK q \in Allocated \ S : cell[q].id = n
    BY <2>1, <2>3
  <2>5. PICK a \in Addresses : next[a] = q
    BY <2>4 DEF Sorted
  <2>6. q # Nil /\ Number(a) < cell[q].id
    BY <2>4, <2>5, Memory DEF Sorted, Allocated
  <2>7. a \in S \cup {Head0}
    <3>1. ASSUME a \in Allocated \ S PROVE FALSE
      <4>1. cell[a].id \in T /\ Number(a) = cell[a].id
        BY <3>1, <2>1, Memory DEF Number, Allocated
      <4>2. n \in Nat /\ cell[a].id \in Nat /\ n <= cell[a].id /\ cell[a].id < n
        BY <4>1, <2>2, <2>3, <2>4, <2>6
      <4> QED
        BY <4>2
    <3> QED
      BY <3>1 DEF Addresses
  <2> QED
    BY <2>4, <2>5, <2>6, <2>7, <1>3 DEF Linked
<1> QED
  BY <1>1, <1>2, <1>3

----------------------------------------------------------------------------
(* The thread.                                                             *)

LEMMA Pushed ==
    ASSUME NEW s \in Seq(FrameRec), NEW f \in FrameRec, NEW t, t = <<f>> \o s
    PROVE  /\ t \in Seq(FrameRec) /\ Len(t) = Len(s) + 1 /\ t[1] = f
           /\ \A i \in 1..Len(s) : t[i + 1] = s[i]
           /\ \A j \in 2..Len(t) : j - 1 \in 1..Len(s) /\ t[j] = s[j - 1]
<1>1. <<f>> \in Seq(FrameRec) /\ Len(<<f>>) = 1 /\ <<f>>[1] = f
  OBVIOUS
<1> QED
  BY <1>1

LEMMA PushedTwo ==
    ASSUME NEW s \in Seq(FrameRec), NEW f \in FrameRec, NEW g \in FrameRec,
           NEW t, t = <<f, g>> \o s
    PROVE  /\ t \in Seq(FrameRec) /\ Len(t) = Len(s) + 2 /\ t[1] = f /\ t[2] = g
           /\ \A i \in 1..Len(s) : t[i + 2] = s[i]
           /\ \A j \in 3..Len(t) : j - 2 \in 1..Len(s) /\ t[j] = s[j - 2]
<1>1. <<f, g>> \in Seq(FrameRec) /\ Len(<<f, g>>) = 2 /\ <<f, g>>[1] = f /\ <<f, g>>[2] = g
  OBVIOUS
<1> QED
  BY <1>1

LEMMA Popped ==
    ASSUME NEW s \in Seq(FrameRec), Len(s) >= 1, NEW t, t = Tail(s)
    PROVE  /\ t \in Seq(FrameRec) /\ Len(t) = Len(s) - 1
           /\ \A i \in 1..Len(t) : i + 1 \in 1..Len(s) /\ t[i] = s[i + 1]
OBVIOUS

(* What is below the top.                                                  *)
LEMMA ShapeIs ==
    ASSUME NEW s, Shape(s)
    PROVE  /\ s \in Seq(FrameRec) /\ Len(s) \in Nat /\ Len(s) >= 1 /\ s[1] \in FrameRec
           /\ Begins(s[1]) => Len(s) = 1
           /\ ~Begins(s[1]) => Len(s) >= 2 /\ Calls(s[2], s[1])
           /\ s[1].function = "establish" => Len(s) = 2
           /\ s[1].function = "close" =>
                 \/ Len(s) = 2 /\ s[2].function \in {"dispatch", "block"}
                 \/ Len(s) = 3 /\ s[2].function = "establish" /\ Calls(s[3], s[2])
           /\ s[1].function = "zombies" =>
                 \/ Len(s) = 3 /\ s[3].function \in {"dispatch", "block"}
                 \/ Len(s) = 4 /\ s[3].function = "establish" /\ Calls(s[4], s[3])
<1>1. PICK n \in Nat : n = Len(s) /\ n >= 1
  BY DEF Shape
<1>2. /\ s \in Seq(FrameRec) /\ \A i \in 1..n : s[i] \in FrameRec
      /\ Begins(s[n]) /\ \A i \in 1..n - 1 : Calls(s[i + 1], s[i])
  BY <1>1 DEF Shape
<1>3. \A i \in 1..n : /\ Begins(s[i]) <=> i = n
                      /\ i # n => i + 1 \in 1..n /\ Calls(s[i + 1], s[i])
  BY <1>1, <1>2 DEF Begins, Calls
<1>4. \A i, j \in 1..n : j = i + 1 /\ s[i].function = "establish" => n = j
  BY <1>3 DEF Begins, Calls
<1>5. ASSUME NEW i \in 1..n, NEW j, NEW k, j = i + 1, k = j + 1, s[i].function = "close"
      PROVE  \/ n = j /\ s[j].function \in {"dispatch", "block"}
             \/ n = k /\ s[j].function = "establish" /\ Calls(s[k], s[j])
  <2>1. j \in 1..n /\ Calls(s[j], s[i])
    BY <1>3, <1>5 DEF Begins
  <2>2. CASE s[j].function = "establish"
    BY <2>1, <2>2, <1>3, <1>4, <1>5 DEF Begins
  <2>3. CASE s[j].function # "establish"
    BY <2>1, <2>3, <1>3, <1>5 DEF Begins, Calls
  <2> QED
    BY <2>2, <2>3
<1>6. 1 \in 1..n /\ 2 = 1 + 1 /\ 3 = 2 + 1 /\ 4 = 3 + 1
  BY <1>1
<1>7. ASSUME s[1].function = "zombies"
      PROVE  \/ n = 3 /\ s[3].function \in {"dispatch", "block"}
             \/ n = 4 /\ s[3].function = "establish" /\ Calls(s[4], s[3])
  <2>1. 2 \in 1..n /\ s[2].function = "close"
    BY <1>3, <1>6, <1>7 DEF Begins, Calls
  <2> QED
    BY <2>1, <1>5, <1>6
<1>8. s[1].function = "close" =>
        \/ n = 2 /\ s[2].function \in {"dispatch", "block"}
        \/ n = 3 /\ s[2].function = "establish" /\ Calls(s[3], s[2])
  BY <1>5, <1>6
<1>9. ASSUME s[1].function = "establish" PROVE n = 2
  <2>1. 2 \in 1..n
    BY <1>3, <1>6, <1>9 DEF Begins
  <2> QED
    BY <2>1, <1>4, <1>6, <1>9
<1>10. (Begins(s[1]) => n = 1) /\ (~Begins(s[1]) => n >= 2 /\ Calls(s[2], s[1]))
  BY <1>3, <1>6
<1> QED
  BY <1>1, <1>2, <1>6, <1>7, <1>8, <1>9, <1>10

LEMMA ShapeOne ==
    ASSUME NEW f \in FrameRec, Begins(f)
    PROVE  Shape(<<f>>) /\ Len(<<f>>) = 1 /\ <<f>>[1] = f
<1>1. <<f>> \in Seq(FrameRec) /\ Len(<<f>>) = 1 /\ <<f>>[1] = f
  OBVIOUS
<1> QED
  BY <1>1 DEF Shape

\* How the thread changes from s to t.
GoesOn(s, t, f) == t = <<f>> \o Tail(s)
CallsFrom(s, t, e, g) == t = <<e, g>> \o Tail(s)
Closes(s, t, z, f) == t = <<z, f>> \o s

(* A procedure that goes on.                                               *)
LEMMA ShapeTop ==
    ASSUME NEW s, Shape(s), NEW f \in FrameRec, f.function = s[1].function,
           f.q # Nil => f.function = "queue",
           NEW t, GoesOn(s, t, f)
    PROVE  /\ Shape(t) /\ Len(t) = Len(s) /\ t[1] = f
           /\ \A i \in 2..Len(s) : t[i] = s[i]
<1>1. PICK u : u = Tail(s)
  OBVIOUS
<1>2. PICK n \in Nat : n = Len(s) /\ n >= 1
  BY DEF Shape
<1>3. /\ s \in Seq(FrameRec) /\ Begins(s[n])
      /\ \A i \in 1..n - 1 : Calls(s[i + 1], s[i])
  BY <1>2 DEF Shape
<1>4. /\ u \in Seq(FrameRec) /\ Len(u) = n - 1
      /\ \A i \in 1..Len(u) : i + 1 \in 1..n /\ u[i] = s[i + 1]
  BY <1>1, <1>2, <1>3, Popped
<1>5. /\ t \in Seq(FrameRec) /\ Len(t) = Len(u) + 1 /\ t[1] = f
      /\ \A j \in 2..Len(t) : j - 1 \in 1..Len(u) /\ t[j] = u[j - 1]
  BY <1>1, <1>4, Pushed DEF GoesOn
<1>6. Len(t) = n /\ \A i \in 2..n : t[i] = s[i]
  BY <1>4, <1>5
<1>7. Begins(t[n])
  BY <1>2, <1>3, <1>5, <1>6 DEF Begins
<1>8. ASSUME NEW i \in 1..n - 1 PROVE Calls(t[i + 1], t[i])
  <2>1. Calls(s[i + 1], s[i]) /\ t[i + 1] = s[i + 1]
    BY <1>2, <1>3, <1>6
  <2>2. CASE i = 1
    BY <2>1, <2>2, <1>5 DEF Calls
  <2>3. CASE i # 1
    BY <2>1, <2>3, <1>6
  <2> QED
    BY <2>2, <2>3
<1> QED
  BY <1>2, <1>5, <1>6, <1>7, <1>8 DEF Shape

(* The queue calls EstablishNewConnections.                                *)
LEMMA ShapeCalls ==
    ASSUME NEW e \in FrameRec, NEW g \in FrameRec,
           e.function = "establish", e.q = Nil, g.function = "queue", g.q # Nil,
           NEW s, Shape(s), Len(s) = 1, NEW t, CallsFrom(s, t, e, g)
    PROVE  Shape(t) /\ Len(t) = 2 /\ t[1] = e /\ t[2] = g
<1>1. PICK u : u = Tail(s)
  OBVIOUS
<1>2. u \in Seq(FrameRec) /\ Len(u) = 0
  <2>1. s \in Seq(FrameRec) /\ Len(s) >= 1
    BY DEF Shape
  <2>2. u \in Seq(FrameRec) /\ Len(u) = Len(s) - 1
    BY <2>1, <1>1, Popped
  <2> QED
    BY <2>2
<1>3. t \in Seq(FrameRec) /\ Len(t) = 2 /\ t[1] = e /\ t[2] = g
  BY <1>1, <1>2, PushedTwo DEF CallsFrom
<1>4. Begins(t[Len(t)])
  BY <1>3 DEF Begins
<1>5. ASSUME NEW i \in 1..Len(t) - 1 PROVE Calls(t[i + 1], t[i])
  <2>1. i = 1 /\ i + 1 = 2
    BY <1>3
  <2> QED
    BY <2>1, <1>3 DEF Calls
<1> QED
  BY <1>3, <1>4, <1>5 DEF Shape

(* CloseDownClient is called.                                              *)
LEMMA ShapeCloses ==
    ASSUME NEW s, Shape(s), s[1].function \in {"dispatch", "block", "establish"},
           NEW z \in FrameRec, NEW f \in FrameRec,
           z.function = "zombies", z.q = Nil, f.function = "close", f.q = Nil,
           NEW t, Closes(s, t, z, f)
    PROVE  /\ Shape(t) /\ Len(t) = Len(s) + 2 /\ t[1] = z /\ t[2] = f
           /\ \A i \in 3..Len(t) : i - 2 \in 1..Len(s) /\ t[i] = s[i - 2]
<1>1. PICK n \in Nat : n = Len(s) /\ n >= 1
  BY DEF Shape
<1>2. /\ s \in Seq(FrameRec) /\ Begins(s[n])
      /\ \A i \in 1..n - 1 : Calls(s[i + 1], s[i])
  BY <1>1 DEF Shape
<1>3. /\ t \in Seq(FrameRec) /\ Len(t) = n + 2 /\ t[1] = z /\ t[2] = f
      /\ \A i \in 1..n : t[i + 2] = s[i]
      /\ \A j \in 3..n + 2 : j - 2 \in 1..n /\ t[j] = s[j - 2]
  BY <1>1, <1>2, PushedTwo DEF Closes
<1>4. Begins(t[n + 2])
  BY <1>1, <1>2, <1>3
<1>5. ASSUME NEW j \in 1..n + 1 PROVE Calls(t[j + 1], t[j])
  <2>1. CASE j = 1
    BY <2>1, <1>3 DEF Calls
  <2>2. CASE j = 2
    <3>1. t[3] = s[1] /\ j + 1 = 3
      BY <2>2, <1>1, <1>3
    <3> QED
      BY <2>2, <3>1, <1>3 DEF Calls
  <2>3. CASE j \in 3..n + 1
    <3>1. PICK i \in 1..n - 1 : j = i + 2
      BY <2>3, <1>1
    <3>2. t[j] = s[i] /\ t[j + 1] = s[i + 1]
      BY <3>1, <1>1, <1>3
    <3> QED
      BY <3>1, <3>2, <1>2
  <2>4. j = 1 \/ j = 2 \/ j \in 3..n + 1
    BY <1>1
  <2> QED
    BY <2>1, <2>2, <2>3, <2>4
<1>6. \A j \in 1..(n + 2) - 1 : Calls(t[j + 1], t[j])
  <2>1. (n + 2) - 1 = n + 1
    BY <1>1
  <2> QED
    BY <2>1, <1>5
<1> QED
  BY <1>1, <1>3, <1>4, <1>6 DEF Shape

(* A procedure returns.                                                    *)
LEMMA ShapeReturns ==
    ASSUME NEW s, Shape(s), ~Begins(s[1]), NEW t, t = Tail(s)
    PROVE  /\ Shape(t) /\ Len(t) = Len(s) - 1
           /\ \A i \in 1..Len(t) : i + 1 \in 1..Len(s) /\ t[i] = s[i + 1]
<1>1. PICK n \in Nat : n = Len(s) /\ n >= 2
  BY ShapeIs
<1>2. /\ s \in Seq(FrameRec) /\ Begins(s[n])
      /\ \A i \in 1..n - 1 : Calls(s[i + 1], s[i])
  BY <1>1 DEF Shape
<1>3. /\ t \in Seq(FrameRec) /\ Len(t) = n - 1
      /\ \A i \in 1..n - 1 : i + 1 \in 1..n /\ t[i] = s[i + 1]
  BY <1>1, <1>2, Popped
<1>4. Begins(t[n - 1])
  BY <1>1, <1>2, <1>3
<1>5. ASSUME NEW i \in 1..n - 2 PROVE Calls(t[i + 1], t[i])
  <2>1. PICK j \in 2..n - 1 : j = i + 1
    BY <1>1
  <2>2. i \in 1..n - 1 /\ j \in 1..n - 1
    BY <1>1, <2>1
  <2>3. t[i] = s[j] /\ t[j] = s[j + 1]
    BY <2>1, <2>2, <1>3
  <2>4. Calls(s[j + 1], s[j])
    BY <2>2, <1>2
  <2> QED
    BY <2>1, <2>3, <2>4
<1>6. \A i \in 1..(n - 1) - 1 : Calls(t[i + 1], t[i])
  BY <1>1, <1>5
<1> QED
  BY <1>1, <1>3, <1>4, <1>6 DEF Shape

(* What is known of the thread by its innermost procedure.                 *)
LEMMA TopIs ==
    ASSUME IInv
    PROVE  /\ stack \in Seq(FrameRec) /\ Len(stack) \in Nat /\ Len(stack) >= 1
           /\ Top = stack[1] /\ Top \in FrameRec /\ FrameInv(Top)
<1>1. stack \in Seq(FrameRec) /\ Len(stack) >= 1 /\ 1 \in 1..Len(stack)
  BY DEF IInv, ThreadInv, Shape
<1>2. Top = stack[1]
  BY <1>1 DEF Top
<1> QED
  BY <1>1, <1>2 DEF IInv, ThreadInv

LEMMA FrameIs ==
    ASSUME NEW f \in Procedures, NEW a \in Nat, NEW q \in Cells \cup {Nil}
    PROVE  /\ Frame(f, a, q) \in FrameRec /\ Frame(f, a, q).function = f
           /\ Frame(f, a, q).at = a /\ Frame(f, a, q).q = q
BY DEF Frame, FrameRec

(* The procedures that nobody calls.                                       *)
LEMMA Outermost ==
    ASSUME IInv, stack[1].function \in {"dispatch", "wait", "block", "queue"}
    PROVE  Begins(stack[1]) /\ Len(stack) = 1
<1>1. Shape(stack)
  BY DEF IInv, ThreadInv
<1>2. Begins(stack[1])
  <2> SUFFICES ASSUME ~Begins(stack[1]) PROVE FALSE
    OBVIOUS
  <2>1. Calls(stack[2], stack[1])
    BY <1>1, ShapeIs
  <2> QED
    BY <2>1 DEF Calls
<1> QED
  BY <1>1, <1>2, ShapeIs

LEMMA NoneGone ==
    ASSUME IInv, Begins(stack[1]) \/ stack[1].function = "establish"
    PROVE  \A c \in Clients : clients[c] # "gone"
<1> SUFFICES ASSUME NEW c \in Clients, clients[c] = "gone" PROVE FALSE
  OBVIOUS
<1>1. PICK i \in 1..Len(stack) : stack[i].function = "close"
  BY DEF IInv, ThreadInv, Closing
<1>2. CASE Begins(stack[1])
  <2>1. Len(stack) = 1
    BY <1>2, ShapeIs DEF IInv, ThreadInv
  <2> QED
    BY <1>1, <1>2, <2>1 DEF Begins
<1>3. CASE stack[1].function = "establish"
  <2>1. Len(stack) = 2 /\ stack[2].function = "queue"
    BY <1>3, ShapeIs DEF IInv, ThreadInv, Begins, Calls
  <2> QED
    BY <1>1, <1>3, <2>1
<1> QED
  BY <1>2, <1>3

(* Where a procedure may be queued, the tail is the end of the list.       *)
LEMMA TailKnown ==
    ASSUME IInv, stack[1].function \notin {"queue", "zombies"} \/ next[stack[1].at] # Nil
    PROVE  workQueueLast \in Addresses /\ next[workQueueLast] = Nil
<1>1. Top = stack[1]
  BY TopIs
<1> QED
  BY <1>1 DEF IInv, TailInv, MayQueue, Scanning, In, q0, p, Addresses

(* The list and the clients stay as they are.                              *)
LEMMA ListLeftAlone ==
    ASSUME IInv, UNCHANGED <<next, cell, queued, clients>>
    PROVE  /\ Sorted' /\ Contents' /\ Allocated' = Allocated /\ Addresses' = Addresses
           /\ \A f : FrameInv(f)' <=> FrameInv(f)
           /\ \A q \in Allocated : Gone(cell[q].client)' <=> Gone(cell[q].client)
<1>1. Allocated' = Allocated /\ Addresses' = Addresses
  BY DEF Allocated, Addresses
<1>2. \A a : Number(a)' = Number(a)
  BY DEF Number
<1>3. Sorted' /\ Contents'
  BY <1>1, <1>2 DEF IInv, Sorted, Contents
<1>4. \A f : FrameInv(f)' <=> FrameInv(f)
  BY <1>1, <1>2 DEF FrameInv, QueueFrame, ZombiesFrame, CloseFrame, Gone
<1> QED
  BY <1>1, <1>3, <1>4 DEF Gone

(* Only the thread moves.                                                  *)
LEMMA ThreadMoves ==
    ASSUME IInv, UNCHANGED <<next, cell, queued, clients, sleepVars>>,
           workQueueLast' \in Cells \cup {Head0},
           GrabInProgress' \in Clients \cup {NoClient},
           TailInv', Shape(stack'),
           \A i \in 1..Len(stack') : FrameInv(stack'[i]),
           stack'[1].function = "close" => \A q \in Allocated : ~Gone(cell[q].client),
           \A c \in Clients : clients[c] = "gone" => Closing(stack', c)
    PROVE  IInv'
<1>1. /\ Sorted' /\ Contents' /\ Allocated' = Allocated
      /\ \A f : FrameInv(f)' <=> FrameInv(f)
      /\ \A q \in Allocated : Gone(cell[q].client)' <=> Gone(cell[q].client)
  BY ListLeftAlone
<1>2. Signalled' /\ Room'
  <2>1. Unsignalled' = Unsignalled
    BY DEF Unsignalled, sleepVars
  <2> QED
    BY <1>1, <2>1 DEF IInv, Signalled, Room, sleepVars
<1>3. stack' \in Seq(FrameRec) /\ stack' # <<>> /\ Top' = stack'[1]
  BY DEF Shape, Top
<1>4. TypeOK'
  BY <1>3 DEF IInv, TypeOK, sleepVars, FrameRec
<1>5. ThreadInv'
  <2>1. \A i \in 1..Len(stack') : FrameInv(stack[i])'
    BY <1>1
  <2>2. In("close")' => \A q \in Allocated' : ~Gone(cell[q].client)'
    BY <1>1, <1>3 DEF In
  <2>3. \A c \in Clients : clients'[c] = "gone" => Closing(stack', c)
    OBVIOUS
  <2> QED
    BY <2>1, <2>2, <2>3 DEF ThreadInv
<1> QED
  BY <1>1, <1>2, <1>4, <1>5 DEF IInv

(* Outside of the queue there is one procedure, and it says nothing.       *)
LEMMA OutsideInv ==
    ASSUME Shape(stack'), Len(stack') = 1,
           stack'[1].function \in {"dispatch", "wait", "block"},
           \A c \in Clients : clients'[c] # "gone"
    PROVE  ThreadInv'
<1>1. Top' = stack'[1]
  BY DEF Top, Shape
<1> QED
  BY <1>1 DEF ThreadInv, FrameInv, In

LEMMA TailStays ==
    ASSUME workQueueLast' \in Addresses', next'[workQueueLast'] = Nil
    PROVE  TailInv'
BY DEF TailInv, Addresses

----------------------------------------------------------------------------
(* Steps that leave the list and the clients as they are.                  *)

(* From one of the places outside of the queue to another.                 *)
LEMMA GotoKeeps ==
    ASSUME IInv, UNCHANGED <<listVars, sleepVars, clients, GrabInProgress>>,
           stack[1].function \in {"dispatch", "wait", "block"},
           NEW f \in {"dispatch", "wait", "block"}, Goto(f)
    PROVE  IInv'
<1>1. PICK x \in FrameRec : x = Frame(f, 0, Nil) /\ x.function = f /\ x.q = Nil
  <2>1. f \in Procedures /\ 0 \in Nat /\ Nil \in Cells \cup {Nil}
    BY DEF Procedures
  <2> QED
    BY <2>1, FrameIs
<1>2. Shape(stack') /\ Len(stack') = 1 /\ stack'[1] = x
  BY <1>1, ShapeOne DEF Goto, Begins
<1>3. \A c \in Clients : clients[c] # "gone"
  BY NoneGone, Outermost
<1>4. TailInv'
  <2>1. workQueueLast \in Addresses /\ next[workQueueLast] = Nil
    BY TailKnown
  <2> QED
    BY <2>1, TailStays DEF listVars, Addresses, Allocated
<1>5. \A i \in 1..Len(stack') : FrameInv(stack'[i])
  BY <1>1, <1>2 DEF FrameInv
<1> QED
  BY <1>1, <1>2, <1>3, <1>4, <1>5, ThreadMoves DEF listVars, sleepVars, IInv, TypeOK

LEMMA WaitKeeps ==
    ASSUME IInv, Wait
    PROVE  IInv'
<1>1. stack[1].function = "wait" /\ Begins(stack[1])
  BY TopIs, Outermost DEF Wait, In
<1>2. CASE ~HasWork
  <2>1. Goto("block")
    BY <1>2 DEF Wait, Goto
  <2> QED
    BY <1>1, <2>1, GotoKeeps DEF Wait
<1>3. CASE HasWork
  <2>1. PICK x \in FrameRec :
          x = Frame("queue", Head0, Nil) /\ x.function = "queue" /\ x.q = Nil /\ x.at = Head0
    <3>1. "queue" \in Procedures /\ Head0 \in Nat /\ Nil \in Cells \cup {Nil}
      BY DEF Procedures, Head0
    <3> QED
      BY <3>1, FrameIs
  <2>2. Shape(stack') /\ Len(stack') = 1 /\ stack'[1] = x
    BY <1>3, <2>1, ShapeOne DEF Wait, Begins
  <2>3. \A c \in Clients : clients[c] # "gone"
    BY <1>1, NoneGone
  <2>4. TailInv'
    <3>1. workQueueLast \in Addresses /\ next[workQueueLast] = Nil
      BY <1>1, TailKnown
    <3> QED
      BY <3>1, TailStays DEF Wait, listVars, Addresses, Allocated
  <2>5. \A q \in Allocated : cell[q].function = "ungrab" => clients[cell[q].client] = "running"
    <3> SUFFICES ASSUME NEW q \in Allocated, cell[q].function = "ungrab"
                 PROVE  clients[cell[q].client] = "running"
      OBVIOUS
    <3>1. cell[q].client # NoClient /\ clients[cell[q].client] \in {"running", "gone"}
      BY DEF IInv, Contents
    <3>2. cell[q].client \in Clients
      BY <3>1 DEF IInv, TypeOK, Allocated
    <3> QED
      BY <3>1, <3>2, <2>3
  <2>6. FrameInv(x)
    BY <2>1, <2>5 DEF FrameInv, QueueFrame
  <2> QED
    BY <2>1, <2>2, <2>3, <2>4, <2>6, ThreadMoves DEF Wait, listVars, sleepVars, IInv, TypeOK
<1> QED
  BY <1>2, <1>3

(* The scan reaches the end of the list: so has all that it passed.        *)
LEMMA ScanEndsKeeps ==
    ASSUME IInv, ScanEnds
    PROVE  IInv'
<1>1. PICK a : a = stack[1].at
  OBVIOUS
<1>2. /\ Top = stack[1] /\ p = a /\ next[a] = Nil /\ workQueueLast' = a
      /\ stack[1].function \in {"queue", "zombies"} /\ stack[1].q = Nil /\ FrameInv(stack[1])
      /\ UNCHANGED <<next, cell, queued, sleepVars, clients, GrabInProgress>>
  BY <1>1, TopIs DEF ScanEnds, Scanning, In, q0, LastOf, p
<1>3. a \in Addresses
  BY <1>1, <1>2 DEF FrameInv, QueueFrame, ZombiesFrame, Addresses
<1>4. TailInv' /\ workQueueLast' \in Cells \cup {Head0}
  BY <1>2, <1>3, TailStays DEF Addresses, Allocated
<1>5. CASE stack[1].function = "queue"
  <2>1. Goto("block")
    BY <1>2, <1>5 DEF ScanEnds, In
  <2>2. PICK x \in FrameRec : x = Frame("block", 0, Nil) /\ x.function = "block" /\ x.q = Nil
    <3>1. "block" \in Procedures /\ 0 \in Nat /\ Nil \in Cells \cup {Nil}
      BY DEF Procedures
    <3> QED
      BY <3>1, FrameIs
  <2>3. Shape(stack') /\ Len(stack') = 1 /\ stack'[1] = x
    BY <2>1, <2>2, ShapeOne DEF Goto, Begins
  <2>4. \A c \in Clients : clients[c] # "gone"
    BY <1>5, NoneGone, Outermost
  <2>5. \A i \in 1..Len(stack') : FrameInv(stack'[i])
    BY <2>2, <2>3 DEF FrameInv
  <2> QED
    BY <1>2, <1>4, <2>2, <2>3, <2>4, <2>5, ThreadMoves DEF sleepVars, IInv, TypeOK
<1>6. CASE stack[1].function = "zombies"
  <2>1. stack' = Tail(stack)
    BY <1>2, <1>6 DEF ScanEnds, In, Pop
  <2>2. /\ Shape(stack') /\ Len(stack') = Len(stack) - 1
        /\ \A i \in 1..Len(stack') : i + 1 \in 1..Len(stack) /\ stack'[i] = stack[i + 1]
    BY <1>6, <2>1, ShapeReturns DEF Begins, IInv, ThreadInv
  <2>3. \A i \in 1..Len(stack') : FrameInv(stack'[i])
    BY <2>2 DEF IInv, ThreadInv
  <2>4. \A q \in Allocated : ~Gone(cell[q].client)
    <3>1. \A q \in Allocated : cell[q].id <= Number(a)
      BY <1>2, <1>3 DEF IInv, Sorted
    <3> QED
      BY <1>1, <1>2, <1>6, <3>1 DEF FrameInv, ZombiesFrame
  <2>5. ASSUME NEW c \in Clients, clients[c] = "gone" PROVE Closing(stack', c)
    <3>1. PICK i \in 1..Len(stack) : stack[i].function = "close" /\ stack[i].at = c
      BY <2>5 DEF IInv, ThreadInv, Closing
    <3>2. Len(stack) \in Nat /\ i # 1
      <4>1. i # 1
        BY <1>6, <3>1
      <4>2. Len(stack) \in Nat
        BY TopIs
      <4> QED
        BY <4>1, <4>2
    <3>3. PICK j \in 1..Len(stack') : j = i - 1
      BY <3>2, <2>2
    <3>4. stack'[j] = stack[i]
      <4>1. j + 1 = i
        BY <3>3
      <4> QED
        BY <4>1, <2>2
    <3> QED
      BY <3>1, <3>3, <3>4 DEF Closing
  <2> QED
    BY <1>2, <1>4, <2>2, <2>3, <2>4, <2>5, ThreadMoves DEF IInv, TypeOK
<1> QED
  BY <1>2, <1>5, <1>6

(* The innermost procedure goes on, and whoever is gone is still closing.  *)
LEMMA TopMoves ==
    ASSUME IInv, UNCHANGED <<next, cell, queued, clients, sleepVars, workQueueLast, GrabInProgress>>,
           NEW f \in FrameRec, f.function = stack[1].function,
           f.function \notin {"close"}, f.q # Nil => f.function = "queue", FrameInv(f),
           stack' = <<f>> \o Tail(stack),
           workQueueLast \in Addresses /\ next[workQueueLast] = Nil
    PROVE  IInv'
<1>1. /\ Shape(stack') /\ Len(stack') = Len(stack) /\ stack'[1] = f
      /\ \A i \in 2..Len(stack) : stack'[i] = stack[i]
  <2>1. PICK s : s = stack
    OBVIOUS
  <2>2. PICK t : GoesOn(s, t, f) /\ t = stack'
    BY <2>1 DEF GoesOn
  <2>3. Shape(s) /\ f.function = s[1].function
    BY <2>1 DEF IInv, ThreadInv
  <2>4. /\ Shape(t) /\ Len(t) = Len(s) /\ t[1] = f
        /\ \A i \in 2..Len(s) : t[i] = s[i]
    <3>1. GoesOn(s, t, f) /\ Shape(s) /\ f.function = s[1].function
      BY <2>2, <2>3
    <3>2. f.q # Nil => f.function = "queue"
      OBVIOUS
    <3> QED
      BY <3>1, <3>2, ShapeTop, SMT
  <2> QED
    BY <2>1, <2>2, <2>4
<1>2. Len(stack) \in Nat
  BY TopIs
<1>3. \A i \in 1..Len(stack') : FrameInv(stack'[i])
  BY <1>1, <1>2 DEF IInv, ThreadInv
<1>4. ASSUME NEW c \in Clients, clients[c] = "gone" PROVE Closing(stack', c)
  <2>1. PICK i \in 1..Len(stack) : stack[i].function = "close" /\ stack[i].at = c
    BY <1>4 DEF IInv, ThreadInv, Closing
  <2>2. i # 1
    BY <2>1
  <2> QED
    BY <1>1, <1>2, <2>1, <2>2 DEF Closing
<1>5. TailInv'
  BY TailStays DEF Addresses, Allocated
<1> QED
  BY <1>1, <1>3, <1>4, <1>5, ThreadMoves DEF IInv, TypeOK

(* A scan for zombies passes over the next cell.                           *)
LEMMA PassOverKeeps ==
    ASSUME IInv, PassOver
    PROVE  IInv'
<1>1. PICK a : a = stack[1].at
  OBVIOUS
<1>2. PICK q : q = next[a]
  OBVIOUS
<1>3. /\ Top = stack[1] /\ p = a /\ q0 = q /\ q # Nil /\ ~Gone(cell[q].client)
      /\ stack[1].function = "zombies" /\ stack[1] \in FrameRec /\ ZombiesFrame(stack[1])
      /\ stack' = <<[stack[1] EXCEPT !.at = q]>> \o Tail(stack)
  BY <1>1, <1>2, TopIs DEF PassOver, In, q0, p, FrameInv
<1>4. a \in Addresses /\ q \in Allocated
  BY <1>1, <1>2, <1>3 DEF ZombiesFrame, IInv, Sorted
<1>5. PICK f : f = [stack[1] EXCEPT !.at = q]
  OBVIOUS
<1>6. q \in Cells /\ q \in Nat /\ q # Head0
  BY <1>4, Memory DEF Allocated, Cells
<1>7. f \in FrameRec /\ f.function = "zombies" /\ f.q = Nil /\ f.at = q
  <2>1. stack[1].q = Nil
    BY <1>3, ShapeIs DEF IInv, ThreadInv, Begins, Calls
  <2> QED
    BY <1>3, <1>5, <1>6, <2>1 DEF FrameRec
<1>8. ZombiesFrame(f)
  <2>1. Number(q) = cell[q].id
    BY <1>6 DEF Number
  <2>2. ASSUME NEW r \in Allocated, cell[r].id <= cell[q].id PROVE ~Gone(cell[r].client)
    <3>1. cell[r].id <= Number(a) \/ cell[q].id <= cell[r].id
      BY <1>2, <1>3, <1>4 DEF IInv, Sorted
    <3>2. CASE cell[r].id <= Number(a)
      BY <3>2, <1>1, <1>3 DEF ZombiesFrame
    <3>3. CASE cell[q].id <= cell[r].id
      <4>1. cell[r].id = cell[q].id
        BY <3>3, <2>2, <1>4 DEF IInv, Sorted
      <4>2. r = q
        BY <4>1, <1>4 DEF IInv, Sorted
      <4> QED
        BY <4>2, <1>3
    <3> QED
      BY <3>1, <3>2, <3>3
  <2> QED
    BY <1>4, <1>7, <2>1, <2>2 DEF ZombiesFrame, Addresses
<1>9. workQueueLast \in Addresses /\ next[workQueueLast] = Nil
  BY <1>1, <1>2, <1>3, TailKnown
<1> QED
  BY <1>3, <1>5, <1>7, <1>8, <1>9, TopMoves DEF FrameInv, PassOver, listVars, sleepVars

(* The cell that is called, and where the scan stands.                     *)
LEMMA CalledIs ==
    ASSUME IInv, NEW f, Called(f)
    PROVE  /\ Top = stack[1] /\ stack[1] \in FrameRec /\ stack[1].q = Nil
           /\ stack[1].function \in {"queue", "zombies"}
           /\ p = stack[1].at /\ q0 = next[p] /\ q0 # Nil
           /\ p \in Addresses /\ q0 \in Allocated /\ cell[q0].function = f
           /\ stack[1].function = "zombies" => Gone(cell[q0].client)
           /\ stack[1].function = "queue" =>
                 Len(stack) = 1 /\ QueueFrame(stack[1]) /\ \A c \in Clients : clients[c] # "gone"
           /\ workQueueLast \in Addresses /\ next[workQueueLast] = Nil
           /\ q0 \in Cells /\ q0 \in Nat /\ q0 # Head0
<1>1. /\ Top = stack[1] /\ stack[1] \in FrameRec /\ stack[1].q = Nil
      /\ stack[1].function \in {"queue", "zombies"} /\ FrameInv(stack[1])
      /\ p = stack[1].at /\ q0 = next[p] /\ q0 # Nil /\ cell[q0].function = f
      /\ stack[1].function = "zombies" => Gone(cell[q0].client)
  BY TopIs DEF Called, Scanning, In, q0, p
<1>2. p \in Addresses
  BY <1>1 DEF FrameInv, QueueFrame, ZombiesFrame, Addresses
<1>3. q0 \in Allocated
  BY <1>1, <1>2 DEF IInv, Sorted
<1>4. q0 \in Cells /\ q0 \in Nat /\ q0 # Head0
  BY <1>3, Memory DEF Allocated, Cells
<1>5. workQueueLast \in Addresses /\ next[workQueueLast] = Nil
  BY <1>1, TailKnown
<1>6. ASSUME stack[1].function = "queue"
      PROVE  Len(stack) = 1 /\ QueueFrame(stack[1]) /\ \A c \in Clients : clients[c] # "gone"
  BY <1>1, <1>6, ShapeIs, NoneGone DEF FrameInv, Begins, IInv, ThreadInv
<1> QED
  BY <1>1, <1>2, <1>3, <1>4, <1>5, <1>6

LEMMA UngrabKept ==
    ASSUME IInv, Called("ungrab"), ~Gone(cell[q0].client),
           stack' = <<[Top EXCEPT !.at = q0]>> \o Tail(stack),
           UNCHANGED <<listVars, sleepVars, clients, GrabInProgress>>
    PROVE  IInv'
<1>1. PICK f : f = [stack[1] EXCEPT !.at = q0]
  OBVIOUS
<1>2. stack[1].function = "queue" /\ stack' = <<f>> \o Tail(stack)
  BY <1>1, CalledIs
<1>3. f \in FrameRec /\ f.function = "queue" /\ f.q = Nil /\ f.at = q0
  BY <1>1, <1>2, CalledIs DEF FrameRec
<1>4. QueueFrame(f)
  BY <1>2, <1>3, CalledIs DEF QueueFrame
<1> QED
  BY <1>2, <1>3, <1>4, CalledIs, TopMoves DEF FrameInv, listVars

LEMMA EstablishKeeps ==
    ASSUME IInv, EstablishNewConnections
    PROVE  IInv'
<1>1. /\ Called("establish") /\ UNCHANGED <<listVars, sleepVars, clients, GrabInProgress>>
      /\ stack' = <<Frame("establish", 1, Nil), [Top EXCEPT !.q = q0]>> \o Tail(stack)
  BY DEF EstablishNewConnections
<1>2. stack[1].function = "queue"
  <2>1. cell[q0].client = NoClient
    BY <1>1, CalledIs DEF IInv, Contents
  <2> QED
    BY <1>1, <2>1, CalledIs DEF Gone
<1>3. PICK e \in FrameRec :
        e = Frame("establish", 1, Nil) /\ e.function = "establish" /\ e.q = Nil
  <2>1. "establish" \in Procedures /\ 1 \in Nat /\ Nil \in Cells \cup {Nil}
    BY DEF Procedures
  <2> QED
    BY <2>1, FrameIs
<1>4. PICK g : g = [stack[1] EXCEPT !.q = q0]
  OBVIOUS
<1>5. /\ g \in FrameRec /\ g.function = "queue" /\ g.q = q0 /\ g.q # Nil
      /\ g.at = stack[1].at
  BY <1>1, <1>2, <1>4, CalledIs DEF FrameRec
<1>6. Len(stack) = 1 /\ stack' = <<e, g>> \o Tail(stack) /\ Shape(stack)
  BY <1>1, <1>2, <1>3, <1>4, CalledIs DEF IInv, ThreadInv
<1>7. Shape(stack') /\ Len(stack') = 2 /\ stack'[1] = e /\ stack'[2] = g
  <2>1. PICK s : s = stack
    OBVIOUS
  <2>2. PICK t : CallsFrom(s, t, e, g) /\ t = stack'
    BY <1>6, <2>1 DEF CallsFrom
  <2>3. e \in FrameRec /\ e.function = "establish" /\ e.q = Nil
    BY <1>3
  <2>4. Shape(t) /\ Len(t) = 2 /\ t[1] = e /\ t[2] = g
    <3>1. CallsFrom(s, t, e, g) /\ Shape(s) /\ Len(s) = 1
      BY <1>6, <2>1, <2>2
    <3>2. g \in FrameRec /\ g.function = "queue" /\ g.q # Nil
      BY <1>5
    <3> QED
      BY <2>3, <3>1, <3>2, ShapeCalls
  <2> QED
    BY <2>2, <2>4
<1>8. FrameInv(g)
  BY <1>1, <1>2, <1>5, CalledIs DEF FrameInv, QueueFrame
<1>9. \A i \in 1..Len(stack') : FrameInv(stack'[i])
  <2>1. \A i \in 1..2 : i = 1 \/ i = 2
    OBVIOUS
  <2> QED
    BY <1>3, <1>7, <1>8, <2>1 DEF FrameInv
<1>10. TailInv'
  BY <1>1, CalledIs, TailStays DEF listVars, Addresses, Allocated
<1>11. \A c \in Clients : clients[c] # "gone"
  BY <1>1, <1>2, CalledIs
<1> QED
  BY <1>1, <1>3, <1>7, <1>9, <1>10, <1>11, ThreadMoves DEF listVars, IInv, TypeOK

LEMMA EstablishedKeeps ==
    ASSUME IInv, Established
    PROVE  IInv'
<1>1. /\ stack[1].function = "establish" /\ stack' = Tail(stack)
      /\ UNCHANGED <<listVars, sleepVars, clients, GrabInProgress>>
  BY TopIs DEF Established, In, Pop
<1>2. /\ Shape(stack') /\ Len(stack') = Len(stack) - 1
      /\ \A i \in 1..Len(stack') : i + 1 \in 1..Len(stack) /\ stack'[i] = stack[i + 1]
  BY <1>1, ShapeReturns DEF Begins, IInv, ThreadInv
<1>3. Len(stack') = 1 /\ stack'[1].function = "queue"
  <2>1. Len(stack) = 2 /\ stack[2].function = "queue"
    BY <1>1, ShapeIs DEF IInv, ThreadInv, Begins, Calls
  <2> QED
    BY <1>2, <2>1
<1>4. \A i \in 1..Len(stack') : FrameInv(stack'[i])
  BY <1>2 DEF IInv, ThreadInv
<1>5. \A c \in Clients : clients[c] # "gone"
  BY <1>1, NoneGone
<1>6. TailInv'
  BY <1>1, TailKnown, TailStays DEF listVars, Addresses, Allocated
<1> QED
  BY <1>1, <1>2, <1>3, <1>4, <1>5, <1>6, ThreadMoves DEF listVars, IInv, TypeOK

----------------------------------------------------------------------------
(* A scan unlinks the cell of a procedure that has returned TRUE.          *)

LEMMA ZombiesOnTop ==
    ASSUME NEW s, Shape(s), NEW i \in 1..Len(s), s[i].function = "zombies"
    PROVE  i = 1
<1> SUFFICES ASSUME i # 1 PROVE FALSE
  OBVIOUS
<1>1. PICK n \in Nat : n = Len(s)
  BY DEF Shape
<1>2. PICK j \in 1..n - 1 : j + 1 = i
  <2>1. i - 1 \in 1..n - 1 /\ (i - 1) + 1 = i
    BY <1>1
  <2> QED
    BY <2>1
<1>3. Calls(s[i], s[j])
  BY <1>1, <1>2 DEF Shape
<1> QED
  BY <1>3 DEF Calls

(* The rooms that are kept back only become fewer.                         *)
LEMMA RoomKept ==
    ASSUME IInv, Unsignalled' \subseteq Unsignalled, queued' = queued,
           Cardinality(Allocated') \in Nat, Cardinality(Allocated') <= Cardinality(Allocated)
    PROVE  Room'
<1>1. IsFiniteSet(Unsignalled)
  BY Memory, FS_Subset DEF Unsignalled
<1>2. /\ Cardinality(Unsignalled) \in Nat /\ Cardinality(Unsignalled') \in Nat
      /\ Cardinality(Unsignalled') <= Cardinality(Unsignalled)
  BY <1>1, FS_Subset, FS_CardinalityType
<1>3. queued \in Nat /\ Cardinality(Allocated) \in Nat
  BY AllocatedFinite, NumbersAssumption DEF IInv, TypeOK
<1> QED
  BY <1>2, <1>3, NumbersAssumption DEF IInv, Room

(* The scan of the queue that waits for EstablishNewConnections does not   *)
(* lose what it has by the unlinking of a client's procedure.              *)
LEMMA QueueFrameLeft ==
    ASSUME IInv, NEW a \in Addresses, NEW q \in Allocated, next[a] = q,
           cell[q].client # NoClient,
           Allocated' = Allocated \ {q}, clients' = clients,
           \A r \in Allocated \ {q} : cell'[r] = cell[r],
           \A b \in Addresses \ {a} : next'[b] = next[b],
           NEW f, QueueFrame(f),
           f.at # q
    PROVE  QueueFrame(f)'
<1>1. f.at = Head0 \/ (f.at \in Allocated' /\ cell'[f.at].function = "ungrab")
  BY DEF QueueFrame
<1>2. ASSUME f.q # Nil
      PROVE  next'[f.at] = f.q /\ f.q \in Allocated' /\ cell'[f.q].function = "establish"
  <2>1. next[f.at] = f.q /\ f.q \in Allocated /\ cell[f.q].function = "establish"
    BY <1>2 DEF QueueFrame
  <2>2. f.q # q
    BY <2>1 DEF IInv, Contents
  <2>3. f.at \in Addresses \ {a}
    BY <2>1, <2>2 DEF QueueFrame, Addresses
  <2> QED
    BY <2>1, <2>2, <2>3
<1>3. \A r \in Allocated' : cell'[r].function = "ungrab" => clients'[cell'[r].client] = "running"
  BY DEF QueueFrame
<1> QED
  BY <1>1, <1>2, <1>3 DEF QueueFrame

LEMMA UnlinkKeeps ==
    ASSUME IInv, NEW f, Called(f), Unlinked(q0), f # "establish",
           UNCHANGED <<workQueueLast, queued, slept, clients, GrabInProgress, stack>>,
           sleepQueue' \in [Clients -> 0..MaxSleeps], closures' \subseteq 1..MaxSleeps,
           \A c \in Clients : sleepQueue'[c] # NoClosure =>
               /\ sleepQueue[c] # NoClosure
               /\ f = "sleep" /\ clients[c] = "gone" => c # cell[q0].client
    PROVE  IInv'
<1>1. PICK a \in Addresses : a = p
  BY CalledIs
<1>2. PICK q \in Allocated : q = q0
  BY CalledIs
<1>3. /\ next[a] = q /\ cell[q].function = f /\ a = stack[1].at
      /\ next' = [next EXCEPT ![a] = next[q]] /\ cell' = [cell EXCEPT ![q] = Free]
      /\ stack[1].function \in {"queue", "zombies"} /\ stack[1].q = Nil
      /\ stack[1].function = "zombies" => Gone(cell[q].client)
      /\ stack[1].function = "queue" =>
            Len(stack) = 1 /\ QueueFrame(stack[1]) /\ \A c \in Clients : clients[c] # "gone"
      /\ workQueueLast \in Addresses /\ next[workQueueLast] = Nil /\ q # Nil /\ q # Head0
      /\ queued' = queued /\ clients' = clients
  BY <1>1, <1>2, CalledIs DEF Unlinked, q0
<1>4. /\ Sorted' /\ Allocated' = Allocated \ {q} /\ a # q /\ a \in Addresses'
      /\ next' \in [Cells \cup {Head0} -> Cells \cup {Nil}] /\ cell' \in [Cells -> CellRec]
      /\ Cardinality(Allocated') = Cardinality(Allocated) - 1
      /\ \A r \in Allocated \ {q} : cell'[r] = cell[r]
      /\ next'[a] = next[q]
      /\ \A b \in Addresses \ {a} : next'[b] = next[b]
  <2>1. TypeOK /\ Sorted
    BY DEF IInv
  <2>2. /\ next[a] = q /\ queued' = queued
        /\ next' = [next EXCEPT ![a] = next[q]] /\ cell' = [cell EXCEPT ![q] = Free]
    BY <1>3
  <2>3. /\ Sorted' /\ Allocated' = Allocated \ {q} /\ a # q /\ a \in Addresses'
        /\ next' \in [Cells \cup {Head0} -> Cells \cup {Nil}] /\ cell' \in [Cells -> CellRec]
        /\ Cardinality(Allocated') = Cardinality(Allocated) - 1
    BY <2>1, <2>2, CellUnlinked
  <2>4. \A r \in Allocated \ {q} : cell'[r] = cell[r]
    BY <2>2 DEF IInv, TypeOK, Addresses, Allocated
  <2>5. next'[a] = next[q] /\ \A b \in Addresses \ {a} : next'[b] = next[b]
    BY <2>2 DEF IInv, TypeOK, Addresses, Allocated
  <2> QED
    BY <2>3, <2>4, <2>5
<1>5. cell[q].client # NoClient /\ cell[q].client \in Clients
  BY <1>3 DEF IInv, Contents, TypeOK, Allocated
<1>6. TypeOK'
  BY <1>4 DEF IInv, TypeOK, CellRec
<1>7. TailInv'
  <2> SUFFICES ASSUME MayQueue'
               PROVE  workQueueLast' \in Addresses' /\ next'[workQueueLast'] = Nil
    BY DEF TailInv, Addresses
  <2>1. Top' = Top /\ Top = stack[1] /\ p' = a
    BY <1>1, TopIs DEF Top, p
  <2>2. next'[a] # Nil
    BY <1>3, <2>1 DEF MayQueue, Scanning, In, q0
  <2>3. workQueueLast # q /\ workQueueLast # a
    BY <1>3, <1>4, <2>2
  <2> QED
    BY <1>3, <1>4, <2>3 DEF Addresses
<1>8. Contents'
  BY <1>3, <1>4 DEF IInv, Contents
<1>9. Signalled'
  <2> SUFFICES ASSUME NEW c \in Clients, sleepQueue'[c] # NoClosure
               PROVE  /\ clients[c] # "freed"
                      /\ clients[c] = "gone" =>
                            \E r \in Allocated' : cell'[r].function = "sleep" /\ cell'[r].client = c
    BY <1>3 DEF Signalled
  <2>1. clients[c] # "freed"
    BY DEF IInv, Signalled
  <2>2. ASSUME clients[c] = "gone"
        PROVE  \E r \in Allocated' : cell'[r].function = "sleep" /\ cell'[r].client = c
    <3>1. PICK r \in Allocated : cell[r].function = "sleep" /\ cell[r].client = c
      BY <2>2 DEF IInv, Signalled
    <3>2. r # q
      BY <3>1, <2>2, <1>2, <1>3
    <3> QED
      BY <3>1, <3>2, <1>4
  <2> QED
    BY <2>1, <2>2
<1>10. Room'
  <2>1. Unsignalled' \subseteq Unsignalled
    BY <1>3 DEF Unsignalled
  <2>2. Cardinality(Allocated) \in Nat /\ Cardinality(Allocated) # 0
    <3>1. Allocated # {}
      OBVIOUS
    <3> QED
      BY <3>1, AllocatedFinite, FS_EmptySet
  <2> QED
    BY <1>3, <1>4, <2>1, <2>2, RoomKept
<1>11. ASSUME NEW i \in 1..Len(stack) PROVE FrameInv(stack[i])'
  <2>1. Shape(stack) /\ FrameInv(stack[i])
    BY DEF IInv, ThreadInv
  <2>2. ASSUME stack[i].function = "queue" PROVE QueueFrame(stack[i])'
    <3>1. QueueFrame(stack[i])
      BY <2>1, <2>2 DEF FrameInv
    <3>2. stack[i].at # q
      <4>1. CASE stack[1].function = "queue"
        <5>1. i = 1
          <6>1. Len(stack) = 1
            BY <4>1, <1>3
          <6> QED
            BY <6>1
        <5>2. stack[1].at = a /\ a # q
          BY <1>3, <1>4
        <5> QED
          BY <5>1, <5>2
      <4>2. CASE stack[1].function = "zombies"
        BY <4>2, <3>1, <1>3, <1>5 DEF QueueFrame, Gone
      <4> QED
        BY <4>1, <4>2, <1>3
    <3> QED
      BY <3>1, <3>2, <1>3, <1>4, <1>5, QueueFrameLeft
  <2>3. ASSUME stack[i].function = "zombies" PROVE ZombiesFrame(stack[i])'
    <3>1. i = 1 /\ ZombiesFrame(stack[i])
      BY <2>1, <2>3, ZombiesOnTop DEF FrameInv
    <3>2. Number(a)' = Number(a)
      BY <1>4 DEF Number, Addresses
    <3>3. \A r \in Allocated' : Gone(cell[r].client)' <=> Gone(cell[r].client)
      BY <1>3, <1>4 DEF Gone
    <3>4. \A r \in Allocated' : cell'[r].id <= Number(a)' => ~Gone(cell[r].client)'
      BY <3>1, <3>2, <3>3, <1>3, <1>4 DEF ZombiesFrame
    <3> QED
      BY <3>1, <3>4, <1>3, <1>4 DEF ZombiesFrame
  <2>4. stack[i].function = "close" => CloseFrame(stack[i])'
    BY <2>1, <1>3 DEF FrameInv, CloseFrame
  <2> QED
    BY <2>2, <2>3, <2>4 DEF FrameInv
<1>12. ThreadInv'
  <2>1. ~In("close")'
    BY <1>3, TopIs DEF In, Top
  <2>2. \A c \in Clients : clients'[c] = "gone" => Closing(stack', c)
    BY <1>3 DEF IInv, ThreadInv
  <2>3. Shape(stack') /\ stack' = stack
    BY DEF IInv, ThreadInv
  <2> QED
    BY <1>11, <2>1, <2>2, <2>3 DEF ThreadInv
<1> QED
  BY <1>4, <1>6, <1>7, <1>8, <1>9, <1>10, <1>12 DEF IInv

LEMMA SleepProcKeeps ==
    ASSUME IInv, SleepProcEnds \/ SleepProcSuspended
    PROVE  IInv'
<1>1. sleepQueue \in [Clients -> 0..MaxSleeps] /\ closures \subseteq 1..MaxSleeps
  BY DEF IInv, TypeOK
<1>2. CASE SleepProcEnds
  <2>1. q0 \in Allocated /\ cell[q0].client \in Clients
    BY <1>2, CalledIs DEF SleepProcEnds, IInv, Contents, TypeOK, Allocated
  <2>2. /\ Called("sleep") /\ Unlinked(q0)
        /\ UNCHANGED <<workQueueLast, queued, slept, clients, GrabInProgress, stack>>
        /\ sleepQueue' = [sleepQueue EXCEPT ![cell[q0].client] = NoClosure]
        /\ closures' \subseteq closures
    BY <1>2 DEF SleepProcEnds
  <2>3. sleepQueue' \in [Clients -> 0..MaxSleeps] /\ closures' \subseteq 1..MaxSleeps
    BY <1>1, <2>1, <2>2, NumbersAssumption DEF NoClosure
  <2>4. \A c \in Clients : sleepQueue'[c] # NoClosure =>
            sleepQueue[c] # NoClosure /\ c # cell[q0].client
    BY <1>1, <2>1, <2>2
  <2> QED
    BY <2>2, <2>3, <2>4, UnlinkKeeps
<1>3. CASE SleepProcSuspended
  <2>1. /\ Called("sleep") /\ Unlinked(q0) /\ ~Gone(cell[q0].client)
        /\ UNCHANGED <<workQueueLast, queued, slept, clients, GrabInProgress, stack>>
        /\ UNCHANGED <<sleepQueue, closures>>
    BY <1>3 DEF SleepProcSuspended, sleepVars
  <2>2. \A c \in Clients : clients[c] = "gone" => c # cell[q0].client
    BY <2>1, Memory DEF Gone
  <2> QED
    BY <1>1, <2>1, <2>2, UnlinkKeeps
<1> QED
  BY <1>2, <1>3

LEMMA WaitForUngrabKeeps ==
    ASSUME IInv, LbxWaitForUngrab
    PROVE  IInv'
<1>1. /\ Called("ungrab")
      /\ UNCHANGED <<workQueueLast, queued, sleepVars, clients, GrabInProgress>>
  BY DEF LbxWaitForUngrab
<1>2. CASE ~Gone(cell[q0].client) /\ GrabInProgress # NoClient
  BY <1>1, <1>2, UngrabKept DEF LbxWaitForUngrab, listVars
<1>3. CASE ~(~Gone(cell[q0].client) /\ GrabInProgress # NoClient)
  <2>1. Unlinked(q0) /\ UNCHANGED stack
    BY <1>3 DEF LbxWaitForUngrab
  <2> QED
    BY <1>1, <2>1, UnlinkKeeps DEF sleepVars, IInv, TypeOK
<1> QED
  BY <1>2, <1>3

(* The cell of EstablishNewConnections, which clients do not wait for.     *)
LEMMA EstablishReturnsKeeps ==
    ASSUME IInv, EstablishReturns
    PROVE  IInv'
<1>1. /\ stack[1].function = "queue" /\ stack[1].q # Nil /\ stack[1] \in FrameRec
      /\ Len(stack) = 1 /\ QueueFrame(stack[1]) /\ Top = stack[1]
  BY TopIs, Outermost DEF EstablishReturns, In, FrameInv
<1>2. PICK q \in Allocated : q = stack[1].q
  BY <1>1 DEF QueueFrame
<1>3. PICK a \in Addresses : a = stack[1].at
  BY <1>1 DEF QueueFrame, Addresses
<1>4. PICK f : f = [stack[1] EXCEPT !.q = Nil]
  OBVIOUS
<1>5. /\ next[a] = q /\ cell[q].function = "establish" /\ q # Nil /\ q0 = q /\ p = a
      /\ next' = [next EXCEPT ![a] = next[q]] /\ cell' = [cell EXCEPT ![q] = Free]
  BY <1>1, <1>2, <1>3 DEF QueueFrame, EstablishReturns, Unlinked, p, q0
<1>6. /\ stack' = <<f>> \o Tail(stack)
      /\ UNCHANGED <<workQueueLast, queued, sleepVars, clients, GrabInProgress>>
  BY <1>1, <1>4 DEF EstablishReturns
<1>7. f \in FrameRec /\ f.function = "queue" /\ f.q = Nil /\ f.at = a
  BY <1>1, <1>3, <1>4 DEF FrameRec
<1>8. /\ Sorted' /\ Allocated' = Allocated \ {q} /\ a # q /\ a \in Addresses'
      /\ next' \in [Cells \cup {Head0} -> Cells \cup {Nil}] /\ cell' \in [Cells -> CellRec]
      /\ Cardinality(Allocated') = Cardinality(Allocated) - 1
  <2>1. TypeOK /\ Sorted
    BY DEF IInv
  <2> QED
    BY <1>5, <1>6, <2>1, CellUnlinked
<1>9. /\ \A r \in Allocated \ {q} : cell'[r] = cell[r]
      /\ next'[a] = next[q] /\ \A b \in Addresses \ {a} : next'[b] = next[b]
  <2>1. TypeOK /\ Sorted
    BY DEF IInv
  <2>2. \A r \in Allocated \ {q} : cell'[r] = cell[r]
    BY <1>5 DEF IInv, TypeOK, Addresses, Allocated
  <2>3. next'[a] = next[q] /\ \A b \in Addresses \ {a} : next'[b] = next[b]
    BY <1>5 DEF IInv, TypeOK, Addresses, Allocated
  <2> QED
    BY <2>2, <2>3
<1>10. Shape(stack') /\ Len(stack') = 1 /\ stack'[1] = f
  <2>1. PICK s : s = stack
    OBVIOUS
  <2>2. PICK t : GoesOn(s, t, f) /\ t = stack'
    BY <1>6, <2>1 DEF GoesOn
  <2>3. /\ Shape(t) /\ Len(t) = Len(s) /\ t[1] = f
        /\ \A i \in 2..Len(s) : t[i] = s[i]
    <3>1. GoesOn(s, t, f) /\ Shape(s) /\ f.function = s[1].function
      BY <1>1, <1>7, <2>1, <2>2 DEF IInv, ThreadInv
    <3>2. f \in FrameRec /\ (f.q # Nil => f.function = "queue")
      BY <1>7
    <3> QED
      BY <3>1, <3>2, ShapeTop
  <2> QED
    BY <1>1, <2>1, <2>2, <2>3
<1>11. Top' = f /\ stack' \in Seq(FrameRec) /\ stack' # <<>>
  BY <1>10 DEF Shape, Top
<1>12. TypeOK'
  BY <1>6, <1>8, <1>11 DEF IInv, TypeOK, CellRec, FrameRec, sleepVars
<1>13. TailInv'
  <2> SUFFICES ASSUME MayQueue'
               PROVE  workQueueLast' \in Addresses' /\ next'[workQueueLast'] = Nil
    BY DEF TailInv, Addresses
  <2>1. next'[a] # Nil
    BY <1>7, <1>11 DEF MayQueue, Scanning, In, q0, p
  <2>2. workQueueLast \in Addresses /\ next[workQueueLast] = Nil
    BY <1>3, <1>5, TailKnown
  <2>3. workQueueLast # q /\ workQueueLast # a
    BY <1>5, <1>9, <2>1, <2>2
  <2> QED
    BY <1>6, <1>8, <1>9, <2>2, <2>3 DEF Addresses
<1>14. Contents'
  BY <1>6, <1>8, <1>9 DEF IInv, Contents
<1>15. \A c \in Clients : clients[c] # "gone"
  BY <1>1, NoneGone, Outermost
<1>16. Signalled'
  BY <1>6, <1>15 DEF IInv, Signalled, sleepVars
<1>17. Room'
  <2>1. Unsignalled' = Unsignalled
    BY <1>6 DEF Unsignalled, sleepVars
  <2>2. Cardinality(Allocated) \in Nat /\ Cardinality(Allocated) # 0
    <3>1. Allocated # {}
      OBVIOUS
    <3> QED
      BY <3>1, AllocatedFinite, FS_EmptySet
  <2> QED
    BY <1>6, <1>8, <2>1, <2>2, RoomKept
<1>18. QueueFrame(f)'
  <2>1. \A r \in Allocated' : cell'[r].function = "ungrab" => clients'[cell'[r].client] = "running"
    BY <1>1, <1>6, <1>8, <1>9 DEF QueueFrame
  <2>2. a = Head0 \/ (a \in Allocated' /\ cell'[a].function = "ungrab")
    BY <1>1, <1>3, <1>8, <1>9 DEF QueueFrame
  <2> QED
    BY <1>7, <2>1, <2>2 DEF QueueFrame
<1>19. ThreadInv'
  <2>1. \A i \in 1..Len(stack') : FrameInv(stack[i])'
    BY <1>7, <1>10, <1>18 DEF FrameInv
  <2>2. ~In("close")'
    BY <1>7, <1>11 DEF In
  <2> QED
    BY <1>6, <1>10, <1>15, <2>1, <2>2 DEF ThreadInv
<1> QED
  BY <1>8, <1>12, <1>13, <1>14, <1>16, <1>17, <1>19 DEF IInv

----------------------------------------------------------------------------
(* Outside of the queue.                                                   *)

(* What is queued outside of the queue, for whoever is not gone.           *)
LEMMA QueuedKeeps ==
    ASSUME IInv, stack[1].function \in {"dispatch", "block"}, HasRoom,
           NEW f \in Functions \ {"none"}, NEW c \in Clients \cup {NoClient}, NEW k \in 0..MaxSleeps,
           f = "establish" <=> c = NoClient, c # NoClient => clients[c] # "freed",
           f = "ungrab" => clients[c] = "running",
           QueueWorkProc(f, c, k), UNCHANGED <<sleepVars, clients, GrabInProgress>>,
           Shape(stack'), Len(stack') = 1,
           stack'[1].function \in {"dispatch", "wait", "block"}
    PROVE  IInv'
<1>1. \A d \in Clients : clients[d] # "gone"
  BY NoneGone, Outermost
<1>2. workQueueLast \in Addresses /\ next[workQueueLast] = Nil
  BY TailKnown
<1>3. /\ IsFiniteSet(Sleepers) /\ Cardinality(Unsignalled) \in Nat
      /\ Cardinality(Sleepers) \in Nat /\ Cardinality(Unsignalled) <= Cardinality(Sleepers)
  <2>1. IsFiniteSet(Sleepers) /\ Unsignalled \subseteq Sleepers
    BY Memory, FS_Subset DEF Sleepers, Unsignalled
  <2> QED
    BY <2>1, FS_Subset, FS_CardinalityType
<1>4. Cardinality(Allocated) \in Nat /\ queued \in Nat
  BY AllocatedFinite, NumbersAssumption DEF IInv, TypeOK
<1>5. Cardinality(Allocated) < NCells /\ queued < MaxQueued
  BY <1>3, <1>4, NumbersAssumption DEF HasRoom
<1>6. /\ Sorted' /\ queued' = queued + 1 /\ queued' \in 0..MaxQueued
      /\ next' \in [Cells \cup {Head0} -> Cells \cup {Nil}] /\ cell' \in [Cells -> CellRec]
      /\ workQueueLast' \in Allocated' /\ next'[workQueueLast'] = Nil
      /\ Cardinality(Allocated') = Cardinality(Allocated) + 1
  <2>1. TypeOK /\ Sorted
    BY DEF IInv
  <2> QED
    BY <1>2, <1>5, <2>1, CellQueued
<1>7. PICK q \in Cells \ Allocated :
        /\ Allocated' = Allocated \cup {q}
        /\ \A r \in Allocated : cell'[r] = cell[r]
        /\ cell'[q] = [function |-> f, client |-> c, closure |-> k, id |-> queued + 1]
  <2>1. TypeOK /\ Sorted
    BY DEF IInv
  <2> QED
    BY <1>2, <1>5, <2>1, CellQueued
<1>8. cell'[q].function = f /\ cell'[q].client = c
  BY <1>7
<1>9. Contents'
  <2>1. \A r \in Allocated : /\ cell'[r].function # "none"
                             /\ cell'[r].function = "establish" <=> cell'[r].client = NoClient
                             /\ cell'[r].client # NoClient => clients'[cell'[r].client] # "freed"
                             /\ cell'[r].function = "ungrab" =>
                                    clients'[cell'[r].client] \in {"running", "gone"}
    BY <1>7 DEF IInv, Contents
  <2> QED
    BY <1>7, <1>8, <2>1 DEF Contents
<1>10. Signalled'
  BY <1>1 DEF IInv, Signalled, sleepVars
<1>11. Room'
  <2>1. Unsignalled' = Unsignalled
    BY DEF Unsignalled, sleepVars
  <2> QED
    BY <1>3, <1>4, <1>6, <2>1, NumbersAssumption DEF HasRoom, Room
<1>12. ThreadInv'
  BY <1>1, OutsideInv
<1>13. TypeOK'
  <2>1. stack' \in Seq(FrameRec) /\ stack' # <<>>
    BY DEF Shape
  <2>2. workQueueLast' \in Cells \cup {Head0}
    BY <1>6 DEF Allocated
  <2> QED
    BY <1>6, <2>1, <2>2 DEF IInv, TypeOK, CellRec, FrameRec, sleepVars
<1>14. TailInv'
  BY <1>6, TailStays DEF Addresses
<1> QED
  BY <1>6, <1>9, <1>10, <1>11, <1>12, <1>13, <1>14 DEF IInv

(* The thread outside of the queue, when it stays where it is.             *)
LEMMA StaysOutside ==
    ASSUME IInv, stack[1].function \in {"dispatch", "wait", "block"}, stack' = stack
    PROVE  /\ Shape(stack') /\ Len(stack') = 1
           /\ stack'[1].function \in {"dispatch", "wait", "block"}
BY Outermost DEF IInv, ThreadInv

LEMMA ClientSleepKeeps ==
    ASSUME IInv, NEW c \in Clients, ClientSleep(c)
    PROVE  IInv'
<1>1. /\ stack[1].function = "dispatch" /\ clients[c] = "running" /\ sleepQueue[c] = NoClosure
      /\ slept < MaxSleeps /\ HasRoom /\ slept' = slept + 1
      /\ closures' = closures \cup {slept + 1}
      /\ sleepQueue' = [sleepQueue EXCEPT ![c] = slept + 1]
      /\ UNCHANGED <<listVars, clients, GrabInProgress, stack>>
  BY TopIs DEF ClientSleep, In, Awake
<1>2. slept + 1 \in 1..MaxSleeps /\ slept + 1 \in 0..MaxSleeps
  BY <1>1, NumbersAssumption DEF IInv, TypeOK
<1>3. TypeOK'
  BY <1>1, <1>2 DEF IInv, TypeOK, listVars
<1>4. Sorted' /\ Contents' /\ Allocated' = Allocated /\ Addresses' = Addresses
  BY <1>1, ListLeftAlone DEF listVars
<1>5. \A d \in Clients : clients[d] # "gone"
  BY <1>1, NoneGone, Outermost
<1>6. Signalled'
  <2>1. \A d \in Clients \ {c} : sleepQueue'[d] = sleepQueue[d]
    BY <1>1 DEF IInv, TypeOK
  <2> QED
    BY <1>1, <1>5, <2>1 DEF IInv, Signalled
<1>7. Room'
  <2>1. IsFiniteSet(Sleepers)
    BY Memory, FS_Subset DEF Sleepers
  <2>2. Unsignalled' \subseteq Sleepers \cup {c}
    <3>1. \A d \in Clients \ {c} : sleepQueue'[d] = sleepQueue[d]
      BY <1>1 DEF IInv, TypeOK
    <3> QED
      BY <3>1 DEF Unsignalled, Sleepers
  <2>3. Cardinality(Sleepers) \in Nat /\ Cardinality(Sleepers \cup {c}) <= Cardinality(Sleepers) + 1
    <3>1. c \notin Sleepers
      BY <1>1 DEF Sleepers
    <3>2. Cardinality(Sleepers \cup {c}) = Cardinality(Sleepers) + 1
      BY <2>1, <3>1, FS_AddElement
    <3>3. Cardinality(Sleepers) \in Nat
      BY <2>1, FS_CardinalityType
    <3> QED
      BY <3>2, <3>3
  <2>4. /\ IsFiniteSet(Sleepers \cup {c}) /\ Cardinality(Sleepers \cup {c}) \in Nat
        /\ Cardinality(Unsignalled') \in Nat
        /\ Cardinality(Unsignalled') <= Cardinality(Sleepers \cup {c})
    <3>1. IsFiniteSet(Sleepers \cup {c})
      BY <2>1, FS_AddElement
    <3> QED
      BY <2>2, <3>1, FS_Subset, FS_CardinalityType
  <2>5. Cardinality(Allocated) \in Nat /\ queued \in Nat /\ queued' = queued
    BY <1>1, AllocatedFinite, NumbersAssumption DEF IInv, TypeOK, listVars
  <2> QED
    BY <1>1, <1>4, <2>3, <2>4, <2>5, NumbersAssumption DEF HasRoom, Room
<1>8. ThreadInv'
  BY <1>1, <1>5, StaysOutside, OutsideInv
<1>9. TailInv'
  BY <1>1, <1>4, TailKnown, TailStays DEF listVars
<1> QED
  BY <1>3, <1>4, <1>6, <1>7, <1>8, <1>9 DEF IInv

LEMMA GrabServerKeeps ==
    ASSUME IInv, NEW c \in Clients, GrabServer(c)
    PROVE  IInv'
<1>1. UNCHANGED <<next, cell, queued, workQueueLast, clients, sleepVars, stack>>
  BY DEF GrabServer, listVars
<1>2. GrabInProgress' \in Clients \cup {NoClient} /\ stack[1].function = "dispatch"
  BY TopIs DEF GrabServer, In, IInv, TypeOK
<1>3. TailInv'
  <2>1. workQueueLast \in Addresses /\ next[workQueueLast] = Nil
    BY <1>2, TailKnown
  <2> QED
    BY <1>1, <2>1, TailStays DEF Addresses, Allocated
<1>4. /\ Shape(stack') /\ \A i \in 1..Len(stack') : FrameInv(stack'[i])
      /\ stack'[1].function # "close"
      /\ \A d \in Clients : clients[d] = "gone" => Closing(stack', d)
  BY <1>1, <1>2 DEF IInv, ThreadInv
<1> QED
  BY <1>1, <1>2, <1>3, <1>4, ThreadMoves DEF IInv, TypeOK

LEMMA LbxServerGrabKeeps ==
    ASSUME IInv, NEW c \in Clients, LbxServerGrab(c)
    PROVE  IInv'
<1>1. /\ stack[1].function = "dispatch" /\ clients[c] = "running" /\ HasRoom
      /\ QueueWorkProc("ungrab", c, NoClosure) /\ stack' = stack
      /\ UNCHANGED <<sleepVars, clients, GrabInProgress>>
  BY TopIs DEF LbxServerGrab, In, Awake
<1>2. "ungrab" \in Functions \ {"none"} /\ NoClosure \in 0..MaxSleeps /\ c # NoClient
  BY Memory, NumbersAssumption DEF Functions, NoClosure
<1> QED
  BY <1>1, <1>2, StaysOutside, QueuedKeeps

LEMMA FontReplyKeeps ==
    ASSUME IInv, NEW c \in Clients, FontReply(c)
    PROVE  IInv'
<1>1. /\ stack[1].function = "block" /\ sleepQueue[c] # NoClosure /\ HasRoom
      /\ QueueWorkProc("sleep", c, sleepQueue[c]) /\ stack' = stack
      /\ UNCHANGED <<sleepVars, clients, GrabInProgress>>
  BY TopIs DEF FontReply, In, ClientSignal
<1>2. /\ "sleep" \in Functions \ {"none"} /\ sleepQueue[c] \in 0..MaxSleeps /\ c # NoClient
      /\ clients[c] # "freed"
  BY <1>1, Memory DEF Functions, IInv, TypeOK, Signalled
<1> QED
  BY <1>1, <1>2, StaysOutside, QueuedKeeps

LEMMA OutsideFrame ==
    ASSUME NEW f \in {"dispatch", "wait", "block"}, Goto(f)
    PROVE  Shape(stack') /\ Len(stack') = 1 /\ stack'[1].function = f
<1>1. PICK x \in FrameRec : x = Frame(f, 0, Nil) /\ x.function = f /\ x.q = Nil
  <2>1. f \in Procedures /\ 0 \in Nat /\ Nil \in Cells \cup {Nil}
    BY DEF Procedures
  <2> QED
    BY <2>1, FrameIs
<1> QED
  BY <1>1, ShapeOne DEF Goto, Begins

LEMMA ListenerKeeps ==
    ASSUME IInv, Listener
    PROVE  IInv'
<1>1. /\ stack[1].function = "block" /\ HasRoom
      /\ QueueWorkProc("establish", NoClient, NoClosure)
      /\ UNCHANGED <<sleepVars, clients, GrabInProgress>>
  BY TopIs DEF Listener, In
<1>2. "establish" \in Functions \ {"none"} /\ NoClosure \in 0..MaxSleeps
  BY NumbersAssumption DEF Functions, NoClosure
<1>3. PICK f \in {"dispatch", "wait"} : Goto(f)
  BY DEF Listener
<1>4. Shape(stack') /\ Len(stack') = 1 /\ stack'[1].function \in {"dispatch", "wait", "block"}
  BY <1>3, OutsideFrame
<1> QED
  BY <1>1, <1>2, <1>4, QueuedKeeps

(* Who waits for the end of a grab has no write that fails.                *)
LEMMA WriteFailsKeeps ==
    ASSUME NoProxyFails, IInv, NEW c \in Clients, WriteFails(c)
    PROVE  IInv'
<1>1. /\ stack[1].function = "dispatch" /\ clients[c] = "running" /\ ~WaitsForUngrab(c)
      /\ clients' = [clients EXCEPT ![c] = "exception"]
      /\ UNCHANGED <<listVars, sleepVars, GrabInProgress, stack>>
  BY TopIs DEF WriteFails, In, NoProxyFails
<1>2. /\ clients' \in [Clients -> {"running", "exception", "gone", "freed"}]
      /\ clients'[c] = "exception" /\ \A d \in Clients \ {c} : clients'[d] = clients[d]
  BY <1>1 DEF IInv, TypeOK
<1>3. Allocated' = Allocated /\ Addresses' = Addresses /\ \A a : Number(a)' = Number(a)
  BY <1>1 DEF Allocated, Addresses, Number, listVars
<1>4. TypeOK'
  BY <1>1, <1>2 DEF IInv, TypeOK, listVars, sleepVars
<1>5. Sorted'
  BY <1>1, <1>3 DEF IInv, Sorted, listVars
<1>6. Contents'
  <2> SUFFICES ASSUME NEW q \in Allocated
               PROVE  /\ cell[q].client # NoClient => clients'[cell[q].client] # "freed"
                      /\ cell[q].function = "ungrab" => clients'[cell[q].client] \in {"running", "gone"}
    BY <1>1, <1>3 DEF IInv, Contents, listVars
  <2>1. cell[q].client \in Clients \cup {NoClient}
    BY DEF IInv, TypeOK, Allocated
  <2>2. cell[q].function = "ungrab" => cell[q].client # c
    BY <1>1 DEF WaitsForUngrab
  <2> QED
    BY <1>2, <2>1, <2>2 DEF IInv, Contents
<1>7. \A d \in Clients : clients[d] # "gone" /\ clients'[d] # "gone"
  BY <1>1, <1>2, NoneGone, Outermost
<1>8. Signalled'
  BY <1>1, <1>2, <1>7 DEF IInv, Signalled, sleepVars
<1>9. Room'
  <2>1. Unsignalled' = Unsignalled
    BY <1>1, <1>2 DEF Unsignalled, sleepVars
  <2> QED
    BY <1>1, <1>3, <2>1 DEF IInv, Room, listVars
<1>10. ThreadInv'
  BY <1>1, <1>7, StaysOutside, OutsideInv
<1>11. TailInv'
  BY <1>1, <1>3, TailKnown, TailStays DEF listVars
<1> QED
  BY <1>4, <1>5, <1>6, <1>8, <1>9, <1>10, <1>11 DEF IInv

----------------------------------------------------------------------------
(* CloseDownClient.                                                        *)

(* What it does to the list: a client that sleeps is signalled, for which  *)
(* room was kept.                                                          *)
LEMMA Signals ==
    ASSUME IInv, NEW c \in Clients, CloseDownClient(c),
           workQueueLast \in Addresses, next[workQueueLast] = Nil
    PROVE  /\ Sorted' /\ Room' /\ queued' \in 0..MaxQueued
           /\ next' \in [Cells \cup {Head0} -> Cells \cup {Nil}] /\ cell' \in [Cells -> CellRec]
           /\ workQueueLast' \in Addresses' /\ next'[workQueueLast'] = Nil
           /\ Allocated \subseteq Allocated' /\ Allocated' \subseteq Cells
           /\ \A r \in Allocated : cell'[r] = cell[r]
           /\ \A r \in Allocated' \ Allocated :
                 cell'[r].function = "sleep" /\ cell'[r].client = c
           /\ \A a \in Addresses : next[a] # Nil => next'[a] = next[a]
           /\ sleepQueue[c] # NoClosure =>
                 \E r \in Allocated' : cell'[r].function = "sleep" /\ cell'[r].client = c
<1>1. /\ clients[c] \in {"running", "exception"} /\ clients' = [clients EXCEPT ![c] = "gone"]
      /\ sleepQueue' = sleepQueue
  BY DEF CloseDownClient, sleepVars
<1>2. /\ clients'[c] = "gone" /\ \A d \in Clients \ {c} : clients'[d] = clients[d]
      /\ TypeOK /\ Sorted /\ Room
  BY <1>1 DEF IInv, TypeOK
<1>3. IsFiniteSet(Unsignalled) /\ Cardinality(Unsignalled) \in Nat
  BY Memory, FS_Subset, FS_CardinalityType DEF Unsignalled
<1>4. Cardinality(Allocated) \in Nat /\ queued \in Nat
  BY <1>2, AllocatedFinite, NumbersAssumption DEF TypeOK
<1>5. CASE sleepQueue[c] = NoClosure
  <2>1. UNCHANGED <<next, cell, workQueueLast, queued>>
    BY <1>5 DEF CloseDownClient, listVars
  <2>2. Allocated' = Allocated /\ Addresses' = Addresses /\ \A a : Number(a)' = Number(a)
    BY <2>1 DEF Allocated, Addresses, Number
  <2>3. Unsignalled' = Unsignalled
    BY <1>1, <1>2, <1>5 DEF Unsignalled
  <2>4. Sorted'
    BY <1>2, <2>1, <2>2 DEF Sorted
  <2>5. Room'
    BY <1>2, <2>1, <2>2, <2>3 DEF Room
  <2>6. Allocated \subseteq Cells
    BY DEF Allocated
  <2>7. /\ next \in [Cells \cup {Head0} -> Cells \cup {Nil}] /\ cell \in [Cells -> CellRec]
        /\ queued \in 0..MaxQueued
    BY <1>2 DEF TypeOK, CellRec
  <2> QED
    BY <1>5, <2>1, <2>2, <2>4, <2>5, <2>6, <2>7
<1>6. CASE sleepQueue[c] # NoClosure
  <2>1. QueueWorkProc("sleep", c, sleepQueue[c])
    BY <1>6 DEF CloseDownClient, ClientSignal
  <2>2. c \in Unsignalled
    BY <1>1, <1>6 DEF Unsignalled
  <2>3. Unsignalled' = Unsignalled \ {c}
    BY <1>1, <1>2 DEF Unsignalled
  <2>4. Cardinality(Unsignalled') = Cardinality(Unsignalled) - 1
    BY <1>3, <2>2, <2>3, FS_RemoveElement
  <2>5. Cardinality(Unsignalled') \in Nat
    BY <1>3, <2>3, FS_RemoveElement, FS_CardinalityType
  <2>6. Cardinality(Allocated) < NCells /\ queued < MaxQueued
    BY <1>2, <1>3, <1>4, <2>4, <2>5, NumbersAssumption DEF Room
  <2>7. "sleep" \in Functions \ {"none"} /\ sleepQueue[c] \in 0..MaxSleeps
    BY <1>2 DEF Functions, TypeOK
  <2>8. /\ Sorted' /\ queued' = queued + 1 /\ queued' \in 0..MaxQueued
        /\ next' \in [Cells \cup {Head0} -> Cells \cup {Nil}] /\ cell' \in [Cells -> CellRec]
        /\ workQueueLast' \in Allocated' /\ next'[workQueueLast'] = Nil
        /\ Cardinality(Allocated') = Cardinality(Allocated) + 1
    BY <1>2, <2>1, <2>6, <2>7, CellQueued
  <2>9. \A a \in Addresses : next[a] # Nil => next'[a] = next[a]
    BY <1>2, <2>1, <2>6, <2>7, CellQueued
  <2>10. PICK q \in Cells \ Allocated :
          /\ Allocated' = Allocated \cup {q}
          /\ \A r \in Allocated : cell'[r] = cell[r]
          /\ cell'[q] = [function |-> "sleep", client |-> c, closure |-> sleepQueue[c],
                         id |-> queued + 1]
    BY <1>2, <2>1, <2>6, <2>7, CellQueued
  <2>11. Room'
    BY <1>2, <1>3, <1>4, <2>4, <2>8, NumbersAssumption DEF Room
  <2>12. cell'[q].function = "sleep" /\ cell'[q].client = c /\ Allocated \subseteq Cells
    BY <2>10 DEF Allocated
  <2> QED
    BY <2>8, <2>9, <2>10, <2>11, <2>12 DEF Addresses
<1> QED
  BY <1>5, <1>6

LEMMA ZombiesIs ==
    ASSUME NEW c \in Clients
    PROVE  \E z, f \in FrameRec :
               /\ Zombies(c) = <<z, f>>
               /\ z.function = "zombies" /\ z.q = Nil /\ z.at = Head0
               /\ f.function = "close" /\ f.q = Nil /\ f.at = c
<1>1. /\ "zombies" \in Procedures /\ "close" \in Procedures
      /\ Head0 \in Nat /\ c \in Nat /\ Nil \in Cells \cup {Nil}
  BY DEF Procedures, Head0, Clients
<1>2. PICK z \in FrameRec : /\ z = Frame("zombies", Head0, Nil)
                            /\ z.function = "zombies" /\ z.q = Nil /\ z.at = Head0
  BY <1>1, FrameIs
<1>3. PICK f \in FrameRec : /\ f = Frame("close", c, Nil)
                            /\ f.function = "close" /\ f.q = Nil /\ f.at = c
  BY <1>1, FrameIs
<1> QED
  BY <1>2, <1>3 DEF Zombies

(* Its caller stands where it stood, or EstablishNewConnections goes on.   *)
LEMMA CloseDownKeeps ==
    ASSUME IInv, NEW c \in Clients, CloseDownClient(c),
           stack[1].function \in {"dispatch", "block", "establish"},
           stack[1].function = "establish" => clients[c] = "exception",
           NEW s, Shape(s), Len(s) = Len(stack), s[1].function = stack[1].function,
           \A i \in 2..Len(s) : s[i] = stack[i],
           stack' = Zombies(c) \o s
    PROVE  IInv'
<1>1. /\ clients[c] \in {"running", "exception"} /\ clients' = [clients EXCEPT ![c] = "gone"]
      /\ sleepQueue' = sleepQueue /\ UNCHANGED sleepVars
      /\ GrabInProgress' \in Clients \cup {NoClient}
  BY DEF CloseDownClient, sleepVars, IInv, TypeOK
<1>2. /\ clients' \in [Clients -> {"running", "exception", "gone", "freed"}]
      /\ clients'[c] = "gone" /\ \A d \in Clients \ {c} : clients'[d] = clients[d]
  BY <1>1 DEF IInv, TypeOK
<1>3. workQueueLast \in Addresses /\ next[workQueueLast] = Nil
  BY TailKnown
<1>4. /\ Sorted' /\ Room' /\ queued' \in 0..MaxQueued
      /\ next' \in [Cells \cup {Head0} -> Cells \cup {Nil}] /\ cell' \in [Cells -> CellRec]
      /\ workQueueLast' \in Addresses' /\ next'[workQueueLast'] = Nil
      /\ Allocated \subseteq Allocated' /\ Allocated' \subseteq Cells
  BY <1>3, Signals
<1>5. /\ \A r \in Allocated : cell'[r] = cell[r]
      /\ \A r \in Allocated' \ Allocated : cell'[r].function = "sleep" /\ cell'[r].client = c
  BY <1>3, Signals
<1>6. /\ \A a \in Addresses : next[a] # Nil => next'[a] = next[a]
      /\ sleepQueue[c] # NoClosure =>
            \E r \in Allocated' : cell'[r].function = "sleep" /\ cell'[r].client = c
  BY <1>3, Signals
<1>7. \A d \in Clients : clients[d] # "gone"
  BY NoneGone, Outermost
<1>8. PICK z, f \in FrameRec :
        /\ Zombies(c) = <<z, f>>
        /\ z.function = "zombies" /\ z.q = Nil /\ z.at = Head0
        /\ f.function = "close" /\ f.q = Nil /\ f.at = c
  BY ZombiesIs
<1>9. f.function = "close" /\ f.q = Nil /\ f.at = c
  BY <1>8
<1>10. /\ Shape(stack') /\ Len(stack') = Len(s) + 2 /\ stack'[1] = z /\ stack'[2] = f
       /\ \A i \in 3..Len(stack') : i - 2 \in 1..Len(s) /\ stack'[i] = s[i - 2]
  <2>1. PICK t : Closes(s, t, z, f) /\ t = stack'
    BY <1>8 DEF Closes
  <2>2. /\ Shape(t) /\ Len(t) = Len(s) + 2 /\ t[1] = z /\ t[2] = f
        /\ \A i \in 3..Len(t) : i - 2 \in 1..Len(s) /\ t[i] = s[i - 2]
    <3>1. Closes(s, t, z, f) /\ s[1].function \in {"dispatch", "block", "establish"}
      BY <2>1
    <3> QED
      BY <1>8, <1>9, <3>1, ShapeCloses
  <2> QED
    BY <2>1, <2>2
<1>11. Top' = z /\ stack' \in Seq(FrameRec) /\ stack' # <<>>
  BY <1>10, ShapeIs DEF Shape, Top
<1>12. TypeOK'
  BY <1>1, <1>2, <1>4, <1>11 DEF IInv, TypeOK, CellRec, FrameRec, Addresses, sleepVars
<1>13. TailInv'
  BY <1>4, TailStays
<1>14. Contents'
  <2> SUFFICES ASSUME NEW q \in Allocated'
               PROVE  /\ cell'[q].function # "none"
                      /\ cell'[q].function = "establish" <=> cell'[q].client = NoClient
                      /\ cell'[q].client # NoClient => clients'[cell'[q].client] # "freed"
                      /\ cell'[q].function = "ungrab" =>
                             clients'[cell'[q].client] \in {"running", "gone"}
    BY DEF Contents
  <2>1. CASE q \in Allocated
    <3>1. cell'[q] = cell[q] /\ cell[q].client \in Clients \cup {NoClient}
      BY <2>1, <1>5 DEF IInv, TypeOK, Allocated
    <3> QED
      BY <2>1, <3>1, <1>2 DEF IInv, Contents
  <2>2. CASE q \notin Allocated
    BY <2>2, <1>2, <1>5, Memory
  <2> QED
    BY <2>1, <2>2
<1>15. Signalled'
  <2> SUFFICES ASSUME NEW d \in Clients, sleepQueue[d] # NoClosure
               PROVE  /\ clients'[d] # "freed"
                      /\ clients'[d] = "gone" =>
                            \E r \in Allocated' : cell'[r].function = "sleep" /\ cell'[r].client = d
    BY <1>1 DEF Signalled
  <2>1. CASE d = c
    BY <2>1, <1>2, <1>6
  <2>2. CASE d # c
    BY <2>2, <1>2, <1>7 DEF IInv, Signalled
  <2> QED
    BY <2>1, <2>2
<1>16. ASSUME NEW i \in 1..Len(s), i >= 2, s[i].function \in {"queue", "zombies", "close"}
       PROVE  stack[1].function = "establish" /\ s[i].function = "queue" /\ QueueFrame(s[i])
  <2>1. stack[1].function = "establish" /\ Len(s) = 2
    BY <1>16, Outermost, ShapeIs DEF IInv, ThreadInv
  <2>2. i = 2 /\ s[2] = stack[2] /\ 2 \in 1..Len(stack)
    BY <1>16, <2>1
  <2>3. s[2].function = "queue"
    BY <2>1, ShapeIs DEF Begins, Calls
  <2> QED
    BY <2>1, <2>2, <2>3 DEF IInv, ThreadInv, FrameInv
<1>17. ASSUME NEW g, QueueFrame(g), stack[1].function = "establish" PROVE QueueFrame(g)'
  <2>1. g.at = Head0 \/ (g.at \in Allocated' /\ cell'[g.at].function = "ungrab")
    BY <1>4, <1>5, <1>17 DEF QueueFrame
  <2>2. ASSUME g.q # Nil
        PROVE  next'[g.at] = g.q /\ g.q \in Allocated' /\ cell'[g.q].function = "establish"
    BY <2>2, <1>4, <1>5, <1>6, <1>17 DEF QueueFrame, Addresses
  <2>3. ASSUME NEW r \in Allocated', cell'[r].function = "ungrab"
        PROVE  clients'[cell'[r].client] = "running"
    <3>1. r \in Allocated /\ cell'[r] = cell[r] /\ clients[cell[r].client] = "running"
      BY <2>3, <1>5, <1>17 DEF QueueFrame
    <3>2. cell[r].client \in Clients /\ cell[r].client # c
      BY <3>1, <2>3, <1>17 DEF IInv, Contents, TypeOK, Allocated
    <3> QED
      BY <3>1, <3>2, <1>2
  <2> QED
    BY <2>1, <2>2, <2>3 DEF QueueFrame
<1>18. ASSUME NEW i \in 1..Len(stack') PROVE FrameInv(stack[i])'
  <2>1. CASE i = 1
    <3>1. \A q \in Allocated' : cell'[q].id \in 1..queued'
      BY <1>4 DEF Sorted
    <3>2. \A q \in Allocated' : ~(cell'[q].id <= Number(Head0)')
      BY <3>1 DEF Number
    <3>3. ZombiesFrame(z)'
      BY <3>2, <1>8 DEF ZombiesFrame, Addresses
    <3> QED
      BY <2>1, <3>3, <1>8, <1>10 DEF FrameInv
  <2>2. CASE i = 2
    <3>1. CloseFrame(f)'
      BY <1>2, <1>9 DEF CloseFrame
    <3> QED
      BY <2>2, <3>1, <1>9, <1>10 DEF FrameInv
  <2>3. CASE i >= 3
    <3>1. PICK j \in 1..Len(s) : j = i - 2 /\ stack'[i] = s[j]
      BY <2>3, <1>10
    <3>2. CASE s[j].function \in {"queue", "zombies", "close"}
      <4>1. j # 1
        BY <3>2
      <4>2. j >= 2
        BY <4>1
      <4> QED
        BY <3>1, <3>2, <4>2, <1>16, <1>17 DEF FrameInv
    <3>3. CASE s[j].function \notin {"queue", "zombies", "close"}
      BY <3>1, <3>3 DEF FrameInv
    <3> QED
      BY <3>2, <3>3
  <2> QED
    BY <2>1, <2>2, <2>3
<1>19. ThreadInv'
  <2>1. ~In("close")'
    BY <1>8, <1>11 DEF In
  <2>2. ASSUME NEW d \in Clients, clients'[d] = "gone" PROVE Closing(stack', d)
    <3>1. d = c
      BY <2>2, <1>2, <1>7
    <3>2. 2 \in 1..Len(stack')
      BY <1>10, ShapeIs
    <3> QED
      BY <3>1, <3>2, <1>9, <1>10 DEF Closing
  <2> QED
    BY <1>10, <1>18, <2>1, <2>2 DEF ThreadInv
<1> QED
  BY <1>4, <1>12, <1>13, <1>14, <1>15, <1>19 DEF IInv

(* KillClient, CheckConnections, and the clients EstablishNewConnections   *)
(* finds marked.                                                           *)
LEMMA ClosedFromOutside ==
    ASSUME IInv, NEW c \in Clients, KillClient(c) \/ CheckConnections(c)
    PROVE  IInv'
<1>1. /\ stack[1].function \in {"dispatch", "block"}
      /\ CloseDownClient(c) /\ stack' = Zombies(c) \o stack
  BY TopIs DEF KillClient, CheckConnections, In
<1>2. Shape(stack)
  BY DEF IInv, ThreadInv
<1> QED
  BY <1>1, <1>2, CloseDownKeeps

LEMMA KillStragglerKeeps ==
    ASSUME IInv, KillStraggler
    PROVE  IInv'
<1>1. PICK c \in Clients : c = stack[1].at
  BY TopIs DEF KillStraggler
<1>2. PICK f : f = [stack[1] EXCEPT !.at = c + 1]
  OBVIOUS
<1>3. PICK s : GoesOn(stack, s, f)
  BY DEF GoesOn
<1>4. /\ stack[1].function = "establish" /\ stack[1] \in FrameRec
      /\ clients[c] = "exception" => CloseDownClient(c) /\ stack' = Zombies(c) \o s
      /\ clients[c] # "exception" =>
            stack' = s /\ UNCHANGED <<listVars, sleepVars, clients, GrabInProgress>>
  BY <1>1, <1>2, <1>3, TopIs DEF KillStraggler, In, GoesOn
<1>5. f \in FrameRec /\ f.function = "establish" /\ f.q = Nil
  <2>1. stack[1].q = Nil
    BY <1>4, ShapeIs DEF IInv, ThreadInv, Begins, Calls
  <2>2. c + 1 \in Nat
    BY DEF Clients
  <2> QED
    BY <1>2, <1>4, <2>1, <2>2 DEF FrameRec
<1>6. /\ Shape(s) /\ Len(s) = Len(stack) /\ s[1] = f
      /\ \A i \in 2..Len(s) : s[i] = stack[i]
  <2>1. Shape(stack) /\ f.function = stack[1].function /\ (f.q # Nil => f.function = "queue")
    BY <1>4, <1>5 DEF IInv, ThreadInv
  <2>2. /\ Shape(s) /\ Len(s) = Len(stack) /\ s[1] = f
        /\ \A i \in 2..Len(stack) : s[i] = stack[i]
    BY <1>3, <1>5, <2>1, ShapeTop
  <2> QED
    BY <2>2
<1>7. CASE clients[c] = "exception"
  <2>1. s[1].function = stack[1].function
    BY <1>4, <1>5, <1>6
  <2> QED
    BY <1>4, <1>6, <1>7, <2>1, CloseDownKeeps
<1>8. CASE clients[c] # "exception"
  <2>1. stack' = <<f>> \o Tail(stack)
    BY <1>3, <1>4, <1>8 DEF GoesOn
  <2>2. FrameInv(f)
    BY <1>5 DEF FrameInv
  <2>3. workQueueLast \in Addresses /\ next[workQueueLast] = Nil
    BY <1>4, TailKnown
  <2>4. UNCHANGED <<next, cell, queued, clients, sleepVars, workQueueLast, GrabInProgress>>
    BY <1>4, <1>8 DEF listVars
  <2> QED
    BY <1>4, <1>5, <2>1, <2>2, <2>3, <2>4, TopMoves
<1> QED
  BY <1>7, <1>8

(* The scan has left nothing that names the client.                        *)
LEMMA ClientFreedKeeps ==
    ASSUME IInv, ClientFreed
    PROVE  IInv'
<1>1. PICK c : c = stack[1].at
  OBVIOUS
<1>2. /\ stack[1].function = "close" /\ Top = stack[1] /\ c \in Clients /\ clients[c] = "gone"
      /\ clients' = [clients EXCEPT ![c] = "freed"] /\ stack' = Tail(stack)
      /\ UNCHANGED <<listVars, sleepVars, GrabInProgress>>
      /\ \A q \in Allocated : ~Gone(cell[q].client)
  BY <1>1, TopIs DEF ClientFreed, In, Pop, FrameInv, CloseFrame, IInv, ThreadInv
<1>3. /\ clients' \in [Clients -> {"running", "exception", "gone", "freed"}]
      /\ clients'[c] = "freed" /\ \A d \in Clients \ {c} : clients'[d] = clients[d]
  BY <1>2 DEF IInv, TypeOK
<1>4. /\ Allocated' = Allocated /\ Addresses' = Addresses /\ \A a : Number(a)' = Number(a)
      /\ UNCHANGED <<next, cell, queued, workQueueLast>>
  BY <1>2 DEF Allocated, Addresses, Number, listVars
<1>5. ASSUME NEW q \in Allocated PROVE cell[q].client # c
  BY <1>2, Memory DEF Gone
<1>6. /\ Shape(stack') /\ Len(stack') = Len(stack) - 1
      /\ \A i \in 1..Len(stack') : i + 1 \in 1..Len(stack) /\ stack'[i] = stack[i + 1]
  <2>1. Shape(stack) /\ ~Begins(stack[1])
    BY <1>2 DEF IInv, ThreadInv, Begins
  <2> QED
    BY <1>2, <2>1, ShapeReturns
<1>7. /\ stack[2].function \in {"dispatch", "block", "establish"}
      /\ stack'[1] = stack[2] /\ Top' = stack'[1] /\ stack' \in Seq(FrameRec) /\ stack' # <<>>
  <2>1. stack[2].function \in {"dispatch", "block", "establish"}
    BY <1>2, ShapeIs DEF IInv, ThreadInv
  <2>2. 1 \in 1..Len(stack') /\ 1 + 1 = 2 /\ stack' \in Seq(FrameRec)
    BY <1>6, ShapeIs
  <2>3. stack'[1] = stack[2] /\ stack' # <<>>
    BY <1>6, <2>2
  <2> QED
    BY <2>1, <2>2, <2>3 DEF Top
<1>8. TypeOK'
  BY <1>2, <1>3, <1>4, <1>7 DEF IInv, TypeOK, FrameRec, sleepVars
<1>9. TailInv'
  <2>1. workQueueLast \in Addresses /\ next[workQueueLast] = Nil
    BY <1>2, TailKnown
  <2> QED
    BY <1>4, <2>1, TailStays
<1>10. Sorted'
  BY <1>4 DEF IInv, Sorted
<1>11. Contents'
  <2> SUFFICES ASSUME NEW q \in Allocated
               PROVE  /\ cell[q].client # NoClient => clients'[cell[q].client] # "freed"
                      /\ cell[q].function = "ungrab" => clients'[cell[q].client] \in {"running", "gone"}
    BY <1>4 DEF IInv, Contents
  <2>1. cell[q].client \in Clients \cup {NoClient} /\ cell[q].client # c
    BY <1>5 DEF IInv, TypeOK, Allocated
  <2>2. cell[q].function = "ungrab" => cell[q].client # NoClient
    BY DEF IInv, Contents
  <2> QED
    BY <1>3, <2>1, <2>2 DEF IInv, Contents
<1>12. Signalled'
  <2> SUFFICES ASSUME NEW d \in Clients, sleepQueue[d] # NoClosure
               PROVE  /\ clients'[d] # "freed"
                      /\ clients'[d] = "gone" =>
                            \E r \in Allocated : cell[r].function = "sleep" /\ cell[r].client = d
    BY <1>2, <1>4 DEF Signalled, sleepVars
  <2>1. d # c
    BY <1>2, <1>5 DEF IInv, Signalled
  <2> QED
    BY <1>3, <2>1 DEF IInv, Signalled
<1>13. Room'
  <2>1. Unsignalled' = Unsignalled
    BY <1>2, <1>3 DEF Unsignalled, sleepVars
  <2> QED
    BY <1>4, <2>1 DEF IInv, Room
<1>14. ASSUME NEW i \in 1..Len(stack') PROVE FrameInv(stack[i])'
  <2>1. PICK g : g = stack'[i]
    OBVIOUS
  <2>2. FrameInv(g) /\ g.function # "zombies"
    <3>1. PICK j \in 1..Len(stack) : j = i + 1 /\ g = stack[j]
      BY <1>6, <2>1
    <3>2. g.function # "zombies"
      BY <1>2, <3>1, ZombiesOnTop DEF IInv, ThreadInv
    <3> QED
      BY <3>1, <3>2 DEF IInv, ThreadInv
  <2>3. ASSUME g.function = "queue" PROVE QueueFrame(g)'
    <3>1. QueueFrame(g)
      BY <2>2, <2>3 DEF FrameInv
    <3>2. ASSUME NEW q \in Allocated, cell[q].function = "ungrab"
          PROVE  clients'[cell[q].client] = "running"
      <4>1. clients[cell[q].client] = "running"
        BY <3>1, <3>2 DEF QueueFrame
      <4>2. cell[q].client \in Clients /\ cell[q].client # c
        BY <1>5, <3>2 DEF IInv, Contents, TypeOK, Allocated
      <4> QED
        BY <1>3, <4>1, <4>2
    <3> QED
      BY <1>4, <3>1, <3>2 DEF QueueFrame
  <2>4. g.function # "close"
    <3>2. \/ stack[2].function \in {"dispatch", "block"} /\ Len(stack) = 2
          \/ stack[2].function = "establish" /\ stack[3].function = "queue" /\ Len(stack) = 3
      BY <1>2, ShapeIs DEF IInv, ThreadInv, Calls
    <3>3. PICK k : k = i + 1
      OBVIOUS
    <3>4. g = stack[k] /\ (k = 2 \/ (k = 3 /\ Len(stack) = 3))
      BY <1>6, <2>1, <3>2, <3>3
    <3> QED
      BY <3>2, <3>4
  <2> QED
    BY <2>1, <2>2, <2>3, <2>4 DEF FrameInv
<1>15. ThreadInv'
  <2>1. ~In("close")'
    BY <1>7 DEF In
  <2>2. ASSUME NEW d \in Clients, clients'[d] = "gone" PROVE Closing(stack', d)
    <3>1. d # c /\ clients[d] = "gone"
      BY <2>2, <1>3
    <3>2. PICK i \in 1..Len(stack) : stack[i].function = "close" /\ stack[i].at = d
      BY <3>1 DEF IInv, ThreadInv, Closing
    <3>3. i # 1 /\ Len(stack) \in Nat
      BY <1>1, <3>1, <3>2, TopIs
    <3>4. PICK j \in 1..Len(stack') : j = i - 1
      BY <3>3, <1>6
    <3>5. stack'[j] = stack[i]
      <4>1. j + 1 = i
        BY <3>4
      <4> QED
        BY <4>1, <1>6
    <3> QED
      BY <3>2, <3>4, <3>5 DEF Closing
  <2> QED
    BY <1>6, <1>14, <2>1, <2>2 DEF ThreadInv
<1> QED
  BY <1>8, <1>9, <1>10, <1>11, <1>12, <1>13, <1>15 DEF IInv

----------------------------------------------------------------------------
(* The theorems.                                                           *)

LEMMA InitIInv == Init => IInv
<1> SUFFICES ASSUME Init PROVE IInv
  OBVIOUS
<1>1. /\ next = [a \in Cells \cup {Head0} |-> Nil] /\ cell = [c \in Cells |-> Free]
      /\ workQueueLast = Head0 /\ sleepQueue = [c \in Clients |-> NoClosure] /\ closures = {}
      /\ clients = [c \in Clients |-> "running"] /\ GrabInProgress = NoClient
      /\ stack = <<Frame("dispatch", 0, Nil)>> /\ queued = 0 /\ slept = 0
  BY DEF Init
<1>2. Allocated = {} /\ Addresses = {Head0} /\ Unsignalled = {}
  BY <1>1 DEF Allocated, Addresses, Unsignalled
<1>3. PICK x \in FrameRec : /\ x = Frame("dispatch", 0, Nil)
                            /\ x.function = "dispatch" /\ x.q = Nil
  <2>1. "dispatch" \in Procedures /\ 0 \in Nat /\ Nil \in Cells \cup {Nil}
    BY DEF Procedures
  <2> QED
    BY <2>1, FrameIs
<1>4. Shape(stack) /\ Len(stack) = 1 /\ stack[1] = x
  <2>1. stack = <<x>>
    BY <1>1, <1>3
  <2>2. Shape(<<x>>) /\ Len(<<x>>) = 1 /\ <<x>>[1] = x
    BY <1>3, ShapeOne DEF Begins
  <2> QED
    BY <2>1, <2>2
<1>5. Top = x /\ stack \in Seq(FrameRec) /\ stack # <<>>
  <2>1. stack \in Seq(FrameRec) /\ Len(stack) >= 1
    BY <1>4 DEF Shape
  <2>2. stack # <<>>
    BY <2>1
  <2> QED
    BY <1>4, <2>1, <2>2 DEF Top
<1>6. TypeOK
  <2>1. Free \in CellRec
    BY NumbersAssumption DEF Free, CellRec, Functions, NoClient, NoClosure
  <2>2. NoClosure \in 0..MaxSleeps /\ 0 \in 0..MaxQueued /\ 0 \in 0..MaxSleeps
    BY NumbersAssumption DEF NoClosure
  <2> QED
    BY <1>1, <1>5, <2>1, <2>2 DEF TypeOK, CellRec, FrameRec
<1>7. TailInv
  <2>1. workQueueLast \in Addresses /\ next[workQueueLast] = Nil
    BY <1>1, <1>2
  <2> QED
    BY <2>1 DEF TailInv, Addresses
<1>8. Sorted /\ Contents
  BY <1>1, <1>2 DEF Sorted, Contents
<1>9. Signalled
  BY <1>1 DEF Signalled
<1>10. Room
  BY <1>1, <1>2, FS_EmptySet, NumbersAssumption DEF Room
<1>11. ThreadInv
  <2>1. \A i \in 1..Len(stack) : FrameInv(stack[i])
    BY <1>3, <1>4 DEF FrameInv
  <2>2. ~In("close")
    BY <1>3, <1>5 DEF In
  <2> QED
    BY <1>1, <1>4, <2>1, <2>2 DEF ThreadInv
<1> QED
  BY <1>6, <1>7, <1>8, <1>9, <1>10, <1>11 DEF IInv

LEMMA StutterKeeps ==
    ASSUME IInv, UNCHANGED vars
    PROVE  IInv'
<1>1. UNCHANGED <<next, cell, queued, workQueueLast, clients, sleepVars, GrabInProgress, stack>>
  BY DEF vars, listVars
<1>2. TailInv'
  BY <1>1 DEF IInv, TailInv, MayQueue, Scanning, In, Top, p, q0, Allocated
<1>3. /\ Shape(stack') /\ \A i \in 1..Len(stack') : FrameInv(stack'[i])
      /\ \A d \in Clients : clients[d] = "gone" => Closing(stack', d)
  BY <1>1 DEF IInv, ThreadInv
<1>4. stack'[1].function = "close" => \A q \in Allocated : ~Gone(cell[q].client)
  BY <1>1, TopIs DEF IInv, ThreadInv, In
<1> QED
  BY <1>1, <1>2, <1>3, <1>4, ThreadMoves DEF IInv, TypeOK

LEMMA StepKeeps ==
    ASSUME NoProxyFails, IInv, [Next]_vars
    PROVE  IInv'
<1>1. ASSUME NEW c \in Clients, ClientSleep(c) PROVE IInv'
  BY <1>1, ClientSleepKeeps
<1>2. ASSUME NEW c \in Clients, GrabServer(c) PROVE IInv'
  BY <1>2, GrabServerKeeps
<1>3. ASSUME NEW c \in Clients, LbxServerGrab(c) PROVE IInv'
  BY <1>3, LbxServerGrabKeeps
<1>4. ASSUME NEW c \in Clients, WriteFails(c) PROVE IInv'
  BY <1>4, WriteFailsKeeps
<1>5. ASSUME NEW c \in Clients, KillClient(c) \/ CheckConnections(c) PROVE IInv'
  BY <1>5, ClosedFromOutside
<1>6. ASSUME NEW c \in Clients, FontReply(c) PROVE IInv'
  BY <1>6, FontReplyKeeps
<1>7. CASE Scan
  <2>1. CASE ScanEnds
    BY <2>1, ScanEndsKeeps
  <2>2. CASE PassOver
    BY <2>2, PassOverKeeps
  <2>3. CASE SleepProcEnds \/ SleepProcSuspended
    BY <2>3, SleepProcKeeps
  <2>4. CASE LbxWaitForUngrab
    BY <2>4, WaitForUngrabKeeps
  <2>5. CASE EstablishNewConnections
    BY <2>5, EstablishKeeps
  <2>6. CASE KillStraggler
    BY <2>6, KillStragglerKeeps
  <2>7. CASE Established
    BY <2>7, EstablishedKeeps
  <2>8. CASE EstablishReturns
    BY <2>8, EstablishReturnsKeeps
  <2>9. CASE ClientFreed
    BY <2>9, ClientFreedKeeps
  <2> QED
    BY <1>7, <2>1, <2>2, <2>3, <2>4, <2>5, <2>6, <2>7, <2>8, <2>9 DEF Scan
<1>8. CASE Waiting
  <2>1. CASE ProcessWorkQueue
    <3>1. stack[1].function = "dispatch"
      BY <2>1, TopIs DEF ProcessWorkQueue, In
    <3> QED
      BY <2>1, <3>1, GotoKeeps DEF ProcessWorkQueue
  <2>2. CASE Wait
    BY <2>2, WaitKeeps
  <2>3. CASE Select
    <3>1. stack[1].function = "block"
      BY <2>3, TopIs DEF Select, In
    <3> QED
      BY <2>3, <3>1, GotoKeeps DEF Select
  <2> QED
    BY <1>8, <2>1, <2>2, <2>3 DEF Waiting
<1>9. CASE Listener
  BY <1>9, ListenerKeeps
<1>10. CASE UNCHANGED vars
  BY <1>10, StutterKeeps
<1> QED
  BY <1>1, <1>2, <1>3, <1>4, <1>5, <1>6, <1>7, <1>8, <1>9, <1>10 DEF Next

LEMMA Invariant ==
    ASSUME NoProxyFails
    PROVE  Spec => []IInv
<1>1. Init => IInv
  BY InitIInv
<1>2. IInv /\ [Next]_vars => IInv'
  BY StepKeeps
<1> QED
  BY <1>1, <1>2, PTL DEF Spec

(* The list is exactly what is allocated, in the order it was queued, for  *)
(* any number of clients and procedures and any nesting of close-downs in  *)
(* scans (QueueWorkProc, ProcessWorkQueue, ProcessWorkQueueZombies).       *)
THEOREM ListCorrect ==
    ASSUME NoProxyFails
    PROVE  Spec => []ListInv
<1>1. IInv => ListInv
  BY AllReached DEF IInv, ListInv
<1> QED
  BY <1>1, Invariant, PTL

(* No scan of the list holds the address of a cell that was freed under    *)
(* it, and the procedure it has called is the one behind that address when *)
(* it returns (ProcessWorkQueue, which "must be reentrant").               *)
THEOREM PointersCorrect ==
    ASSUME NoProxyFails
    PROVE  Spec => []PointersLive
<1>1. ASSUME IInv PROVE PointersLive
  <2> SUFFICES ASSUME NEW i \in DOMAIN stack, stack[i].function \in {"queue", "zombies"}
               PROVE  /\ stack[i].at \in Allocated \cup {Head0}
                      /\ stack[i].q # Nil =>
                            next[stack[i].at] = stack[i].q /\ stack[i].q \in Allocated
    BY DEF PointersLive
  <2>1. i \in 1..Len(stack) /\ Shape(stack) /\ FrameInv(stack[i])
    BY <1>1, TopIs DEF IInv, ThreadInv
  <2>2. CASE stack[i].function = "queue"
    BY <2>1, <2>2 DEF FrameInv, QueueFrame
  <2>3. CASE stack[i].function = "zombies"
    <3>1. i = 1 /\ ~Begins(stack[1])
      BY <2>1, <2>3, ZombiesOnTop DEF Begins
    <3>2. stack[1].q = Nil
      BY <2>1, <3>1, ShapeIs DEF Calls
    <3> QED
      BY <2>1, <2>3, <3>1, <3>2 DEF FrameInv, ZombiesFrame, Addresses
  <2> QED
    BY <2>2, <2>3
<1> QED
  BY <1>1, Invariant, PTL

(* Nothing that is queued names a client whose record is freed, and such a *)
(* client does not sleep (CloseDownClient, ProcessWorkQueueZombies).       *)
THEOREM NoStaleCorrect ==
    ASSUME NoProxyFails
    PROVE  Spec => []NoStaleClient
<1>1. IInv => NoStaleClient
  BY DEF IInv, Contents, Signalled, NoStaleClient
<1> QED
  BY <1>1, Invariant, PTL
================================================================================
