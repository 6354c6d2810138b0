--------------------------- MODULE SyncCountersProofs ---------------------------
(***************************************************************************)
(* What holds of the SYNC extension for any number of clients, alarms and  *)
(* counters, any width of the values and any requests, with the unlinking  *)
(* that drops what is in front of the trigger it deletes.  A client is     *)
(* ignored exactly while it waits; it is released for a reason only.  Of   *)
(* what is in the list of a counter: it waits for this counter; it is not  *)
(* so already; it notices every change; and it stays there until a trigger *)
(* behind it is deleted.                                                   *)
(***************************************************************************)
EXTENDS SyncCounters, SequenceTheorems, FiniteSetTheorems, WellFoundedInduction, TLAPS

-----------------------------------------------------------------------------
(* Numbers and sequences.                                                  *)

LEMMA LeastExists ==
    ASSUME NEW T, T \subseteq Nat, T # {}
    PROVE  \E x \in T : \A y \in T : x <= y
<1> DEFINE R == OpToRel(<, Nat)
<1>1. IsWellFoundedOn(R, Nat) BY NatLessThanWellFounded, Zenon
<1>2. \A x \in Nat, y \in Nat : x < y => <<x, y>> \in R BY DEF OpToRel
<1> HIDE DEF R
<1>3. \E x \in T : \A y \in T : ~(<<y, x>> \in R) BY <1>1, WFMin, Zenon
<1>4. \E x \in T : \A y \in T : ~(y < x) BY <1>2, <1>3, Zenon
<1>5. \A x \in T, y \in T : ~(y < x) => x <= y OBVIOUS
<1> QED BY <1>4, <1>5, Zenon

LEMMA MovesOn ==
    ASSUME NEW n \in Nat, n >= 1, NEW d \in Int, d # 0, NEW v \in Int
    PROVE  v + n * d # v
<1>1. CASE d > 0 BY <1>1
<1>2. CASE d < 0 BY <1>2
<1> QED BY <1>1, <1>2

(* Induction, with a set in place of the predicate.                        *)
LEMMA Induction ==
    ASSUME NEW T, 0 \in T, NEW n \in Nat, \A i \in 0..(n - 1) : i \in T => i + 1 \in T
    PROVE  \A i \in 0..n : i \in T
<1> SUFFICES ASSUME NEW k \in 0..n, k \notin T PROVE FALSE OBVIOUS
<1> DEFINE Out == {i \in 0..n : i \notin T}
<1>1. Out \subseteq Nat /\ Out # {} OBVIOUS
<1>2. PICK x \in Out : \A y \in Out : x <= y
  <2> HIDE DEF Out
  <2> QED BY <1>1, LeastExists
<1>3. x # 0 /\ x - 1 \in 0..(n - 1) /\ x - 1 \in 0..n /\ (x - 1) + 1 = x BY <1>2
<1>4. x - 1 \notin Out BY <1>2, <1>3
<1>5. x - 1 \in T BY <1>3, <1>4
<1>6. x \in T BY <1>3, <1>5
<1> QED BY <1>2, <1>6

LEMMA MembersAre ==
    ASSUME NEW X, NEW l \in Seq(X)
    PROVE  /\ Len(l) \in Nat /\ DOMAIN l = 1..Len(l)
           /\ \A t : t \in ToSet(l) <=> \E i \in 1..Len(l) : l[i] = t
           /\ ToSet(l) \subseteq X
           /\ IsInjective(l) <=> \A i, j \in 1..Len(l) : l[i] = l[j] => i = j
<1>1. Len(l) \in Nat /\ DOMAIN l = 1..Len(l) OBVIOUS
<1>2. \A i \in 1..Len(l) : l[i] \in X OBVIOUS
<1>3. IsInjective(l) <=> \A i, j \in DOMAIN l : l[i] = l[j] => i = j BY DEF IsInjective
<1> QED BY <1>1, <1>2, <1>3 DEF ToSet

(* The element t is in front of u.                                         *)
InFront(l, t, u) == \E i, j \in 1..Len(l) : i < j /\ l[i] = t /\ l[j] = u

(* Nothing is left but what was behind t, in its order.                    *)
LEMMA UnlinkedIs ==
    ASSUME NEW X, NEW l \in Seq(X), NEW t, IsInjective(l)
    PROVE  /\ Unlinked(l, t) \in Seq(X) /\ IsInjective(Unlinked(l, t))
           /\ ToSet(Unlinked(l, t)) \subseteq ToSet(l) \ {t}
           /\ \A u, v : InFront(Unlinked(l, t), u, v) => InFront(l, u, v)
           /\ \A u \in ToSet(l) : u \in ToSet(Unlinked(l, t)) \/ u = t \/ InFront(l, u, t)
<1>1. PICK n \in Nat : n = Len(l) BY LenProperties
<1>2. \A i, j \in 1..n : l[i] = l[j] => i = j BY <1>1, MembersAre
<1>3. CASE t \notin ToSet(l)
  <2>1. Unlinked(l, t) = l BY <1>3 DEF Unlinked
  <2> QED BY <1>3, <2>1
<1>4. CASE t \in ToSet(l)
  <2> DEFINE I == {i \in 1..Len(l) : l[i] = t}
  <2>1. I \subseteq Nat /\ I # {} BY <1>4, MembersAre
  <2>2. \E x \in I : \A y \in I : x <= y
    <3> HIDE DEF I
    <3> QED BY <2>1, LeastExists
  <2>3. SelectInSeq(l, LAMBDA u : u = t) = Min(I) BY <2>1 DEF SelectInSeq
  <2>4. Min(I) \in I BY <2>2, Zenon DEF Min
  <2>5. PICK at \in 1..n : l[at] = t /\ SelectInSeq(l, LAMBDA u : u = t) = at
      BY <1>1, <2>3, <2>4
  <2>6. PICK r : r = SubSeq(l, at + 1, n) OBVIOUS
  <2>7. Unlinked(l, t) = r BY <1>1, <1>4, <2>5, <2>6 DEF Unlinked
  <2>8. r \in Seq(X) /\ Len(r) = n - at /\ \A i \in 1..(n - at) : r[i] = l[at + i]
    <3>1. at \in Int /\ at <= n /\ \A i \in (at + 1)..n : l[i] \in X BY <1>1, <2>5
    <3>2. /\ r \in Seq(X) /\ Len(r) = IF at + 1 <= n THEN n - (at + 1) + 1 ELSE 0
          /\ \A i \in 1..(n - (at + 1) + 1) : r[i] = l[(at + 1) + i - 1]
        BY <2>6, <3>1, SubSeqProperties
    <3>3. Len(r) = n - at BY <3>1, <3>2
    <3>4. ASSUME NEW i \in 1..(n - at) PROVE r[i] = l[at + i]
      <4>1. n - (at + 1) + 1 = n - at /\ (at + 1) + i - 1 = at + i BY <3>1
      <4>2. i \in 1..(n - (at + 1) + 1) BY <3>1
      <4>3. r[i] = l[(at + 1) + i - 1] BY <3>2, <4>2, Zenon
      <4> QED BY <4>1, <4>3, Zenon
    <3> QED BY <3>2, <3>3, <3>4, Zenon
  <2>9. \A i \in 1..(n - at) : at + i \in 1..n /\ at + i # at OBVIOUS
  <2>10. IsInjective(r)
    <3>1. ASSUME NEW i \in 1..(n - at), NEW j \in 1..(n - at), r[i] = r[j] PROVE i = j
      <4>1. at + i = at + j BY <1>2, <2>8, <2>9, <3>1
      <4> QED BY <4>1
    <3> QED BY <2>8, <3>1, MembersAre
  <2>11. ASSUME NEW u \in ToSet(r) PROVE u \in ToSet(l) /\ u # t
    <3>1. PICK i \in 1..(n - at) : r[i] = u BY <2>8, MembersAre
    <3>2. l[at + i] = u /\ at + i \in 1..n /\ at + i # at BY <2>8, <2>9, <3>1
    <3>3. u # t BY <1>2, <2>5, <3>2
    <3>4. u \in ToSet(l) BY <1>1, <3>2, MembersAre
    <3> QED BY <3>3, <3>4
  <2>12. ASSUME NEW u, NEW v, InFront(r, u, v) PROVE InFront(l, u, v)
    <3>1. PICK i, j \in 1..(n - at) : i < j /\ r[i] = u /\ r[j] = v BY <2>8, <2>12 DEF InFront
    <3>2. /\ at + i \in 1..n /\ at + j \in 1..n /\ at + i < at + j
          /\ l[at + i] = u /\ l[at + j] = v
        BY <2>8, <2>9, <3>1
    <3> QED BY <1>1, <3>2 DEF InFront
  <2>13. ASSUME NEW u \in ToSet(l) PROVE u \in ToSet(r) \/ u = t \/ InFront(l, u, t)
    <3>1. PICK i \in 1..n : l[i] = u BY <1>1, MembersAre
    <3>2. CASE i < at BY <1>1, <2>5, <3>1, <3>2 DEF InFront
    <3>3. CASE i = at BY <2>5, <3>1, <3>3
    <3>4. CASE i > at
      <4>1. i - at \in 1..(n - at) /\ at + (i - at) = i BY <3>4
      <4>2. r[i - at] = u BY <2>8, <3>1, <4>1
      <4> QED BY <2>8, <4>1, <4>2, MembersAre
    <3> QED BY <3>2, <3>3, <3>4
  <2> QED BY <2>7, <2>8, <2>10, <2>11, <2>12, <2>13
<1> QED BY <1>3, <1>4

LEMMA PrependIs ==
    ASSUME NEW X, NEW l \in Seq(X), NEW t \in X, IsInjective(l), t \notin ToSet(l)
    PROVE  /\ <<t>> \o l \in Seq(X) /\ IsInjective(<<t>> \o l)
           /\ ToSet(<<t>> \o l) = ToSet(l) \cup {t}
           /\ \A u, v : InFront(<<t>> \o l, u, v) => u = t \/ InFront(l, u, v)
<1>1. PICK n \in Nat : n = Len(l) BY LenProperties
<1>2. PICK r : r = <<t>> \o l OBVIOUS
<1>3. /\ r \in Seq(X) /\ Len(r) = n + 1 /\ r[1] = t
      /\ \A i \in 1..n : r[i + 1] = l[i]
  <2>1. <<t>> \in Seq(X) /\ Len(<<t>>) = 1 /\ <<t>>[1] = t OBVIOUS
  <2>2. /\ r \in Seq(X) /\ Len(r) = 1 + n
        /\ \A i \in 1..1 : r[i] = <<t>>[i]
        /\ \A i \in 1..n : r[1 + i] = l[i]
      BY <1>1, <1>2, <2>1
  <2> QED BY <2>1, <2>2
<1>4. \A i \in 2..(n + 1) : i - 1 \in 1..n /\ r[i] = l[i - 1] BY <1>3
<1>5. IsInjective(r)
  <2>1. \A i, j \in 1..n : l[i] = l[j] => i = j BY <1>1, MembersAre
  <2>2. \A i \in 1..n : l[i] # t BY <1>1, MembersAre
  <2>3. ASSUME NEW i \in 1..(n + 1), NEW j \in 1..(n + 1), r[i] = r[j] PROVE i = j
    <3>1. CASE i = 1 /\ j = 1 BY <3>1
    <3>2. CASE i = 1 /\ j # 1 BY <1>3, <1>4, <2>2, <2>3, <3>2
    <3>3. CASE i # 1 /\ j = 1 BY <1>3, <1>4, <2>2, <2>3, <3>3
    <3>4. CASE i # 1 /\ j # 1
      <4>1. l[i - 1] = l[j - 1] /\ i - 1 \in 1..n /\ j - 1 \in 1..n BY <1>4, <2>3, <3>4
      <4>2. i - 1 = j - 1 BY <2>1, <4>1
      <4> QED BY <4>2
    <3> QED BY <3>1, <3>2, <3>3, <3>4
  <2> QED BY <1>3, <2>3, MembersAre
<1>6. ASSUME NEW x PROVE x \in ToSet(r) <=> x \in ToSet(l) \/ x = t
  <2>0. DOMAIN r = 1..(n + 1) /\ DOMAIN l = 1..n BY <1>1, <1>3
  <2>1. x \in ToSet(r) <=> \E i \in 1..(n + 1) : r[i] = x BY <2>0, Zenon DEF ToSet
  <2>2. x \in ToSet(l) <=> \E i \in 1..n : l[i] = x BY <2>0, Zenon DEF ToSet
  <2>3. ASSUME NEW i \in 1..(n + 1), r[i] = x PROVE x = t \/ \E j \in 1..n : l[j] = x
    <3>1. CASE i = 1 BY <1>3, <2>3, <3>1
    <3>2. CASE i # 1
      <4>1. i \in 2..(n + 1) BY <3>2
      <4> QED BY <1>4, <2>3, <4>1
    <3> QED BY <3>1, <3>2
  <2>4. ASSUME NEW i \in 1..n, l[i] = x PROVE \E j \in 1..(n + 1) : r[j] = x
    <3>1. i + 1 \in 1..(n + 1) BY <1>1
    <3> QED BY <1>3, <2>4, <3>1
  <2>5. x = t => \E j \in 1..(n + 1) : r[j] = x BY <1>3
  <2> QED BY <2>1, <2>2, <2>3, <2>4, <2>5, Zenon
<1>7. ASSUME NEW u, NEW v, InFront(r, u, v), u # t PROVE InFront(l, u, v)
  <2>1. PICK i, j \in 1..(n + 1) : i < j /\ r[i] = u /\ r[j] = v BY <1>3, <1>7 DEF InFront
  <2>2. i # 1 BY <1>3, <1>7, <2>1
  <2>3. i \in 2..(n + 1) /\ j \in 2..(n + 1) BY <2>1, <2>2
  <2>4. /\ i - 1 \in 1..n /\ j - 1 \in 1..n /\ i - 1 < j - 1
        /\ l[i - 1] = u /\ l[j - 1] = v
      BY <1>4, <2>1, <2>3
  <2> QED BY <1>1, <2>4 DEF InFront
<1> QED BY <1>2, <1>3, <1>5, <1>6, <1>7

-----------------------------------------------------------------------------
(* Changes of one field.                                                   *)
WithList(s, k, l) == [s EXCEPT !.list[k] = l]
WithAlarm(s, a, x) == [s EXCEPT !.alarm[a] = x]
WithAwait(s, c, w) == [s EXCEPT !.await[c] = w]
WithIgnored(s, I) == [s EXCEPT !.ignored = I]
WithAlive(s, b) == [s EXCEPT !.alive = b]
WithValue(s, k, v) == [s EXCEPT !.value[k] = v]

-----------------------------------------------------------------------------
(* The walks.                                                              *)

(* The walk of SyncChangeCounter.                                          *)
LEMMA FiredIs ==
    ASSUME NEW s, NEW k, NEW v, NEW n \in Nat, n = Len(s.list[k])
    PROVE  /\ Fired(s, k, v)[0] = WithValue(s, k, v)
           /\ \A i \in 1..n :
                  Fired(s, k, v)[i] = Fire(Fired(s, k, v)[i - 1], s.list[k][i], s.value[k])
<1> DEFINE w == Fired(s, k, v)
           base == WithValue(s, k, v)
           l == s.list[k]
           Rec(g, m) == g = [i \in 0..m |-> IF i = 0 THEN base ELSE Fire(g[i - 1], l[i], s.value[k])]
           T == {m \in 0..n : \E g : Rec(g, m)}
<1>1. 0 \in T
  <2>1. Rec([i \in 0..0 |-> base], 0)
    <3> HIDE DEF base, l
    <3> QED OBVIOUS
  <2>2. 0 \in 0..n OBVIOUS
  <2> HIDE DEF Rec
  <2> QED BY <2>1, <2>2
<1>2. ASSUME NEW m \in 0..(n - 1), m \in T PROVE m + 1 \in T
  <2> HIDE DEF base, l
  <2>1. PICK g : Rec(g, m) BY <1>2
  <2> DEFINE h == [i \in 0..(m + 1) |-> IF i = m + 1 THEN Fire(g[m], l[m + 1], s.value[k]) ELSE g[i]]
  <2>2. \A i \in 0..m : h[i] = g[i] OBVIOUS
  <2>3. g[0] = base /\ \A i \in 1..m : g[i] = Fire(g[i - 1], l[i], s.value[k]) BY <2>1
  <2>4. ASSUME NEW i \in 0..(m + 1) PROVE h[i] = IF i = 0 THEN base ELSE Fire(h[i - 1], l[i], s.value[k])
    <3>1. CASE i = 0 BY <2>2, <2>3, <3>1
    <3>2. CASE i \in 1..m
      <4>1. i - 1 \in 0..m BY <3>2
      <4>2. h[i] = g[i] /\ h[i - 1] = g[i - 1] BY <2>2, <3>2, <4>1
      <4> QED BY <2>3, <3>2, <4>2
    <3>3. CASE i = m + 1
      <4>1. i - 1 = m /\ h[m] = g[m] /\ i # 0 BY <2>2, <3>3
      <4>2. h[i] = Fire(g[m], l[m + 1], s.value[k]) BY <3>3
      <4> QED BY <3>3, <4>1, <4>2
    <3> QED BY <3>1, <3>2, <3>3
  <2>5. h = [i \in 0..(m + 1) |-> h[i]] OBVIOUS
  <2> HIDE DEF h
  <2>6. Rec(h, m + 1) BY <2>4, <2>5
  <2>7. m + 1 \in 0..n OBVIOUS
  <2> QED BY <2>6, <2>7
<1>3. \E g : Rec(g, n)
  <2> HIDE DEF T
  <2>1. \A i \in 0..n : i \in T BY <1>1, <1>2, Induction
  <2>2. n \in T BY <2>1
  <2> QED BY <2>2, Zenon DEF T
<1>4. w = CHOOSE g : Rec(g, n) BY Zenon DEF Fired, Walk, WithValue
<1>5. Rec(w, n) BY <1>3, <1>4, Zenon
<1> HIDE DEF w, base, l
<1>6. w[0] = base /\ \A i \in 1..n : w[i] = Fire(w[i - 1], l[i], s.value[k]) BY <1>5
<1> QED BY <1>6 DEF w, base, l

(* The walk of FreeCounter.                                                *)
LEMMA AllToldIs ==
    ASSUME NEW s, NEW k, NEW n \in Nat, n = Len(s.list[k])
    PROVE  /\ AllTold(s, k)[0] = s
           /\ \A i \in 1..n :
                  AllTold(s, k)[i] = CounterDestroyed(AllTold(s, k)[i - 1], s.list[k][i], k)
<1> DEFINE w == AllTold(s, k)
           base == s
           l == s.list[k]
           Rec(g, m) == g = [i \in 0..m |-> IF i = 0 THEN base ELSE CounterDestroyed(g[i - 1], l[i], k)]
           T == {m \in 0..n : \E g : Rec(g, m)}
<1>1. 0 \in T
  <2>1. Rec([i \in 0..0 |-> base], 0)
    <3> HIDE DEF base, l
    <3> QED OBVIOUS
  <2>2. 0 \in 0..n OBVIOUS
  <2> HIDE DEF Rec
  <2> QED BY <2>1, <2>2
<1>2. ASSUME NEW m \in 0..(n - 1), m \in T PROVE m + 1 \in T
  <2> HIDE DEF base, l
  <2>1. PICK g : Rec(g, m) BY <1>2
  <2> DEFINE h == [i \in 0..(m + 1) |-> IF i = m + 1 THEN CounterDestroyed(g[m], l[m + 1], k) ELSE g[i]]
  <2>2. \A i \in 0..m : h[i] = g[i] OBVIOUS
  <2>3. g[0] = base /\ \A i \in 1..m : g[i] = CounterDestroyed(g[i - 1], l[i], k) BY <2>1
  <2>4. ASSUME NEW i \in 0..(m + 1)
        PROVE  h[i] = IF i = 0 THEN base ELSE CounterDestroyed(h[i - 1], l[i], k)
    <3>1. CASE i = 0 BY <2>2, <2>3, <3>1
    <3>2. CASE i \in 1..m
      <4>1. i - 1 \in 0..m BY <3>2
      <4>2. h[i] = g[i] /\ h[i - 1] = g[i - 1] BY <2>2, <3>2, <4>1
      <4> QED BY <2>3, <3>2, <4>2
    <3>3. CASE i = m + 1
      <4>1. i - 1 = m /\ h[m] = g[m] /\ i # 0 BY <2>2, <3>3
      <4>2. h[i] = CounterDestroyed(g[m], l[m + 1], k) BY <3>3
      <4> QED BY <3>3, <4>1, <4>2
    <3> QED BY <3>1, <3>2, <3>3
  <2>5. h = [i \in 0..(m + 1) |-> h[i]] OBVIOUS
  <2> HIDE DEF h
  <2>6. Rec(h, m + 1) BY <2>4, <2>5
  <2>7. m + 1 \in 0..n OBVIOUS
  <2> QED BY <2>6, <2>7
<1>3. \E g : Rec(g, n)
  <2> HIDE DEF T
  <2>1. \A i \in 0..n : i \in T BY <1>1, <1>2, Induction
  <2>2. n \in T BY <2>1
  <2> QED BY <2>2, Zenon DEF T
<1>4. w = CHOOSE g : Rec(g, n) BY Zenon DEF AllTold, Walk
<1>5. Rec(w, n) BY <1>3, <1>4, Zenon
<1> HIDE DEF w, base, l
<1>6. w[0] = base /\ \A i \in 1..n : w[i] = CounterDestroyed(w[i - 1], l[i], k) BY <1>5
<1> QED BY <1>6 DEF w, base, l

(* The walk of FreeClientResources.                                        *)
LEMMA DeletedIs ==
    ASSUME NEW s, NEW order, NEW n \in Nat, n = Len(order)
    PROVE  /\ Deleted(s, order)[0] = s
           /\ \A i \in 1..n :
                  Deleted(s, order)[i] = Delete(Deleted(s, order)[i - 1], order[i])
<1> DEFINE w == Deleted(s, order)
           base == s
           l == order
           Rec(g, m) == g = [i \in 0..m |-> IF i = 0 THEN base ELSE Delete(g[i - 1], l[i])]
           T == {m \in 0..n : \E g : Rec(g, m)}
<1>1. 0 \in T
  <2>1. Rec([i \in 0..0 |-> base], 0)
    <3> HIDE DEF base, l
    <3> QED OBVIOUS
  <2>2. 0 \in 0..n OBVIOUS
  <2> HIDE DEF Rec
  <2> QED BY <2>1, <2>2
<1>2. ASSUME NEW m \in 0..(n - 1), m \in T PROVE m + 1 \in T
  <2> HIDE DEF base, l
  <2>1. PICK g : Rec(g, m) BY <1>2
  <2> DEFINE h == [i \in 0..(m + 1) |-> IF i = m + 1 THEN Delete(g[m], l[m + 1]) ELSE g[i]]
  <2>2. \A i \in 0..m : h[i] = g[i] OBVIOUS
  <2>3. g[0] = base /\ \A i \in 1..m : g[i] = Delete(g[i - 1], l[i]) BY <2>1
  <2>4. ASSUME NEW i \in 0..(m + 1) PROVE h[i] = IF i = 0 THEN base ELSE Delete(h[i - 1], l[i])
    <3>1. CASE i = 0 BY <2>2, <2>3, <3>1
    <3>2. CASE i \in 1..m
      <4>1. i - 1 \in 0..m BY <3>2
      <4>2. h[i] = g[i] /\ h[i - 1] = g[i - 1] BY <2>2, <3>2, <4>1
      <4> QED BY <2>3, <3>2, <4>2
    <3>3. CASE i = m + 1
      <4>1. i - 1 = m /\ h[m] = g[m] /\ i # 0 BY <2>2, <3>3
      <4>2. h[i] = Delete(g[m], l[m + 1]) BY <3>3
      <4> QED BY <3>3, <4>1, <4>2
    <3> QED BY <3>1, <3>2, <3>3
  <2>5. h = [i \in 0..(m + 1) |-> h[i]] OBVIOUS
  <2> HIDE DEF h
  <2>6. Rec(h, m + 1) BY <2>4, <2>5
  <2>7. m + 1 \in 0..n OBVIOUS
  <2> QED BY <2>6, <2>7
<1>3. \E g : Rec(g, n)
  <2> HIDE DEF T
  <2>1. \A i \in 0..n : i \in T BY <1>1, <1>2, Induction
  <2>2. n \in T BY <2>1
  <2> QED BY <2>2, Zenon DEF T
<1>4. w = CHOOSE g : Rec(g, n) BY Zenon DEF Deleted, Walk
<1>5. Rec(w, n) BY <1>3, <1>4, Zenon
<1> HIDE DEF w, base, l
<1>6. w[0] = base /\ \A i \in 1..n : w[i] = Delete(w[i - 1], l[i]) BY <1>5
<1> QED BY <1>6 DEF w, base, l

(* The conditions of an Await.                                             *)
InTurn(s, c, list, n, w) ==
    /\ w[0] = [s |-> [s EXCEPT !.await[c] = <<>>], ok |-> TRUE]
    /\ \A i \in 1..n : w[i] = InitCondition(w[i - 1], c, list[i])

LEMMA ConditionsIs ==
    ASSUME NEW s, NEW c, NEW list, NEW n \in Nat, n = Len(list)
    PROVE  InTurn(s, c, list, n, Conditions(s, c, list))
<1> DEFINE w == Conditions(s, c, list)
           base == [s |-> [s EXCEPT !.await[c] = <<>>], ok |-> TRUE]
           l == list
           Rec(g, m) == g = [i \in 0..m |-> IF i = 0 THEN base ELSE InitCondition(g[i - 1], c, l[i])]
           T == {m \in 0..n : \E g : Rec(g, m)}
<1>1. 0 \in T
  <2>1. Rec([i \in 0..0 |-> base], 0)
    <3> HIDE DEF base, l
    <3> QED OBVIOUS
  <2>2. 0 \in 0..n OBVIOUS
  <2> HIDE DEF Rec
  <2> QED BY <2>1, <2>2
<1>2. ASSUME NEW m \in 0..(n - 1), m \in T PROVE m + 1 \in T
  <2> HIDE DEF base, l
  <2>1. PICK g : Rec(g, m) BY <1>2
  <2> DEFINE h == [i \in 0..(m + 1) |-> IF i = m + 1 THEN InitCondition(g[m], c, l[m + 1]) ELSE g[i]]
  <2>2. \A i \in 0..m : h[i] = g[i] OBVIOUS
  <2>3. g[0] = base /\ \A i \in 1..m : g[i] = InitCondition(g[i - 1], c, l[i]) BY <2>1
  <2>4. ASSUME NEW i \in 0..(m + 1) PROVE h[i] = IF i = 0 THEN base ELSE InitCondition(h[i - 1], c, l[i])
    <3>1. CASE i = 0 BY <2>2, <2>3, <3>1
    <3>2. CASE i \in 1..m
      <4>1. i - 1 \in 0..m BY <3>2
      <4>2. h[i] = g[i] /\ h[i - 1] = g[i - 1] BY <2>2, <3>2, <4>1
      <4> QED BY <2>3, <3>2, <4>2
    <3>3. CASE i = m + 1
      <4>1. i - 1 = m /\ h[m] = g[m] /\ i # 0 BY <2>2, <3>3
      <4>2. h[i] = InitCondition(g[m], c, l[m + 1]) BY <3>3
      <4> QED BY <3>3, <4>1, <4>2
    <3> QED BY <3>1, <3>2, <3>3
  <2>5. h = [i \in 0..(m + 1) |-> h[i]] OBVIOUS
  <2> HIDE DEF h
  <2>6. Rec(h, m + 1) BY <2>4, <2>5
  <2>7. m + 1 \in 0..n OBVIOUS
  <2> QED BY <2>6, <2>7
<1>3. \E g : Rec(g, n)
  <2> HIDE DEF T
  <2>1. \A i \in 0..n : i \in T BY <1>1, <1>2, Induction
  <2>2. n \in T BY <2>1
  <2> QED BY <2>2, Zenon DEF T
<1>4. w = CHOOSE g : Rec(g, n) BY Zenon DEF Conditions, Walk
<1>5. Rec(w, n) BY <1>3, <1>4, Zenon
<1> HIDE DEF w, base, l
<1>6. w[0] = base /\ \A i \in 1..n : w[i] = InitCondition(w[i - 1], c, l[i]) BY <1>5
<1> QED BY <1>6 DEF w, base, l, InTurn

(* The walk of SyncComputeBracketValues.                                   *)
Searched(s, startOver, n, w) ==
    /\ w[0] = [greater |-> IF startOver THEN MaxValue ELSE s.greater,
               less |-> IF startOver THEN MinValue ELSE s.less,
               newgt |-> FALSE, newlt |-> FALSE]
    /\ \A i \in 1..n : w[i] = Nearer(s, w[i - 1], s.list[SERVERTIME][i])

LEMMA ClosestIs ==
    ASSUME NEW s, NEW startOver, NEW n \in Nat, n = Len(s.list[SERVERTIME])
    PROVE  Searched(s, startOver, n, Closest(s, startOver))
<1> DEFINE w == Closest(s, startOver)
           base == [greater |-> IF startOver THEN MaxValue ELSE s.greater,
                     less |-> IF startOver THEN MinValue ELSE s.less,
                     newgt |-> FALSE, newlt |-> FALSE]
           l == s.list[SERVERTIME]
           Rec(g, m) == g = [i \in 0..m |-> IF i = 0 THEN base ELSE Nearer(s, g[i - 1], l[i])]
           T == {m \in 0..n : \E g : Rec(g, m)}
<1>1. 0 \in T
  <2>1. Rec([i \in 0..0 |-> base], 0)
    <3> HIDE DEF base, l
    <3> QED OBVIOUS
  <2>2. 0 \in 0..n OBVIOUS
  <2> HIDE DEF Rec
  <2> QED BY <2>1, <2>2
<1>2. ASSUME NEW m \in 0..(n - 1), m \in T PROVE m + 1 \in T
  <2> HIDE DEF base, l
  <2>1. PICK g : Rec(g, m) BY <1>2
  <2> DEFINE h == [i \in 0..(m + 1) |-> IF i = m + 1 THEN Nearer(s, g[m], l[m + 1]) ELSE g[i]]
  <2>2. \A i \in 0..m : h[i] = g[i] OBVIOUS
  <2>3. g[0] = base /\ \A i \in 1..m : g[i] = Nearer(s, g[i - 1], l[i]) BY <2>1
  <2>4. ASSUME NEW i \in 0..(m + 1) PROVE h[i] = IF i = 0 THEN base ELSE Nearer(s, h[i - 1], l[i])
    <3>1. CASE i = 0 BY <2>2, <2>3, <3>1
    <3>2. CASE i \in 1..m
      <4>1. i - 1 \in 0..m BY <3>2
      <4>2. h[i] = g[i] /\ h[i - 1] = g[i - 1] BY <2>2, <3>2, <4>1
      <4> QED BY <2>3, <3>2, <4>2
    <3>3. CASE i = m + 1
      <4>1. i - 1 = m /\ h[m] = g[m] /\ i # 0 BY <2>2, <3>3
      <4>2. h[i] = Nearer(s, g[m], l[m + 1]) BY <3>3
      <4> QED BY <3>3, <4>1, <4>2
    <3> QED BY <3>1, <3>2, <3>3
  <2>5. h = [i \in 0..(m + 1) |-> h[i]] OBVIOUS
  <2> HIDE DEF h
  <2>6. Rec(h, m + 1) BY <2>4, <2>5
  <2>7. m + 1 \in 0..n OBVIOUS
  <2> QED BY <2>6, <2>7
<1>3. \E g : Rec(g, n)
  <2> HIDE DEF T
  <2>1. \A i \in 0..n : i \in T BY <1>1, <1>2, Induction
  <2>2. n \in T BY <2>1
  <2> QED BY <2>2, Zenon DEF T
<1>4. w = CHOOSE g : Rec(g, n) BY Zenon DEF Closest, Walk
<1>5. Rec(w, n) BY <1>3, <1>4, Zenon
<1> HIDE DEF w, base, l
<1>6. w[0] = base /\ \A i \in 1..n : w[i] = Nearer(s, w[i - 1], l[i]) BY <1>5
<1> QED BY <1>6 DEF w, base, l, Searched

-----------------------------------------------------------------------------
(* The invariant.                                                          *)

(* The trigger t exists and waits for the counter k.                       *)
Has(s, t, k) ==
    \/ /\ IsAlarm(t) /\ t[1] \in Alarms
       /\ s.alarm[t[1]] # None /\ s.alarm[t[1]].counter = k
    \/ /\ ~IsAlarm(t) /\ t[1] \in Clients /\ s.await[t[1]] # None
       /\ t[2] \in 1..Len(s.await[t[1]]) /\ s.await[t[1]][t[2]].counter = k

(* A list has triggers that wait for its counter, each once; the list of a *)
(* counter d that is being destroyed has more.                             *)
NoneTwice(s) == \A k \in AllCounters : IsInjective(s.list[k])
Proper(s, k) == \A t \in ToSet(s.list[k]) : Has(s, t, k)

(* The conditions of an await wait for different counters.                 *)
Apart(w) ==
    /\ \A i \in 1..Len(w) : w[i].counter \in AllCounters
    /\ \A i, j \in 1..Len(w) : w[i].counter = w[j].counter => i = j

(* Who is in a list waits for a counter that exists.                       *)
Existing(s) ==
    /\ s.value[SERVERTIME] # None
    /\ \A k \in AllCounters : ToSet(s.list[k]) # {} => s.value[k] # None

Matched(s, d) ==
    /\ NoneTwice(s) /\ Existing(s)
    /\ \A k \in AllCounters \ {d} : Proper(s, k)
    /\ \A c \in Clients : s.await[c] # None => Apart(s.await[c])

(* The clients that wait are ignored, and none else.                       *)
Waiting(s) == s.ignored = {c \in Clients : s.await[c] # None}

(* No condition in the list of a client's counter is TRUE, if it is a      *)
(* comparison.                                                             *)
Late(s, t, k) ==
    /\ Trigger(s, t).check \in Comparisons
    /\ Check(Trigger(s, t).check, None, s.value[k], Trigger(s, t).value)
NoneDue(s) ==
    \A k \in Counters : \A t \in ToSet(s.list[k]) : ~IsAlarm(t) => ~Late(s, t, k)

Sound(s) == s \in State /\ Matched(s, None) /\ Waiting(s) /\ NoneDue(s)
IInv == TypeOK /\ Sound(S)

-----------------------------------------------------------------------------
(* The bracket of SERVERTIME.                                              *)

LEMMA Widths ==
    /\ MinValue \in Int /\ MaxValue \in Int /\ MinValue < 0 /\ 0 < MaxValue
    /\ MinValue \in Int64 /\ MaxValue \in Int64 /\ 0 \in Int64 /\ Int64 \subseteq Int
    /\ None \notin Int64 /\ None \notin Seq(TriggerRec) /\ None \notin AlarmRec
    /\ None \notin AllCounters /\ None \notin Clients
    /\ SERVERTIME \notin Counters /\ SERVERTIME \in AllCounters /\ Counters \subseteq AllCounters
    /\ Clients \cap Alarms = {} /\ MaxTime \in 0..MaxValue
    BY SyncAssumption DEF Int64, AllCounters

LEMMA HasType ==
    ASSUME NEW s \in State, NEW t, NEW k, Has(s, t, k)
    PROVE  /\ Trigger(s, t).counter = k
           /\ Trigger(s, t).test \in Tests /\ Trigger(s, t).check \in Tests
           /\ Trigger(s, t).value \in Int64
<1>1. CASE IsAlarm(t)
  <2>1. s.alarm[t[1]] \in AlarmRec BY <1>1 DEF Has, State
  <2> QED BY <1>1, <2>1 DEF Has, Trigger, AlarmRec
<1>2. CASE ~IsAlarm(t)
  <2>1. s.await[t[1]] \in Seq(TriggerRec) /\ t[2] \in 1..Len(s.await[t[1]])
      BY <1>2 DEF Has, State
  <2>2. s.await[t[1]][t[2]] \in TriggerRec BY <2>1
  <2> QED BY <1>2, <2>2 DEF Has, Trigger, TriggerRec
<1> QED BY <1>1, <1>2

Nearest == [greater : Int64, less : Int64, newgt : BOOLEAN, newlt : BOOLEAN]

LEMMA NearerType ==
    ASSUME NEW s \in State, NEW b \in Nearest, NEW t, Has(s, t, SERVERTIME)
    PROVE  Nearer(s, b, t) \in Nearest
<1>1. Trigger(s, t).value \in Int64 BY HasType
<1> QED BY <1>1 DEF Nearer, Nearest

LEMMA ClosestType ==
    ASSUME NEW s \in State, Proper(s, SERVERTIME), NEW startOver \in BOOLEAN
    PROVE  Closest(s, startOver)[Len(s.list[SERVERTIME])] \in Nearest
<1>1. s.list[SERVERTIME] \in Seq(TriggerId) BY Widths DEF State
<1>2. PICK n \in Nat : n = Len(s.list[SERVERTIME]) BY <1>1, LenProperties
<1>3. PICK w : w = Closest(s, startOver) OBVIOUS
<1>8. Searched(s, startOver, n, w) BY <1>2, <1>3, ClosestIs
<1> DEFINE T == {i \in 0..n : w[i] \in Nearest}
<1>4. 0 \in T
  <2>1. w[0] = [greater |-> IF startOver THEN MaxValue ELSE s.greater,
                less |-> IF startOver THEN MinValue ELSE s.less,
                newgt |-> FALSE, newlt |-> FALSE]
      BY <1>8 DEF Searched
  <2>2. s.greater \in Int64 /\ s.less \in Int64 BY DEF State
  <2>3. w[0] \in Nearest BY <2>1, <2>2, Widths DEF Nearest
  <2> QED BY <2>3
<1>5. ASSUME NEW i \in 0..(n - 1), i \in T PROVE i + 1 \in T
  <2>1. i + 1 \in 1..n /\ (i + 1) - 1 = i OBVIOUS
  <2>2. w[i + 1] = Nearer(s, w[i], s.list[SERVERTIME][i + 1])
      BY <1>8, <2>1 DEF Searched
  <2>3. s.list[SERVERTIME][i + 1] \in ToSet(s.list[SERVERTIME])
      BY <1>1, <1>2, <2>1, MembersAre
  <2>4. Has(s, s.list[SERVERTIME][i + 1], SERVERTIME) BY <2>3 DEF Proper
  <2>5. w[i + 1] \in Nearest BY <1>5, <2>2, <2>4, NearerType
  <2> QED BY <2>5
<1> HIDE DEF T
<1>6. \A i \in 0..n : i \in T BY <1>4, <1>5, Induction
<1>7. n \in T BY <1>6
<1> QED BY <1>2, <1>3, <1>7 DEF T

(* All but the bracket and the fields named.                               *)
SameRest(s, q) == q.value = s.value /\ q.owner = s.owner /\ q.gone = s.gone
SameButLists(s, q) ==
    /\ SameRest(s, q) /\ q.await = s.await /\ q.alarm = s.alarm
    /\ q.ignored = s.ignored /\ q.alive = s.alive

LEMMA BracketIs ==
    ASSUME NEW s \in State, NEW k, k = SERVERTIME => Proper(s, k), NEW startOver \in BOOLEAN
    PROVE  /\ Bracket(s, k, startOver) \in State
           /\ SameButLists(s, Bracket(s, k, startOver))
           /\ Bracket(s, k, startOver).list = s.list
<1>1. CASE k # SERVERTIME BY <1>1 DEF Bracket, SameButLists, SameRest
<1>2. CASE k = SERVERTIME
  <2>1. PICK b \in Nearest : b = Closest(s, startOver)[Len(s.list[k])]
      BY <1>2, ClosestType
  <2>2. Bracket(s, k, startOver) = WithBracket(s, b) BY <1>2, <2>1, Zenon DEF Bracket
  <2>3. WithBracket(s, b) \in State BY <2>1 DEF WithBracket, State, Nearest
  <2>4. /\ SameButLists(s, WithBracket(s, b)) /\ WithBracket(s, b).list = s.list
      BY DEF WithBracket, State, SameButLists, SameRest
  <2> QED BY <2>2, <2>3, <2>4
<1> QED BY <1>1, <1>2

-----------------------------------------------------------------------------
(* What such a change leaves as it is.                                     *)
SameLists(s, q) == q.list = s.list
SameTriggers(s, q) == q.await = s.await /\ q.alarm = s.alarm
SameClients(s, q) == q.ignored = s.ignored /\ q.alive = s.alive

LEMMA WithListsIs ==
    ASSUME NEW s \in State, NEW L \in [AllCounters -> Seq(TriggerId)], NEW b \in BOOLEAN
    PROVE  /\ [s EXCEPT !.list = L, !.stray = b] \in State
           /\ SameButLists(s, [s EXCEPT !.list = L, !.stray = b])
           /\ [s EXCEPT !.list = L, !.stray = b].list = L
    BY DEF State, SameButLists, SameRest

LEMMA WithListIs ==
    ASSUME NEW s \in State, NEW k \in AllCounters, NEW l \in Seq(TriggerId)
    PROVE  /\ WithList(s, k, l) \in State
           /\ SameButLists(s, WithList(s, k, l))
           /\ WithList(s, k, l).list = [s.list EXCEPT ![k] = l]
<1>1. PICK L \in [AllCounters -> Seq(TriggerId)] : L = [s.list EXCEPT ![k] = l] BY DEF State
<1>2. WithList(s, k, l) = [s EXCEPT !.list = L] BY <1>1 DEF WithList
<1> QED BY <1>1, <1>2 DEF State, SameButLists, SameRest

LEMMA WithAlarmIs ==
    ASSUME NEW s \in State, NEW a \in Alarms, NEW x \in AlarmRec \cup {None}
    PROVE  /\ WithAlarm(s, a, x) \in State
           /\ SameRest(s, WithAlarm(s, a, x)) /\ SameLists(s, WithAlarm(s, a, x))
           /\ SameClients(s, WithAlarm(s, a, x)) /\ WithAlarm(s, a, x).await = s.await
           /\ WithAlarm(s, a, x).alarm = [s.alarm EXCEPT ![a] = x]
<1>1. [s.alarm EXCEPT ![a] = x] \in [Alarms -> AlarmRec \cup {None}] BY DEF State
<1>2. WithAlarm(s, a, x) = [s EXCEPT !.alarm = [s.alarm EXCEPT ![a] = x]] BY DEF WithAlarm
<1> QED BY <1>1, <1>2 DEF State, SameRest, SameLists, SameClients

LEMMA WithAwaitIs ==
    ASSUME NEW s \in State, NEW c \in Clients, NEW w \in Seq(TriggerRec) \cup {None}
    PROVE  /\ WithAwait(s, c, w) \in State
           /\ SameRest(s, WithAwait(s, c, w)) /\ SameLists(s, WithAwait(s, c, w))
           /\ SameClients(s, WithAwait(s, c, w)) /\ WithAwait(s, c, w).alarm = s.alarm
           /\ WithAwait(s, c, w).await = [s.await EXCEPT ![c] = w]
<1>1. [s.await EXCEPT ![c] = w] \in [Clients -> Seq(TriggerRec) \cup {None}] BY DEF State
<1>2. WithAwait(s, c, w) = [s EXCEPT !.await = [s.await EXCEPT ![c] = w]] BY DEF WithAwait
<1> QED BY <1>1, <1>2 DEF State, SameRest, SameLists, SameClients

LEMMA WithIgnoredIs ==
    ASSUME NEW s \in State, NEW I \in SUBSET Clients
    PROVE  /\ WithIgnored(s, I) \in State
           /\ SameRest(s, WithIgnored(s, I)) /\ SameLists(s, WithIgnored(s, I))
           /\ SameTriggers(s, WithIgnored(s, I)) /\ WithIgnored(s, I).alive = s.alive
           /\ WithIgnored(s, I).ignored = I
    BY DEF WithIgnored, State, SameRest, SameLists, SameTriggers

LEMMA WithAliveIs ==
    ASSUME NEW s \in State, NEW b \in BOOLEAN
    PROVE  /\ WithAlive(s, b) \in State
           /\ SameRest(s, WithAlive(s, b)) /\ SameLists(s, WithAlive(s, b))
           /\ SameTriggers(s, WithAlive(s, b)) /\ WithAlive(s, b).ignored = s.ignored
           /\ WithAlive(s, b).alive = b
    BY DEF WithAlive, State, SameRest, SameLists, SameTriggers

LEMMA WithValueIs ==
    ASSUME NEW s \in State, NEW k \in AllCounters, NEW v \in Int64 \cup {None}
    PROVE  /\ WithValue(s, k, v) \in State
           /\ SameLists(s, WithValue(s, k, v)) /\ SameTriggers(s, WithValue(s, k, v))
           /\ SameClients(s, WithValue(s, k, v))
           /\ WithValue(s, k, v).owner = s.owner /\ WithValue(s, k, v).gone = s.gone
           /\ WithValue(s, k, v).value = [s.value EXCEPT ![k] = v]
<1>1. [s.value EXCEPT ![k] = v] \in [AllCounters -> Int64 \cup {None}] BY DEF State
<1>2. WithValue(s, k, v) = [s EXCEPT !.value = [s.value EXCEPT ![k] = v]] BY DEF WithValue
<1> QED BY <1>1, <1>2 DEF State, SameLists, SameTriggers, SameClients

-----------------------------------------------------------------------------
(* The lists.                                                              *)

LEMMA ListType ==
    ASSUME NEW s \in State, NEW k \in AllCounters
    PROVE  s.list[k] \in Seq(TriggerId) /\ ToSet(s.list[k]) \subseteq TriggerId
<1>1. s.list[k] \in Seq(TriggerId) BY DEF State
<1> QED BY <1>1, MembersAre

(* The trigger t leaves the list of k, and those in front of it do, too.   *)
Before(s, k, t, u) == InFront(s.list[k], t, u)
Cut(s, q, t, k) ==
    /\ NoneTwice(q)
    /\ \A j \in AllCounters : j # k => q.list[j] = s.list[j]
    /\ k # None =>
           /\ ToSet(q.list[k]) \subseteq ToSet(s.list[k]) \ {t}
           /\ \A u, v : Before(q, k, u, v) => Before(s, k, u, v)
           /\ \A u \in ToSet(s.list[k]) :
                  u \in ToSet(q.list[k]) \/ u = t \/ Before(s, k, u, t)

LEMMA DeleteIs ==
    ASSUME NEW s \in State, NoneTwice(s), Proper(s, SERVERTIME),
           NEW t, NEW k \in AllCounters \cup {None}, Trigger(s, t).counter = k
    PROVE  \E q \in State :
             /\ q = SyncDeleteTriggerFromCounter(s, t)
             /\ SameButLists(s, q) /\ Cut(s, q, t, k)
<1>1. CASE k = None
  <2>1. SyncDeleteTriggerFromCounter(s, t) = s BY <1>1 DEF SyncDeleteTriggerFromCounter
  <2> QED BY <1>1, <2>1, Widths DEF SameButLists, SameRest, Cut
<1>2. CASE k # None
  <2>1. k \in AllCounters BY <1>2
  <2>2. PICK l : l = Unlinked(s.list[k], t) OBVIOUS
  <2>3. /\ l \in Seq(TriggerId) /\ IsInjective(l) /\ ToSet(l) \subseteq ToSet(s.list[k]) \ {t}
        /\ \A u, v : InFront(l, u, v) => InFront(s.list[k], u, v)
        /\ \A u \in ToSet(s.list[k]) : u \in ToSet(l) \/ u = t \/ InFront(s.list[k], u, t)
      BY <2>1, <2>2, ListType, UnlinkedIs DEF NoneTwice
  <2>4. PICK L \in [AllCounters -> Seq(TriggerId)] : L = [s.list EXCEPT ![k] = l]
      BY <2>1, <2>3 DEF State
  <2>5. PICK b \in BOOLEAN : b = (s.stray \/ ~Exists(s, k))
      BY DEF State
  <2>6. PICK r : r = [s EXCEPT !.list = L, !.stray = b] OBVIOUS
  <2>7. r \in State /\ SameButLists(s, r) /\ r.list = L BY <2>6, WithListsIs
  <2>8. \A j \in AllCounters : r.list[j] = IF j = k THEN l ELSE s.list[j]
      BY <2>4, <2>7 DEF State
  <2>9. Proper(r, SERVERTIME)
    <3>1. ToSet(r.list[SERVERTIME]) \subseteq ToSet(s.list[SERVERTIME]) BY <2>3, <2>8, Widths
    <3>2. \A u, j : Has(s, u, j) => Has(r, u, j) BY <2>7 DEF Has, SameButLists
    <3> QED BY <3>1, <3>2 DEF Proper
  <2>10. PICK q : q = Bracket(r, k, TRUE) OBVIOUS
  <2>11. q \in State /\ SameButLists(r, q) /\ q.list = r.list
    <3>1. TRUE \in BOOLEAN /\ (k = SERVERTIME => Proper(r, k)) BY <2>9
    <3> QED BY <2>7, <2>10, <3>1, BracketIs, Zenon
  <2>12. q = SyncDeleteTriggerFromCounter(s, t)
    <3>1. r = [s EXCEPT !.list[k] = Unlinked(@, t), !.stray = @ \/ ~Exists(s, k)]
        BY <2>2, <2>4, <2>5, <2>6 DEF State
    <3> QED BY <1>2, <2>10, <3>1, Zenon DEF SyncDeleteTriggerFromCounter
  <2>13. SameButLists(s, q) BY <2>7, <2>11 DEF SameButLists, SameRest
  <2>14. Cut(s, q, t, k)
    <3>1. NoneTwice(q) BY <2>3, <2>8, <2>11 DEF NoneTwice
    <3>2. q.list[k] = l /\ \A j \in AllCounters : j # k => q.list[j] = s.list[j]
        BY <2>1, <2>8, <2>11
    <3> QED BY <2>3, <3>1, <3>2 DEF Cut, Before
  <2> QED BY <2>11, <2>12, <2>13, <2>14
<1> QED BY <1>1, <1>2

(* The trigger t comes to the head of the list of k.                       *)
Put(s, q, t, k) ==
    /\ NoneTwice(q)
    /\ \A j \in AllCounters : j # k => q.list[j] = s.list[j]
    /\ k # None =>
           /\ ToSet(q.list[k]) = ToSet(s.list[k]) \cup {t}
           /\ \A u, v : Before(q, k, u, v) => u = t \/ Before(s, k, u, v)

LEMMA AddIs ==
    ASSUME NEW s \in State, NoneTwice(s), Proper(s, SERVERTIME),
           NEW t \in TriggerId, NEW k \in AllCounters \cup {None},
           Trigger(s, t).counter = k, k # None => Has(s, t, k) /\ t \notin ToSet(s.list[k])
    PROVE  \E q \in State :
             /\ q = SyncAddTriggerToCounter(s, t)
             /\ SameButLists(s, q) /\ Put(s, q, t, k)
<1>1. CASE k = None
  <2>1. SyncAddTriggerToCounter(s, t) = s BY <1>1 DEF SyncAddTriggerToCounter
  <2> QED BY <1>1, <2>1, Widths DEF SameButLists, SameRest, Put
<1>2. CASE k # None
  <2>1. k \in AllCounters BY <1>2
  <2>2. PICK l : l = <<t>> \o s.list[k] OBVIOUS
  <2>3. /\ l \in Seq(TriggerId) /\ IsInjective(l) /\ ToSet(l) = ToSet(s.list[k]) \cup {t}
        /\ \A u, v : InFront(l, u, v) => u = t \/ InFront(s.list[k], u, v)
      BY <1>2, <2>1, <2>2, ListType, PrependIs DEF NoneTwice
  <2>4. PICK r : r = WithList(s, k, l) OBVIOUS
  <2>5. /\ r \in State /\ SameButLists(s, r) /\ r.list = [s.list EXCEPT ![k] = l]
      BY <2>1, <2>3, <2>4, WithListIs
  <2>6. \A j \in AllCounters : r.list[j] = IF j = k THEN l ELSE s.list[j]
      BY <2>5 DEF State
  <2>7. Proper(r, SERVERTIME)
    <3>1. \A u \in ToSet(r.list[SERVERTIME]) :
              u \in ToSet(s.list[SERVERTIME]) \/ (u = t /\ k = SERVERTIME)
        BY <2>3, <2>6, Widths
    <3>2. \A u, j : Has(s, u, j) => Has(r, u, j) BY <2>5 DEF Has, SameButLists
    <3> QED BY <1>2, <3>1, <3>2 DEF Proper
  <2>8. PICK q : q = Bracket(r, k, TRUE) OBVIOUS
  <2>9. q \in State /\ SameButLists(r, q) /\ q.list = r.list
    <3>1. TRUE \in BOOLEAN /\ (k = SERVERTIME => Proper(r, k)) BY <2>7
    <3> QED BY <2>5, <2>8, <3>1, BracketIs, Zenon
  <2>10. q = SyncAddTriggerToCounter(s, t)
      BY <1>2, <2>2, <2>4, <2>8 DEF SyncAddTriggerToCounter, WithList
  <2>11. SameButLists(s, q) BY <2>5, <2>9 DEF SameButLists, SameRest
  <2>12. Put(s, q, t, k)
    <3>1. NoneTwice(q) BY <2>3, <2>6, <2>9 DEF NoneTwice
    <3>2. q.list[k] = l /\ \A j \in AllCounters : j # k => q.list[j] = s.list[j]
        BY <2>1, <2>6, <2>9
    <3> QED BY <2>3, <3>1, <3>2 DEF Put, Before
  <2> QED BY <2>9, <2>10, <2>11, <2>12
<1> QED BY <1>1, <1>2

(* What FreeAwait does: the triggers of the await leave their lists, and   *)
(* what is in front of them, too, but for the list of a counter d that is  *)
(* being destroyed.                                                        *)
Freed(s, q, c, d) ==
    /\ SameRest(s, q) /\ q.alarm = s.alarm /\ q.await = [s.await EXCEPT ![c] = None]
    /\ NoneTwice(q)
    /\ d \in AllCounters => q.list[d] = s.list[d]
    /\ \A k \in AllCounters :
           /\ ToSet(q.list[k]) \subseteq ToSet(s.list[k])
           /\ k # d => \A t \in ToSet(q.list[k]) : t[1] # c
           /\ \A t, u : Before(q, k, t, u) => Before(s, k, t, u)
           /\ \A t \in ToSet(s.list[k]) :
                  t \in ToSet(q.list[k]) \/ t[1] = c \/ \E u : u[1] = c /\ Before(s, k, t, u)

(* The lists of q are those of s without some triggers: the trigger t, if  *)
(* it still waits, was in front of one that does not.                      *)
Dropped(s, q, t, k) == \E u : Before(s, k, t, u) /\ ~Has(q, u, k)
Thins(s, q) ==
    \A k \in AllCounters :
        /\ ToSet(q.list[k]) \subseteq ToSet(s.list[k])
        /\ \A t, u : Before(q, k, t, u) => Before(s, k, t, u)
        /\ \A t : Has(q, t, k) => Has(s, t, k)
        /\ \A t \in ToSet(s.list[k]) :
               Has(q, t, k) => t \in ToSet(q.list[k]) \/ Dropped(s, q, t, k)

LEMMA ThinsTwice ==
    ASSUME NEW s, NEW q, NEW r, Thins(s, q), Thins(q, r)
    PROVE  Thins(s, r)
<1> SUFFICES ASSUME NEW k \in AllCounters
             PROVE  /\ ToSet(r.list[k]) \subseteq ToSet(s.list[k])
                    /\ \A t, u : Before(r, k, t, u) => Before(s, k, t, u)
                    /\ \A t : Has(r, t, k) => Has(s, t, k)
                    /\ \A t \in ToSet(s.list[k]) :
                           Has(r, t, k) => t \in ToSet(r.list[k]) \/ Dropped(s, r, t, k)
    BY DEF Thins
<1>1. ToSet(q.list[k]) \subseteq ToSet(s.list[k]) /\ ToSet(r.list[k]) \subseteq ToSet(q.list[k])
    BY DEF Thins
<1>2. /\ \A t, u : Before(q, k, t, u) => Before(s, k, t, u)
      /\ \A t, u : Before(r, k, t, u) => Before(q, k, t, u)
    BY Zenon DEF Thins
<1>3. (\A t : Has(q, t, k) => Has(s, t, k)) /\ \A t : Has(r, t, k) => Has(q, t, k)
    BY Zenon DEF Thins
<1>4. ASSUME NEW t \in ToSet(s.list[k]), Has(r, t, k)
      PROVE  t \in ToSet(r.list[k]) \/ Dropped(s, r, t, k)
  <2>1. Has(q, t, k) BY <1>3, <1>4
  <2>2. t \in ToSet(q.list[k]) \/ Dropped(s, q, t, k) BY <2>1 DEF Thins
  <2>3. CASE t \in ToSet(q.list[k])
    <3>1. t \in ToSet(r.list[k]) \/ Dropped(q, r, t, k) BY <1>4, <2>3 DEF Thins
    <3> QED BY <1>2, <3>1, Zenon DEF Dropped
  <2>4. CASE Dropped(s, q, t, k) BY <1>3, <2>4, Zenon DEF Dropped
  <2> QED BY <2>2, <2>3, <2>4
<1> QED BY <1>1, <1>2, <1>3, <1>4, Zenon

LEMMA SameThins ==
    ASSUME NEW s, NEW q, q.list = s.list,
           \A t : \A k \in AllCounters : Has(q, t, k) => Has(s, t, k)
    PROVE  Thins(s, q)
<1>1. \A t, u, k : Before(q, k, t, u) => Before(s, k, t, u) BY DEF Before
<1> QED BY <1>1 DEF Thins

LEMMA FreedThins ==
    ASSUME NEW s \in State, NEW q, NEW c \in Clients, NEW d, Freed(s, q, c, d)
    PROVE  Thins(s, q)
<1>1. q.alarm = s.alarm /\ q.await = [s.await EXCEPT ![c] = None] BY DEF Freed
<1>2. q.await[c] = None /\ \A x \in Clients \ {c} : q.await[x] = s.await[x]
    BY <1>1 DEF State
<1>3. \A t, k : t[1] = c => ~Has(q, t, k) BY <1>2, Widths DEF Has
<1>4. \A t, k : Has(q, t, k) => Has(s, t, k) BY <1>1, <1>2 DEF Has
<1>5. ASSUME NEW k \in AllCounters, NEW t \in ToSet(s.list[k]), Has(q, t, k)
      PROVE  t \in ToSet(q.list[k]) \/ Dropped(s, q, t, k)
  <2>1. t \in ToSet(q.list[k]) \/ \E u : u[1] = c /\ Before(s, k, t, u)
      BY <1>3, <1>5 DEF Freed
  <2> QED BY <1>3, <2>1, Zenon DEF Dropped
<1>6. \A k \in AllCounters : /\ ToSet(q.list[k]) \subseteq ToSet(s.list[k])
                             /\ \A t, u : Before(q, k, t, u) => Before(s, k, t, u)
    BY DEF Freed
<1> QED BY <1>4, <1>5, <1>6, Zenon DEF Thins

LEMMA FreeAwaitIs ==
    ASSUME NEW s \in State, NEW d, d # SERVERTIME, NoneTwice(s),
           \A k \in AllCounters \ {d} : Proper(s, k),
           NEW c \in Clients, s.await[c] # None, Apart(s.await[c])
    PROVE  \E q \in State : q = FreeAwait(s, c, d) /\ Freed(s, q, c, d) /\ SameClients(s, q)
<1> DEFINE w == s.await[c]
           on == {w[i].counter : i \in DOMAIN w} \ {d}
           its(k) == <<c, CHOOSE i \in DOMAIN w : w[i].counter = k>>
           left == [k \in AllCounters |->
                       IF k \in on THEN Unlinked(s.list[k], its(k)) ELSE s.list[k]]
           stray == s.stray \/ \E k \in on : ~Exists(s, k)
           timed == IF SERVERTIME \in on THEN SERVERTIME ELSE None
           Left(k, l) ==
               /\ l \in Seq(TriggerId) /\ IsInjective(l)
               /\ ToSet(l) \subseteq ToSet(s.list[k])
               /\ k = d => l = s.list[k]
               /\ k # d => \A t \in ToSet(l) : t[1] # c
               /\ \A t, u : InFront(l, t, u) => Before(s, k, t, u)
               /\ \A t \in ToSet(s.list[k]) :
                      t \in ToSet(l) \/ t[1] = c \/ \E u : u[1] = c /\ Before(s, k, t, u)
<1>1. w \in Seq(TriggerRec) /\ w = s.await[c] BY DEF State
<1>2. FreeAwait(s, c, d) =
        WithAwait(Bracket([s EXCEPT !.list = left, !.stray = stray], timed, TRUE), c, None)
    BY Zenon DEF FreeAwait, WithAwait
<1> HIDE DEF w
<1>3. PICK n \in Nat : n = Len(w) /\ DOMAIN w = 1..n BY <1>1, LenProperties
<1>4. \A i, j \in 1..n : w[i].counter = w[j].counter => i = j BY <1>1, <1>3 DEF Apart
<1>5. ASSUME NEW k \in AllCounters PROVE Left(k, left[k])
  <2>1. /\ s.list[k] \in Seq(TriggerId) /\ ToSet(s.list[k]) \subseteq TriggerId
        /\ IsInjective(s.list[k])
      BY ListType DEF NoneTwice
  <2>2. ASSUME k # d, NEW t \in ToSet(s.list[k]), t[1] = c
        PROVE  \E i \in 1..n : w[i].counter = k /\ t = <<c, i>>
    <3>1. Has(s, t, k) BY <2>2 DEF Proper
    <3>2. t[1] \notin Alarms BY <2>2, Widths
    <3>3. t[2] \in 1..n /\ w[t[2]].counter = k BY <1>1, <1>3, <2>2, <3>1, <3>2 DEF Has
    <3>4. t = <<t[1], t[2]>> BY <2>1, <2>2 DEF TriggerId
    <3> QED BY <2>2, <3>3, <3>4
  <2>3. CASE k \in on
    <3>1. k # d /\ \E i \in 1..n : w[i].counter = k BY <1>3, <2>3
    <3>2. PICK i \in 1..n : w[i].counter = k /\ its(k) = <<c, i>> BY <1>3, <3>1
    <3>3. PICK t : t = <<c, i>> /\ t[1] = c
      <4>1. <<c, i>>[1] = c OBVIOUS
      <4> QED BY <4>1
    <3>4. left[k] = Unlinked(s.list[k], t) BY <2>3, <3>2, <3>3
    <3>5. \A u \in ToSet(s.list[k]) : u[1] = c => u = t BY <1>4, <2>2, <3>1, <3>2, <3>3
    <3>6. PICK r : r = left[k] OBVIOUS
    <3> HIDE DEF on, its, left, timed, stray, Left
    <3>7. /\ r \in Seq(TriggerId) /\ IsInjective(r) /\ ToSet(r) \subseteq ToSet(s.list[k]) \ {t}
          /\ \A u, v : InFront(r, u, v) => Before(s, k, u, v)
          /\ \A u \in ToSet(s.list[k]) : u \in ToSet(r) \/ u = t \/ Before(s, k, u, t)
        BY <2>1, <3>4, <3>6, UnlinkedIs DEF Before
    <3>8. \A u \in ToSet(r) : u[1] # c BY <3>5, <3>7
    <3>9. \A u \in ToSet(s.list[k]) :
              u \in ToSet(r) \/ u[1] = c \/ \E v : v[1] = c /\ Before(s, k, u, v)
        BY <3>3, <3>7, Zenon
    <3> QED BY <3>1, <3>6, <3>7, <3>8, <3>9 DEF Left
  <2>4. CASE k \notin on
    <3>1. left[k] = s.list[k] BY <2>4
    <3>2. k # d => \A i \in 1..n : w[i].counter # k BY <1>3, <2>4
    <3>3. k # d => \A t \in ToSet(s.list[k]) : t[1] # c BY <2>2, <3>2
    <3> HIDE DEF on, its, left, timed, stray
    <3> QED BY <2>1, <3>1, <3>3 DEF Before
  <2> QED BY <2>3, <2>4
<1> HIDE DEF Left
<1>6. left \in [AllCounters -> Seq(TriggerId)]
  <2>1. left = [k \in AllCounters |-> left[k]] OBVIOUS
  <2>2. \A k \in AllCounters : left[k] \in Seq(TriggerId) BY <1>5 DEF Left
  <2> HIDE DEF left
  <2> QED BY <2>1, <2>2
<1>7. timed = None \/ timed = SERVERTIME OBVIOUS
<1> HIDE DEF on, its, left, timed
<1>8. PICK b \in BOOLEAN : b = stray BY DEF State
<1> HIDE DEF stray
<1>9. PICK r : r = [s EXCEPT !.list = left, !.stray = b] OBVIOUS
<1>10. r \in State /\ SameButLists(s, r) /\ r.list = left BY <1>6, <1>9, WithListsIs
<1>11. Proper(r, SERVERTIME)
  <2>1. SERVERTIME \in AllCounters \ {d} BY Widths
  <2>2. ToSet(r.list[SERVERTIME]) \subseteq ToSet(s.list[SERVERTIME])
      BY <1>5, <1>10, <2>1 DEF Left
  <2>3. \A u, j : Has(s, u, j) => Has(r, u, j) BY <1>10 DEF Has, SameButLists
  <2> QED BY <2>1, <2>2, <2>3 DEF Proper
<1>12. PICK e : e = Bracket(r, timed, TRUE) OBVIOUS
<1>13. e \in State /\ SameButLists(r, e) /\ e.list = left
    BY <1>7, <1>10, <1>11, <1>12, BracketIs
<1>14. PICK q : q = WithAwait(e, c, None) OBVIOUS
<1>15. /\ q \in State /\ SameRest(e, q) /\ SameLists(e, q) /\ SameClients(e, q)
       /\ q.alarm = e.alarm /\ q.await = [e.await EXCEPT ![c] = None]
    BY <1>13, <1>14, WithAwaitIs
<1>16. q.list = left BY <1>13, <1>15 DEF SameLists
<1>17. SameRest(s, q) /\ SameClients(s, q)
    BY <1>10, <1>13, <1>15 DEF SameRest, SameClients, SameButLists
<1>18. q.alarm = s.alarm /\ q.await = [s.await EXCEPT ![c] = None]
    BY <1>10, <1>13, <1>15 DEF SameButLists
<1>19. Freed(s, q, c, d)
  <2>1. \A k \in AllCounters : Left(k, q.list[k]) BY <1>5, <1>16
  <2>2. NoneTwice(q) BY <2>1 DEF Left, NoneTwice
  <2>3. d \in AllCounters => q.list[d] = s.list[d] BY <2>1, Zenon DEF Left
  <2>4. \A k \in AllCounters :
           /\ ToSet(q.list[k]) \subseteq ToSet(s.list[k])
           /\ k # d => \A t \in ToSet(q.list[k]) : t[1] # c
           /\ \A t, u : Before(q, k, t, u) => Before(s, k, t, u)
           /\ \A t \in ToSet(s.list[k]) :
                  t \in ToSet(q.list[k]) \/ t[1] = c \/ \E u : u[1] = c /\ Before(s, k, t, u)
    <3> SUFFICES ASSUME NEW k \in AllCounters
                 PROVE  /\ ToSet(q.list[k]) \subseteq ToSet(s.list[k])
                        /\ k # d => \A t \in ToSet(q.list[k]) : t[1] # c
                        /\ \A t, u : Before(q, k, t, u) => Before(s, k, t, u)
                        /\ \A t \in ToSet(s.list[k]) : \/ t \in ToSet(q.list[k]) \/ t[1] = c
                                                       \/ \E u : u[1] = c /\ Before(s, k, t, u)
        OBVIOUS
    <3>1. Left(k, q.list[k]) BY <2>1
    <3> QED BY <3>1, Zenon DEF Left, Before
  <2> QED BY <1>17, <1>18, <2>2, <2>3, <2>4, Zenon DEF Freed
<1>20. q = FreeAwait(s, c, d) BY <1>2, <1>8, <1>9, <1>12, <1>14, Zenon
<1> QED BY <1>15, <1>17, <1>19, <1>20

LEMMA FreedMatched ==
    ASSUME NEW s \in State, NEW q \in State, NEW d, Matched(s, d),
           NEW c \in Clients, Freed(s, q, c, d)
    PROVE  /\ Matched(q, d) /\ q.await[c] = None
           /\ \A x \in Clients \ {c} : q.await[x] = s.await[x]
<1>1. q.await[c] = None /\ \A x \in Clients \ {c} : q.await[x] = s.await[x]
    BY DEF Freed, State
<1>2. \A k \in AllCounters : ToSet(q.list[k]) \subseteq ToSet(s.list[k]) BY DEF Freed
<1>3. NoneTwice(q) BY DEF Freed
<1>4. Existing(q) BY <1>2 DEF Existing, Freed, SameRest, Matched
<1>5. ASSUME NEW k \in AllCounters \ {d} PROVE Proper(q, k)
  <2> SUFFICES ASSUME NEW t \in ToSet(q.list[k]) PROVE Has(q, t, k) BY DEF Proper
  <2>1. t \in ToSet(s.list[k]) /\ t[1] # c BY DEF Freed
  <2>2. Has(s, t, k) BY <2>1 DEF Proper, Matched
  <2> QED BY <1>1, <2>1, <2>2 DEF Has, Freed
<1>6. \A x \in Clients : q.await[x] # None => Apart(q.await[x]) BY <1>1 DEF Matched
<1> QED BY <1>1, <1>3, <1>4, <1>5, <1>6 DEF Matched

(* The lists and their triggers are the same: all matches as before.       *)
LEMMA LinksMatched ==
    ASSUME NEW s \in State, NEW q \in State, NEW d, Matched(s, d), Existing(q),
           SameLists(s, q), SameTriggers(s, q)
    PROVE  Matched(q, d)
<1>1. \A t, k : Has(s, t, k) => Has(q, t, k) BY DEF Has, SameTriggers
<1> QED BY <1>1 DEF Matched, NoneTwice, Proper, SameLists, SameTriggers

LEMMA SameMatched ==
    ASSUME NEW s \in State, NEW q \in State, NEW d, Matched(s, d),
           q.list = s.list, q.await = s.await, q.alarm = s.alarm, q.value = s.value
    PROVE  Matched(q, d)
<1>1. Existing(q) BY DEF Matched, Existing
<1> QED BY <1>1, LinksMatched DEF SameLists, SameTriggers

(* What is left of those that were ignored as they waited.                 *)
Heeded(s, q) ==
    \A x \in Clients : (x \in s.ignored <=> s.await[x] # None)
                          => (x \in q.ignored <=> q.await[x] # None)

LEMMA AwaitFiredIs ==
    ASSUME NEW s \in State, NEW d, d # SERVERTIME, Matched(s, d),
           NEW c \in Clients, s.await[c] # None
    PROVE  \E q \in State :
             /\ q = SyncAwaitTriggerFired(s, c, d)
             /\ SameRest(s, q) /\ q.alarm = s.alarm /\ q.await[c] = None
             /\ \A x \in Clients \ {c} : q.await[x] = s.await[x]
             /\ (d \in AllCounters => q.list[d] = s.list[d])
             /\ Matched(q, d) /\ Heeded(s, q) /\ c \notin q.ignored /\ (q.alive => s.alive)
             /\ Thins(s, q)
<1>1. PICK I \in SUBSET Clients : I = s.ignored \ {c} BY DEF State
<1>2. PICK b \in BOOLEAN : b = (s.alive /\ c \notin s.gone) OBVIOUS
<1>3. PICK r : r = WithIgnored(s, I) OBVIOUS
<1>4. /\ r \in State /\ SameRest(s, r) /\ SameLists(s, r)
      /\ SameTriggers(s, r) /\ r.alive = s.alive /\ r.ignored = I
    BY <1>3, WithIgnoredIs
<1>5. PICK u : u = WithAlive(r, b) OBVIOUS
<1>6. /\ u \in State /\ SameRest(r, u) /\ SameLists(r, u)
      /\ SameTriggers(r, u) /\ u.alive = b /\ u.ignored = r.ignored
    BY <1>4, <1>5, WithAliveIs
<1>7. u = [s EXCEPT !.ignored = @ \ {c}, !.alive = @ /\ c \notin s.gone]
    BY <1>1, <1>2, <1>3, <1>5 DEF State, WithIgnored, WithAlive
<1>8. /\ SameRest(s, u) /\ SameLists(s, u) /\ SameTriggers(s, u)
      /\ u.ignored = s.ignored \ {c} /\ (u.alive => s.alive)
    BY <1>1, <1>2, <1>4, <1>6 DEF SameRest, SameLists, SameTriggers
<1>9. Matched(u, d)
    BY <1>6, <1>8, SameMatched DEF SameRest, SameLists, SameTriggers
<1>10. PICK q \in State : q = FreeAwait(u, c, d) /\ Freed(u, q, c, d) /\ SameClients(u, q)
  <2>1. u.await[c] # None /\ Apart(u.await[c]) BY <1>8, <1>9 DEF SameTriggers, Matched
  <2> QED BY <1>6, <1>9, <2>1, FreeAwaitIs DEF Matched
<1>11. /\ Matched(q, d) /\ q.await[c] = None
       /\ \A x \in Clients \ {c} : q.await[x] = u.await[x]
    BY <1>6, <1>9, <1>10, FreedMatched
<1>12. q = SyncAwaitTriggerFired(s, c, d) BY <1>7, <1>10 DEF SyncAwaitTriggerFired
<1>13. SameRest(s, q) /\ q.alarm = s.alarm
    BY <1>8, <1>10 DEF Freed, SameRest, SameTriggers
<1>14. \A x \in Clients \ {c} : q.await[x] = s.await[x] BY <1>8, <1>11 DEF SameTriggers
<1>15. d \in AllCounters => q.list[d] = s.list[d] BY <1>8, <1>10 DEF Freed, SameLists
<1>16. q.ignored = s.ignored \ {c} /\ (q.alive => s.alive) BY <1>8, <1>10 DEF SameClients
<1>17. Heeded(s, q) BY <1>11, <1>14, <1>16 DEF Heeded
<1>18. Thins(s, q)
  <2>1. \A t, k : Has(u, t, k) => Has(s, t, k) BY <1>8 DEF Has, SameTriggers
  <2>2. Thins(s, u) BY <1>8, <2>1, SameThins DEF SameLists
  <2>3. Thins(u, q) BY <1>6, <1>10, FreedThins
  <2> QED BY <2>2, <2>3, ThinsTwice
<1> QED BY <1>11, <1>12, <1>13, <1>14, <1>15, <1>16, <1>17, <1>18

(* What SyncAlarmTriggerFired does: it changes the alarm only, or ends the *)
(* server.                                                                 *)
LEMMA AlarmFiredIs ==
    ASSUME NEW s \in State, NEW a \in Alarms, s.alarm[a] # None
    PROVE  \E q \in State :
             /\ q = SyncAlarmTriggerFired(s, a)
             /\ SameRest(s, q) /\ SameLists(s, q) /\ q.await = s.await
             /\ q.ignored = s.ignored /\ (q.alive => s.alive)
             /\ q.alarm[a] # None /\ q.alarm[a].counter = s.alarm[a].counter
             /\ \A b \in Alarms \ {a} : q.alarm[b] = s.alarm[b]
             /\ (q.alive /\ Moves(s.alarm[a]) => q.alarm[a] # s.alarm[a])
<1> DEFINE x == s.alarm[a]
           now == s.value[x.counter]
           moved(n) == x.value + n * x.delta
           ends == {n \in 1..(MaxValue - MinValue + 1) :
                       moved(n) \notin Int64 \/ ~Check(x.check, now, now, moved(n))}
           first == CHOOSE n \in ends : \A m \in ends : n <= m
           Inactive == [x EXCEPT !.state = "Inactive"]
           Later == [x EXCEPT !.value = moved(first)]
           q == SyncAlarmTriggerFired(s, a)
<1>1. x \in AlarmRec /\ x = s.alarm[a] BY DEF State
<1>2. /\ x.value \in Int /\ x.delta \in Int /\ x.state \in {"Active", "Inactive"}
      /\ x.counter \in AllCounters \cup {None} /\ x.test \in Tests
    BY <1>1, Widths DEF AlarmRec
<1>3. ends # {} => first \in ends
  <2>1. ends \subseteq Nat BY Widths
  <2> HIDE DEF ends
  <2> QED BY <2>1, LeastExists
<1>4. ends # {} => first \in Nat /\ first >= 1
  <2>1. ends \subseteq 1..(MaxValue - MinValue + 1) OBVIOUS
  <2>2. PICK m \in Int : m = MaxValue - MinValue + 1 BY Widths
  <2> SUFFICES ASSUME ends # {} PROVE first \in Nat /\ first >= 1 OBVIOUS
  <2>3. first \in ends BY <1>3
  <2> HIDE DEF ends, first
  <2>4. first \in 1..m BY <2>1, <2>2, <2>3
  <2> QED BY <2>2, <2>4
<1>5. Inactive \in AlarmRec /\ Inactive.counter = x.counter /\ Inactive.state = "Inactive"
    BY <1>1 DEF AlarmRec
<1>6. \/ x.state # "Active" /\ q = s
      \/ /\ x.state = "Active" /\ (x.counter = None \/ (x.delta = 0 /\ x.test \in Comparisons))
         /\ q = [s EXCEPT !.alarm[a].state = "Inactive"]
      \/ q = [s EXCEPT !.alive = FALSE]
      \/ /\ x.state = "Active" /\ ends # {} /\ moved(first) \notin Int64
         /\ q = [s EXCEPT !.alarm[a].state = "Inactive"]
      \/ /\ x.state = "Active" /\ ends # {} /\ moved(first) \in Int64
         /\ ~(x.delta = 0 /\ x.test \in Comparisons)
         /\ q = [s EXCEPT !.alarm[a].value = moved(first)]
    BY Zenon DEF SyncAlarmTriggerFired
<1>7. [s EXCEPT !.alarm[a].state = "Inactive"] = WithAlarm(s, a, Inactive)
    BY DEF WithAlarm, State
<1>8. [s EXCEPT !.alarm[a].value = moved(first)] = WithAlarm(s, a, Later)
  <2>1. PICK v : v = moved(first) OBVIOUS
  <2> HIDE DEF moved, first
  <2> QED BY <2>1 DEF WithAlarm, State
<1> DEFINE Fine(r) ==
      /\ r \in State /\ SameRest(s, r) /\ SameLists(s, r) /\ r.await = s.await
      /\ r.ignored = s.ignored /\ (r.alive => s.alive)
      /\ r.alarm[a] # None /\ r.alarm[a].counter = s.alarm[a].counter
      /\ \A b \in Alarms \ {a} : r.alarm[b] = s.alarm[b]
      /\ (r.alive /\ Moves(s.alarm[a]) => r.alarm[a] # s.alarm[a])
<1> HIDE DEF moved, ends, first, now, q
<1>9. ASSUME NEW y \in AlarmRec, y.counter = x.counter, Moves(x) => y # x
      PROVE  Fine(WithAlarm(s, a, y))
  <2>1. PICK r : r = WithAlarm(s, a, y) OBVIOUS
  <2>2. /\ r \in State /\ SameRest(s, r) /\ SameLists(s, r) /\ SameClients(s, r)
        /\ r.await = s.await /\ r.alarm = [s.alarm EXCEPT ![a] = y]
      BY <2>1, WithAlarmIs
  <2>3. r.alarm[a] = y /\ \A b \in Alarms \ {a} : r.alarm[b] = s.alarm[b]
      BY <2>2 DEF State
  <2>4. y # None BY Widths
  <2> QED BY <1>9, <2>1, <2>2, <2>3, <2>4 DEF SameClients
<1>10. Fine(q)
  <2>1. CASE x.state # "Active" /\ q = s
    <3>1. Moves(s.alarm[a]) => FALSE BY <2>1 DEF Moves
    <3> QED BY <2>1, <3>1 DEF SameRest, SameLists
  <2>2. CASE x.state = "Active" /\ q = WithAlarm(s, a, Inactive)
    <3>1. Inactive # x BY <1>5, <2>2
    <3> HIDE DEF Fine, Inactive
    <3> QED BY <1>5, <1>9, <2>2, <3>1
  <2>3. CASE q = [s EXCEPT !.alive = FALSE]
    <3>1. PICK b \in BOOLEAN : b = FALSE OBVIOUS
    <3>2. q = WithAlive(s, b) BY <2>3, <3>1 DEF WithAlive
    <3>3. /\ q \in State /\ SameRest(s, q) /\ SameLists(s, q)
          /\ SameTriggers(s, q) /\ q.ignored = s.ignored /\ q.alive = b
        BY <3>2, WithAliveIs
    <3> QED BY <3>1, <3>3 DEF SameTriggers
  <2>4. CASE /\ ends # {} /\ moved(first) \in Int64
             /\ ~(x.delta = 0 /\ x.test \in Comparisons)
             /\ q = WithAlarm(s, a, Later)
    <3>1. PICK v \in Int64 : v = moved(first) BY <2>4
    <3>2. Later \in AlarmRec /\ Later.counter = x.counter /\ Later.value = v
        BY <1>1, <3>1 DEF AlarmRec
    <3>3. x.delta # 0 => moved(first) # x.value BY <1>2, <1>4, <2>4, MovesOn DEF moved
    <3>4. Moves(x) => x.delta # 0 BY <2>4 DEF Moves
    <3>5. Moves(x) => Later # x BY <3>1, <3>2, <3>3, <3>4
    <3> HIDE DEF Fine, Later
    <3> QED BY <1>9, <2>4, <3>2, <3>5
  <2> HIDE DEF Fine, Inactive, Later
  <2> QED BY <1>6, <1>7, <1>8, <2>1, <2>2, <2>3, <2>4, Zenon
<1> QED BY <1>10 DEF q

LEMMA AlarmKeepsMatched ==
    ASSUME NEW s \in State, NEW q \in State, NEW d, Matched(s, d), NEW a \in Alarms,
           SameRest(s, q), SameLists(s, q), q.await = s.await,
           \A b \in Alarms \ {a} : q.alarm[b] = s.alarm[b],
           \/ q.alarm[a] # None /\ s.alarm[a] # None /\ q.alarm[a].counter = s.alarm[a].counter
           \/ \A k \in AllCounters \ {d} : <<a, 0>> \notin ToSet(s.list[k])
    PROVE  Matched(q, d)
<1>1. ASSUME NEW k \in AllCounters \ {d}, NEW t \in ToSet(s.list[k]) PROVE Has(q, t, k)
  <2>1. Has(s, t, k) BY DEF Matched, Proper
  <2>2. t \in TriggerId BY ListType
  <2>3. IsAlarm(t) /\ t[1] = a => t = <<a, 0>> BY <2>2 DEF TriggerId, IsAlarm
  <2> QED BY <2>1, <2>3 DEF Has
<1> QED BY <1>1 DEF Matched, NoneTwice, Existing, Proper, SameRest, SameLists

LEMMA KeptMatched ==
    ASSUME NEW s \in State, NEW q \in State, Matched(s, None), NEW a \in Alarms,
           SameRest(s, q), SameLists(s, q), q.await = s.await,
           \A b \in Alarms \ {a} : q.alarm[b] = s.alarm[b],
           q.alarm[a] # None /\ s.alarm[a] # None /\ q.alarm[a].counter = s.alarm[a].counter
    PROVE  Matched(q, None)
    BY AlarmKeepsMatched

-----------------------------------------------------------------------------
(* A counter changes.                                                      *)

(* The owner of a trigger is as before; or it has gone off.                *)
Same(s, q, t) ==
    IF IsAlarm(t) THEN q.alarm[t[1]] = s.alarm[t[1]] ELSE q.await[t[1]] = s.await[t[1]]
WentOff(s, q, t) ==
    IF IsAlarm(t) THEN q.alive /\ Moves(s.alarm[t[1]]) => q.alarm[t[1]] # s.alarm[t[1]]
    ELSE q.await[t[1]] = None

(* No owner has two triggers in a list.                                    *)
LEMMA OwnersApart ==
    ASSUME NEW s \in State, Matched(s, None), NEW k \in AllCounters,
           NEW i \in 1..Len(s.list[k]), NEW j \in 1..Len(s.list[k]), i # j
    PROVE  s.list[k][i][1] # s.list[k][j][1]
<1>1. PICK l \in Seq(TriggerId) : l = s.list[k] BY ListType
<1>2. PICK t \in TriggerId, u \in TriggerId : t = l[i] /\ u = l[j] BY <1>1
<1>3. t # u BY <1>1, <1>2, MembersAre DEF Matched, NoneTwice
<1>4. Has(s, t, k) /\ Has(s, u, k)
  <2>1. t \in ToSet(s.list[k]) /\ u \in ToSet(s.list[k]) BY <1>1, <1>2, MembersAre
  <2> QED BY <2>1, Widths DEF Matched, Proper
<1> SUFFICES ASSUME t[1] = u[1] PROVE FALSE BY <1>1, <1>2
<1>5. t[2] # u[2] BY <1>3 DEF TriggerId
<1>6. CASE t[1] \in Alarms
  <2>1. t[2] = 0 /\ u[2] = 0 BY <1>4, <1>6, Widths DEF Has, IsAlarm
  <2> QED BY <1>5, <2>1
<1>7. CASE t[1] \notin Alarms
  <2>1. PICK w : w = s.await[t[1]] OBVIOUS
  <2>2. /\ t[1] \in Clients /\ w # None
        /\ t[2] \in 1..Len(w) /\ w[t[2]].counter = k
        /\ u[2] \in 1..Len(w) /\ w[u[2]].counter = k
      BY <1>4, <1>7, <2>1 DEF Has
  <2>3. Apart(w) BY <2>1, <2>2 DEF Matched
  <2>4. t[2] = u[2] BY <2>2, <2>3 DEF Apart
  <2> QED BY <1>5, <2>4
<1> QED BY <1>6, <1>7

(* A trigger that fires does not touch what the others belong to.          *)
LEMMA TriggerFiredIs ==
    ASSUME NEW s \in State, Matched(s, None), NEW t, NEW k \in AllCounters, Has(s, t, k)
    PROVE  \E q \in State :
             /\ q = TriggerFired(s, t)
             /\ Matched(q, None) /\ SameRest(s, q) /\ Heeded(s, q) /\ (q.alive => s.alive)
             /\ WentOff(s, q, t)
             /\ \A b \in Alarms : b # t[1] => q.alarm[b] = s.alarm[b]
             /\ \A c \in Clients : c # t[1] => q.await[c] = s.await[c]
             /\ Thins(s, q)
<1>1. CASE IsAlarm(t)
  <2>1. PICK a \in Alarms : a = t[1] /\ s.alarm[a] # None BY <1>1 DEF Has
  <2>2. PICK q \in State :
            /\ q = SyncAlarmTriggerFired(s, a)
            /\ SameRest(s, q) /\ SameLists(s, q) /\ q.await = s.await
            /\ q.ignored = s.ignored /\ (q.alive => s.alive)
            /\ q.alarm[a] # None /\ q.alarm[a].counter = s.alarm[a].counter
            /\ \A b \in Alarms \ {a} : q.alarm[b] = s.alarm[b]
            /\ (q.alive /\ Moves(s.alarm[a]) => q.alarm[a] # s.alarm[a])
      BY <2>1, AlarmFiredIs
  <2>3. q = TriggerFired(s, t) BY <1>1, <2>1, <2>2 DEF TriggerFired
  <2>4. Matched(q, None)
    <3>1. s.alarm[a] # None /\ q.alarm[a] # None /\ q.alarm[a].counter = s.alarm[a].counter
        BY <2>1, <2>2
    <3> QED BY <2>2, <3>1, KeptMatched, Zenon
  <2>5. Heeded(s, q) BY <2>2 DEF Heeded
  <2>6. WentOff(s, q, t) BY <1>1, <2>1, <2>2 DEF WentOff
  <2>7. Thins(s, q)
    <3>1. \A u, j : Has(q, u, j) => Has(s, u, j) BY <2>1, <2>2 DEF Has
    <3> QED BY <2>2, <3>1, SameThins DEF SameLists
  <2> QED BY <2>1, <2>2, <2>3, <2>4, <2>5, <2>6, <2>7
<1>2. CASE ~IsAlarm(t)
  <2>1. PICK c \in Clients : c = t[1] /\ s.await[c] # None BY <1>2 DEF Has
  <2>2. PICK q \in State :
             /\ q = SyncAwaitTriggerFired(s, c, None)
             /\ SameRest(s, q) /\ q.alarm = s.alarm /\ q.await[c] = None
             /\ \A x \in Clients \ {c} : q.await[x] = s.await[x]
             /\ Matched(q, None) /\ Heeded(s, q) /\ (q.alive => s.alive) /\ Thins(s, q)
    <3>1. None # SERVERTIME BY Widths
    <3> QED BY <2>1, <3>1, AwaitFiredIs
  <2>3. q = TriggerFired(s, t) BY <1>2, <2>1, <2>2 DEF TriggerFired
  <2>4. WentOff(s, q, t) BY <1>2, <2>1, <2>2 DEF WentOff
  <2> QED BY <2>1, <2>2, <2>3, <2>4
<1> QED BY <1>1, <1>2

(* The counter k goes to v; the first i triggers of its list were looked   *)
(* at.                                                                     *)
Comes(s, k, v, t) == Check(Trigger(s, t).check, s.value[k], v, Trigger(s, t).value)
Partway(s, k, v, q, i) ==
    /\ q \in State /\ Matched(q, None) /\ Heeded(s, q) /\ Thins(s, q)
    /\ q.value = [s.value EXCEPT ![k] = v] /\ q.owner = s.owner /\ q.gone = s.gone
    /\ \A j \in (i + 1)..Len(s.list[k]) : Same(s, q, s.list[k][j])
    /\ \A j \in 1..i : Comes(s, k, v, s.list[k][j]) => WentOff(s, q, s.list[k][j])
    /\ \A c \in Clients : q.await[c] # s.await[c] =>
           /\ q.await[c] = None
           /\ \E t \in ToSet(s.list[k]) : ~IsAlarm(t) /\ t[1] = c /\ Comes(s, k, v, t)

LEMMA FireIs ==
    ASSUME NEW s \in State, Matched(s, None), NEW k \in AllCounters, NEW v \in Int64,
           NEW n \in Nat, n = Len(s.list[k]), NEW i \in 0..(n - 1), NEW q, Partway(s, k, v, q, i)
    PROVE  Partway(s, k, v, Fire(q, s.list[k][i + 1], s.value[k]), i + 1)
<1>1. PICK l \in Seq(TriggerId) : l = s.list[k] BY ListType
<1>2. i + 1 \in 1..n OBVIOUS
<1>3. PICK t \in TriggerId : t = l[i + 1] /\ t \in ToSet(l) BY <1>1, <1>2, MembersAre
<1>4. Has(s, t, k) BY <1>1, <1>3, Widths DEF Matched, Proper
<1>5. Same(s, q, t) BY <1>1, <1>2, <1>3 DEF Partway
<1>6. Has(q, t, k) /\ Trigger(q, t) = Trigger(s, t)
    BY <1>4, <1>5 DEF Has, Same, Trigger
<1>7. CheckTrigger(q, t, s.value[k]) <=> Comes(s, k, v, t)
  <2>1. PICK x : x = Trigger(s, t) OBVIOUS
  <2>2. x.counter = k /\ k # None BY <1>4, <2>1, HasType, Widths
  <2>3. q.value[k] = v BY DEF Partway, State
  <2> QED BY <1>6, <2>1, <2>2, <2>3 DEF CheckTrigger, Comes
<1>8. \A j \in 1..n : j # i + 1 => l[j][1] # t[1]
  <2> SUFFICES ASSUME NEW j \in 1..n, j # i + 1 PROVE l[j][1] # t[1] OBVIOUS
  <2> QED BY <1>1, <1>2, <1>3, OwnersApart
<1>9. CASE ~Comes(s, k, v, t)
  <2>1. Fire(q, t, s.value[k]) = q BY <1>7, <1>9 DEF Fire
  <2>2. ASSUME NEW j \in 1..(i + 1), Comes(s, k, v, l[j]) PROVE WentOff(s, q, l[j])
    <3>1. j # i + 1 BY <1>3, <1>9, <2>2
    <3>2. j \in 1..i BY <3>1
    <3> QED BY <1>1, <2>2, <3>2 DEF Partway
  <2>3. \A j \in ((i + 1) + 1)..n : j \in (i + 1)..n OBVIOUS
  <2>4. Partway(s, k, v, q, i + 1) BY <1>1, <2>2, <2>3 DEF Partway
  <2> QED BY <1>1, <1>3, <2>1, <2>4
<1>10. CASE Comes(s, k, v, t)
  <2>1. PICK r \in State :
             /\ r = TriggerFired(q, t)
             /\ Matched(r, None) /\ SameRest(q, r) /\ Heeded(q, r) /\ (r.alive => q.alive)
             /\ WentOff(q, r, t)
             /\ \A b \in Alarms : b # t[1] => r.alarm[b] = q.alarm[b]
             /\ \A c \in Clients : c # t[1] => r.await[c] = q.await[c]
             /\ Thins(q, r)
    <3>1. q \in State /\ Matched(q, None) BY DEF Partway
    <3> QED BY <1>6, <3>1, TriggerFiredIs
  <2>2. Fire(q, t, s.value[k]) = r BY <1>7, <1>10, <2>1 DEF Fire
  <2>3. Heeded(s, r) BY <2>1 DEF Heeded, Partway
  <2>4. r.value = [s.value EXCEPT ![k] = v] /\ r.owner = s.owner /\ r.gone = s.gone
      BY <2>1 DEF SameRest, Partway
  <2>5. ASSUME NEW j \in 1..n, j # i + 1
        PROVE  /\ IsAlarm(l[j]) => r.alarm[l[j][1]] = q.alarm[l[j][1]]
               /\ ~IsAlarm(l[j]) => r.await[l[j][1]] = q.await[l[j][1]]
    <3>1. l[j] \in ToSet(s.list[k]) BY <1>1, MembersAre
    <3>2. Has(s, l[j], k) BY <3>1, Widths DEF Matched, Proper
    <3>3. l[j][1] # t[1] BY <1>8, <2>5
    <3> QED BY <2>1, <3>2, <3>3 DEF Has
  <2>6. ASSUME NEW j \in ((i + 1) + 1)..n PROVE Same(s, r, l[j])
    <3>1. j \in 1..n /\ j # i + 1 /\ j \in (i + 1)..n OBVIOUS
    <3>2. Same(s, q, l[j]) BY <1>1, <3>1 DEF Partway
    <3> QED BY <2>5, <3>1, <3>2 DEF Same
  <2>7. ASSUME NEW j \in 1..(i + 1), Comes(s, k, v, l[j]) PROVE WentOff(s, r, l[j])
    <3>1. CASE j = i + 1 BY <1>3, <1>5, <2>1, <3>1 DEF WentOff, Same
    <3>2. CASE j # i + 1
      <4>1. j \in 1..i /\ j \in 1..n BY <3>2
      <4>2. WentOff(s, q, l[j]) BY <1>1, <2>7, <4>1 DEF Partway
      <4> QED BY <2>1, <2>5, <3>2, <4>1, <4>2 DEF WentOff
    <3> QED BY <3>1, <3>2
  <2>8. ASSUME NEW c \in Clients, r.await[c] # s.await[c]
        PROVE  /\ r.await[c] = None
               /\ \E u \in ToSet(l) : ~IsAlarm(u) /\ u[1] = c /\ Comes(s, k, v, u)
    <3>1. CASE c # t[1]
      <4>1. r.await[c] = q.await[c] BY <2>1, <3>1
      <4> QED BY <1>1, <2>8, <4>1 DEF Partway
    <3>2. CASE c = t[1]
      <4>1. ~IsAlarm(t) BY <1>4, <3>2, Widths DEF Has
      <4>2. r.await[c] = None BY <2>1, <3>2, <4>1 DEF WentOff
      <4> QED BY <1>3, <1>10, <3>2, <4>1, <4>2
    <3> QED BY <3>1, <3>2
  <2>9. Thins(s, r)
    <3>1. Thins(s, q) BY DEF Partway
    <3> QED BY <2>1, <3>1, ThinsTwice
  <2>10. Partway(s, k, v, r, i + 1)
      BY <1>1, <2>1, <2>3, <2>4, <2>6, <2>7, <2>8, <2>9 DEF Partway
  <2> QED BY <1>1, <1>3, <2>2, <2>10
<1> QED BY <1>9, <1>10

LEMMA ValueMatched ==
    ASSUME NEW s \in State, Matched(s, None), NEW k \in AllCounters, NEW v \in Int64,
           NEW q, q = WithValue(s, k, v), s.value[k] # None \/ k = SERVERTIME
    PROVE  q \in State /\ Matched(q, None)
<1>1. /\ q \in State /\ SameLists(s, q) /\ SameTriggers(s, q)
      /\ q.value = [s.value EXCEPT ![k] = v]
    BY WithValueIs
<1>2. \A j \in AllCounters : q.value[j] = None => s.value[j] = None
    BY <1>1, Widths DEF State
<1>3. Existing(q) BY <1>1, <1>2, Widths DEF Existing, Matched, SameLists
<1> QED BY <1>1, <1>3, LinksMatched

LEMMA ChangeCounterIs ==
    ASSUME NEW s \in State, Matched(s, None), NoneDue(s),
           NEW k \in AllCounters, s.value[k] # None, NEW v \in Int64
    PROVE  \E q \in State :
             /\ q = SyncChangeCounter(s, k, v)
             /\ Matched(q, None) /\ Heeded(s, q) /\ NoneDue(q) /\ Thins(s, q)
             /\ q.value = [s.value EXCEPT ![k] = v] /\ q.owner = s.owner /\ q.gone = s.gone
             /\ \A t \in ToSet(s.list[k]) : Comes(s, k, v, t) => WentOff(s, q, t)
             /\ \A c \in Clients : q.await[c] # s.await[c] =>
                    /\ q.await[c] = None
                    /\ \E t \in ToSet(s.list[k]) : ~IsAlarm(t) /\ t[1] = c /\ Comes(s, k, v, t)
<1>1. PICK l \in Seq(TriggerId) : l = s.list[k] BY ListType
<1>2. PICK n \in Nat : n = Len(l) BY LenProperties
<1>3. PICK w : w = Fired(s, k, v) OBVIOUS
<1>4. w[0] = WithValue(s, k, v) /\ \A i \in 1..n : w[i] = Fire(w[i - 1], l[i], s.value[k])
  <2>1. n = Len(s.list[k]) BY <1>1, <1>2
  <2>2. /\ Fired(s, k, v)[0] = WithValue(s, k, v)
        /\ \A i \in 1..n :
               Fired(s, k, v)[i] = Fire(Fired(s, k, v)[i - 1], s.list[k][i], s.value[k])
      BY <2>1, FiredIs
  <2> QED BY <1>1, <1>3, <2>2
<1> DEFINE T == {i \in 0..n : Partway(s, k, v, w[i], i)}
<1>6. 0 \in T
  <2>1. w[0] \in State /\ Matched(w[0], None) BY <1>4, ValueMatched
  <2>2. /\ SameLists(s, w[0]) /\ SameTriggers(s, w[0]) /\ SameClients(s, w[0])
        /\ w[0].owner = s.owner /\ w[0].gone = s.gone
        /\ w[0].value = [s.value EXCEPT ![k] = v]
      BY <1>4, WithValueIs
  <2>3. Heeded(s, w[0]) BY <2>2 DEF Heeded, SameTriggers, SameClients
  <2>4. \A t : Same(s, w[0], t) BY <2>2 DEF Same, SameTriggers
  <2>5. Thins(s, w[0])
    <3>1. \A t, j : Has(w[0], t, j) => Has(s, t, j) BY <2>2 DEF Has, SameTriggers
    <3> QED BY <2>2, <3>1, SameThins DEF SameLists
  <2>6. Partway(s, k, v, w[0], 0) BY <2>1, <2>2, <2>3, <2>4, <2>5 DEF Partway, SameTriggers
  <2> QED BY <2>6
<1>7. ASSUME NEW i \in 0..(n - 1), i \in T PROVE i + 1 \in T
  <2>1. i + 1 \in 1..n /\ (i + 1) - 1 = i OBVIOUS
  <2>2. w[i + 1] = Fire(w[i], s.list[k][i + 1], s.value[k]) BY <1>1, <1>4, <2>1
  <2>3. PICK r : r = w[i] OBVIOUS
  <2>4. Partway(s, k, v, r, i) BY <1>7, <2>3
  <2>5. Partway(s, k, v, Fire(r, s.list[k][i + 1], s.value[k]), i + 1)
      BY <1>1, <1>2, <2>4, FireIs
  <2> QED BY <2>1, <2>2, <2>3, <2>5
<1>8. Partway(s, k, v, w[n], n)
  <2> HIDE DEF T
  <2>1. \A i \in 0..n : i \in T BY <1>6, <1>7, Induction
  <2> QED BY <2>1 DEF T
<1>9. PICK r : r = w[n] /\ Partway(s, k, v, r, n) BY <1>8
<1>10. r \in State /\ Matched(r, None) BY <1>9 DEF Partway
<1>11. PICK q : q = Bracket(r, k, FALSE) OBVIOUS
<1>12. q \in State /\ SameButLists(r, q) /\ q.list = r.list
  <2>1. k = SERVERTIME => Proper(r, k) BY <1>10, Widths DEF Matched
  <2> QED BY <1>10, <1>11, <2>1, BracketIs
<1>13. q = SyncChangeCounter(s, k, v)
    BY <1>1, <1>2, <1>3, <1>9, <1>11 DEF SyncChangeCounter
<1>14. Matched(q, None) BY <1>10, <1>12, SameMatched DEF SameButLists, SameRest
<1>15. Heeded(s, q) BY <1>9, <1>12 DEF Partway, Heeded, SameButLists
<1>16. q.value = [s.value EXCEPT ![k] = v] /\ q.owner = s.owner /\ q.gone = s.gone
    BY <1>9, <1>12 DEF Partway, SameButLists, SameRest
<1>17. ASSUME NEW t \in ToSet(s.list[k]), Comes(s, k, v, t) PROVE WentOff(s, q, t)
  <2>1. PICK j \in 1..n : l[j] = t BY <1>1, <1>2, MembersAre
  <2>2. WentOff(s, r, t) BY <1>1, <1>9, <1>17, <2>1 DEF Partway
  <2> QED BY <1>12, <2>2 DEF WentOff, SameButLists
<1>18. ASSUME NEW c \in Clients, q.await[c] # s.await[c]
       PROVE  /\ q.await[c] = None
              /\ \E t \in ToSet(s.list[k]) : ~IsAlarm(t) /\ t[1] = c /\ Comes(s, k, v, t)
    BY <1>9, <1>12, <1>18 DEF Partway, SameButLists
<1>19. Thins(s, q)
  <2>1. \A t, j : Has(q, t, j) => Has(r, t, j) BY <1>12 DEF Has, SameButLists
  <2>2. Thins(r, q) BY <1>12, <2>1, SameThins
  <2>3. Thins(s, r) BY <1>9 DEF Partway
  <2> QED BY <2>2, <2>3, ThinsTwice
<1>20. NoneDue(q)
  <2> SUFFICES ASSUME NEW j \in Counters, NEW t \in ToSet(q.list[j]), ~IsAlarm(t), Late(q, t, j)
               PROVE  FALSE
      BY DEF NoneDue
  <2>1. j \in AllCounters BY Widths
  <2>2. t \in ToSet(s.list[j]) BY <1>19, <2>1 DEF Thins
  <2>3. Has(q, t, j) BY <1>14, <2>1, Widths DEF Matched, Proper
  <2>4. t[1] \in Clients /\ q.await[t[1]] # None BY <2>3 DEF Has
  <2>5. Trigger(q, t) = Trigger(s, t) BY <1>18, <2>4 DEF Trigger
  <2>6. ~Late(s, t, j) BY <2>2 DEF NoneDue
  <2>7. j = k
    <3>1. j # k => q.value[j] = s.value[j] BY <1>16, <2>1 DEF State
    <3> QED BY <2>5, <2>6, <3>1 DEF Late
  <2>8. q.value[k] = v BY <1>16 DEF State
  <2>9. Comes(s, k, v, t) BY <2>5, <2>7, <2>8 DEF Late, Comes, Check, Comparisons
  <2>10. WentOff(s, q, t) BY <1>17, <2>2, <2>7, <2>9
  <2> QED BY <2>4, <2>10 DEF WentOff
<1> QED BY <1>12, <1>13, <1>14, <1>15, <1>16, <1>17, <1>18, <1>19, <1>20

-----------------------------------------------------------------------------
(* A counter is destroyed.                                                 *)

LEMMA CounterDestroyedIs ==
    ASSUME NEW s \in State, NEW d \in Counters, Matched(s, d), NEW t, Has(s, t, d)
    PROVE  \E q \in State :
             /\ q = CounterDestroyed(s, t, d)
             /\ Matched(q, d) /\ SameRest(s, q) /\ Heeded(s, q)
             /\ Thins(s, q) /\ ~Has(q, t, d) /\ (~IsAlarm(t) => q.await[t[1]] = None)
             /\ \A b \in Alarms : b # t[1] => q.alarm[b] = s.alarm[b]
             /\ \A b \in Alarms : s.alarm[b] # None => q.alarm[b] # None
             /\ \A c \in Clients : c # t[1] => q.await[c] = s.await[c]
<1>1. d \in AllCounters /\ d # None /\ d # SERVERTIME BY Widths
<1>2. CASE IsAlarm(t)
  <2>1. PICK a \in Alarms : a = t[1] /\ s.alarm[a] # None /\ s.alarm[a].counter = d
      BY <1>2 DEF Has
  <2>2. PICK x : x = [s.alarm[a] EXCEPT !.state = "Inactive", !.counter = None] OBVIOUS
  <2>3. s.alarm[a] \in AlarmRec BY <2>1 DEF State
  <2>4. x \in AlarmRec BY <2>2, <2>3 DEF AlarmRec
  <2>5. PICK q : q = WithAlarm(s, a, x) OBVIOUS
  <2>6. /\ q \in State /\ SameRest(s, q) /\ SameLists(s, q) /\ SameClients(s, q)
        /\ q.await = s.await /\ q.alarm = [s.alarm EXCEPT ![a] = x]
      BY <2>4, <2>5, WithAlarmIs
  <2>7. q.alarm[a] = x /\ \A b \in Alarms \ {a} : q.alarm[b] = s.alarm[b]
      BY <2>6 DEF State
  <2>8. q = CounterDestroyed(s, t, d)
    <3>1. q = SyncAlarmCounterDestroyed(s, a)
        BY <2>2, <2>5 DEF WithAlarm, SyncAlarmCounterDestroyed, State
    <3> QED BY <1>2, <2>1, <3>1 DEF CounterDestroyed
  <2>9. Matched(q, d)
    <3>1. ASSUME NEW k \in AllCounters \ {d}, <<a, 0>> \in ToSet(s.list[k]) PROVE FALSE
      <4>1. Has(s, <<a, 0>>, k) BY <3>1 DEF Matched, Proper
      <4>2. s.alarm[a].counter = k BY <4>1 DEF Has, IsAlarm
      <4> QED BY <2>1, <4>2
    <3> QED BY <2>6, <2>7, <3>1, AlarmKeepsMatched
  <2>10. Heeded(s, q) BY <2>6 DEF Heeded, SameClients
  <2>11. x # None BY <2>4, Widths
  <2>12. \A b \in Alarms : b # t[1] => q.alarm[b] = s.alarm[b] BY <2>1, <2>7
  <2>13. \A b \in Alarms : s.alarm[b] # None => q.alarm[b] # None BY <2>7, <2>11
  <2>14. q.alarm[a].counter = None BY <2>2, <2>3, <2>7 DEF AlarmRec
  <2>15. ~Has(q, t, d) BY <1>1, <1>2, <2>1, <2>14 DEF Has
  <2>16. Thins(s, q)
    <3>1. \A u : \A j \in AllCounters : Has(q, u, j) => Has(s, u, j)
        BY <2>6, <2>7, <2>14, Widths DEF Has
    <3> QED BY <2>6, <3>1, SameThins DEF SameLists
  <2> QED BY <1>2, <2>6, <2>8, <2>9, <2>10, <2>12, <2>13, <2>15, <2>16, Zenon
<1>3. CASE ~IsAlarm(t)
  <2>1. PICK c \in Clients : c = t[1] /\ s.await[c] # None BY <1>3 DEF Has
  <2>2. PICK q \in State :
             /\ q = SyncAwaitTriggerFired(s, c, d)
             /\ SameRest(s, q) /\ q.alarm = s.alarm /\ q.await[c] = None
             /\ \A x \in Clients \ {c} : q.await[x] = s.await[x]
             /\ Matched(q, d) /\ Heeded(s, q) /\ Thins(s, q)
      BY <1>1, <2>1, AwaitFiredIs
  <2>3. q = CounterDestroyed(s, t, d) BY <1>3, <2>1, <2>2 DEF CounterDestroyed
  <2>4. ~Has(q, t, d) BY <1>3, <2>1, <2>2 DEF Has
  <2> QED BY <1>3, <2>1, <2>2, <2>3, <2>4
<1> QED BY <1>2, <1>3

(* The counter d is destroyed; the first i triggers of its list were told. *)
Told(s, d, q, i) ==
    /\ q \in State /\ Matched(q, d) /\ SameRest(s, q) /\ Heeded(s, q) /\ Thins(s, q)
    /\ \A j \in (i + 1)..Len(s.list[d]) : Same(s, q, s.list[d][j])
    /\ \A j \in 1..i : ~Has(q, s.list[d][j], d)
    /\ \A b \in Alarms : s.alarm[b] # None => q.alarm[b] # None
    /\ \A c \in Clients : q.await[c] # s.await[c] =>
           q.await[c] = None /\ \E t \in ToSet(s.list[d]) : ~IsAlarm(t) /\ t[1] = c

LEMMA TellIs ==
    ASSUME NEW s \in State, Matched(s, None), NEW d \in Counters,
           NEW n \in Nat, n = Len(s.list[d]), NEW i \in 0..(n - 1), NEW q, Told(s, d, q, i)
    PROVE  Told(s, d, CounterDestroyed(q, s.list[d][i + 1], d), i + 1)
<1>1. d \in AllCounters /\ d # None BY Widths
<1>2. PICK l \in Seq(TriggerId) : l = s.list[d] BY <1>1, ListType
<1>3. i + 1 \in 1..n OBVIOUS
<1>4. PICK t \in TriggerId : t = l[i + 1] /\ t \in ToSet(l) BY <1>2, <1>3, MembersAre
<1>5. Has(s, t, d) BY <1>1, <1>2, <1>4 DEF Matched, Proper
<1>6. Has(q, t, d)
  <2>1. Same(s, q, t) BY <1>2, <1>3, <1>4 DEF Told
  <2> QED BY <1>5, <2>1 DEF Has, Same
<1>7. \A j \in 1..n : j # i + 1 => l[j][1] # t[1]
  <2> SUFFICES ASSUME NEW j \in 1..n, j # i + 1 PROVE l[j][1] # t[1] OBVIOUS
  <2> QED BY <1>1, <1>2, <1>3, <1>4, OwnersApart
<1>8. PICK r \in State :
             /\ r = CounterDestroyed(q, t, d)
             /\ Matched(r, d) /\ SameRest(q, r) /\ Heeded(q, r)
             /\ Thins(q, r) /\ ~Has(r, t, d) /\ (~IsAlarm(t) => r.await[t[1]] = None)
             /\ \A b \in Alarms : b # t[1] => r.alarm[b] = q.alarm[b]
             /\ \A b \in Alarms : q.alarm[b] # None => r.alarm[b] # None
             /\ \A c \in Clients : c # t[1] => r.await[c] = q.await[c]
  <2>1. q \in State /\ Matched(q, d) BY DEF Told
  <2> QED BY <1>6, <2>1, CounterDestroyedIs
<1>9. SameRest(s, r) /\ Heeded(s, r) BY <1>8 DEF Told, SameRest, Heeded
<1>10. ASSUME NEW j \in 1..n, j # i + 1
       PROVE  /\ IsAlarm(l[j]) => r.alarm[l[j][1]] = q.alarm[l[j][1]]
              /\ ~IsAlarm(l[j]) => r.await[l[j][1]] = q.await[l[j][1]]
  <2>1. l[j] \in ToSet(s.list[d]) BY <1>2, MembersAre
  <2>2. Has(s, l[j], d) BY <1>1, <2>1 DEF Matched, Proper
  <2>3. l[j][1] # t[1] BY <1>7, <1>10
  <2> QED BY <1>8, <2>2, <2>3 DEF Has
<1>11. ASSUME NEW j \in ((i + 1) + 1)..n PROVE Same(s, r, l[j])
  <2>1. j \in 1..n /\ j # i + 1 /\ j \in (i + 1)..n OBVIOUS
  <2>2. Same(s, q, l[j]) BY <1>2, <2>1 DEF Told
  <2> QED BY <1>10, <2>1, <2>2 DEF Same
<1>12. ASSUME NEW j \in 1..(i + 1) PROVE ~Has(r, l[j], d)
  <2>1. CASE j = i + 1 BY <1>4, <1>8, <2>1
  <2>2. CASE j # i + 1
    <3>1. j \in 1..i BY <2>2
    <3>2. ~Has(q, l[j], d) BY <1>2, <3>1 DEF Told
    <3> QED BY <1>1, <1>8, <3>2 DEF Thins
  <2> QED BY <2>1, <2>2
<1>13. ASSUME NEW c \in Clients, r.await[c] # s.await[c]
       PROVE  r.await[c] = None /\ \E u \in ToSet(l) : ~IsAlarm(u) /\ u[1] = c
  <2>1. CASE c # t[1]
    <3>1. r.await[c] = q.await[c] BY <1>8, <2>1
    <3> QED BY <1>2, <1>13, <3>1 DEF Told
  <2>2. CASE c = t[1]
    <3>1. ~IsAlarm(t) BY <1>5, <2>2, Widths DEF Has
    <3> QED BY <1>4, <1>8, <2>2, <3>1
  <2> QED BY <2>1, <2>2
<1>14. \A b \in Alarms : s.alarm[b] # None => r.alarm[b] # None BY <1>8 DEF Told
<1>15. Thins(s, r)
  <2>1. Thins(s, q) BY DEF Told
  <2> QED BY <1>8, <2>1, ThinsTwice
<1>16. Told(s, d, r, i + 1)
    BY <1>2, <1>8, <1>9, <1>11, <1>12, <1>13, <1>14, <1>15 DEF Told
<1> QED BY <1>2, <1>4, <1>8, <1>16

(* Values, and awaits, are as before or are no more.                       *)
LEMMA StillNotDue ==
    ASSUME NEW s \in State, NoneDue(s), NEW q \in State, Matched(q, None),
           \A k \in AllCounters : ToSet(q.list[k]) \subseteq ToSet(s.list[k]),
           \A k \in Counters : q.value[k] = s.value[k] \/ q.value[k] = None,
           \A c \in Clients : q.await[c] = s.await[c] \/ q.await[c] = None
    PROVE  NoneDue(q)
<1> SUFFICES ASSUME NEW k \in Counters, NEW t \in ToSet(q.list[k]), ~IsAlarm(t), Late(q, t, k)
             PROVE  FALSE
    BY DEF NoneDue
<1>1. k \in AllCounters /\ k # None BY Widths
<1>2. q.value[k] # None BY <1>1 DEF Matched, Existing
<1>3. Has(q, t, k) BY <1>1 DEF Matched, Proper
<1>4. t[1] \in Clients /\ q.await[t[1]] # None BY <1>3 DEF Has
<1>5. Trigger(q, t) = Trigger(s, t) BY <1>4 DEF Trigger
<1>6. ~Late(s, t, k) BY <1>1 DEF NoneDue
<1> QED BY <1>2, <1>5, <1>6 DEF Late

LEMMA FreeCounterIs ==
    ASSUME NEW s \in State, Matched(s, None), NEW d \in Counters
    PROVE  \E q \in State :
             /\ q = FreeCounter(s, d)
             /\ Matched(q, None) /\ Heeded(s, q) /\ q.gone = s.gone /\ Thins(s, q)
             /\ q.value = [s.value EXCEPT ![d] = None]
             /\ \A b \in Alarms : s.alarm[b] # None => q.alarm[b] # None
             /\ \A c \in Clients : q.await[c] # s.await[c] =>
                    /\ q.await[c] = None /\ s.value[d] # None
                    /\ \E i \in 1..Len(s.await[c]) : s.await[c][i].counter = d
<1>1. d \in AllCounters /\ d # None /\ d # SERVERTIME BY Widths
<1>2. PICK l \in Seq(TriggerId) : l = s.list[d] BY <1>1, ListType
<1>3. PICK n \in Nat : n = Len(l) BY LenProperties
<1>4. PICK w : w = AllTold(s, d) OBVIOUS
<1>5. w[0] = s /\ \A i \in 1..n : w[i] = CounterDestroyed(w[i - 1], s.list[d][i], d)
  <2>1. n = Len(s.list[d]) BY <1>2, <1>3
  <2> QED BY <1>4, <2>1, AllToldIs
<1> DEFINE T == {i \in 0..n : Told(s, d, w[i], i)}
<1>6. 0 \in T
  <2>1. Matched(s, d) BY Widths DEF Matched
  <2>2. Thins(s, s) BY SameThins
  <2>3. Told(s, d, s, 0) BY <2>1, <2>2 DEF Told, SameRest, Heeded, Same
  <2> QED BY <1>5, <2>3
<1>7. ASSUME NEW i \in 0..(n - 1), i \in T PROVE i + 1 \in T
  <2>1. i + 1 \in 1..n /\ (i + 1) - 1 = i OBVIOUS
  <2>2. w[i + 1] = CounterDestroyed(w[i], s.list[d][i + 1], d) BY <1>5, <2>1
  <2>3. PICK r : r = w[i] OBVIOUS
  <2>4. Told(s, d, r, i) BY <1>7, <2>3
  <2>5. Told(s, d, CounterDestroyed(r, s.list[d][i + 1], d), i + 1)
      BY <1>2, <1>3, <2>4, TellIs
  <2> QED BY <2>1, <2>2, <2>3, <2>5
<1>8. Told(s, d, w[n], n)
  <2> HIDE DEF T
  <2>1. \A i \in 0..n : i \in T BY <1>6, <1>7, Induction
  <2> QED BY <2>1 DEF T
<1>9. PICK r \in State : r = w[n] /\ Told(s, d, r, n) BY <1>8 DEF Told
<1>10. PICK q : q = WithoutCounter(r, d) OBVIOUS
<1>11. q = FreeCounter(s, d) BY <1>2, <1>3, <1>4, <1>9, <1>10 DEF FreeCounter
<1>12. /\ q \in State /\ SameTriggers(r, q) /\ SameClients(r, q) /\ q.gone = r.gone
       /\ q.value = [r.value EXCEPT ![d] = None] /\ q.list = [r.list EXCEPT ![d] = <<>>]
  <2>1. [r.value EXCEPT ![d] = None] \in [AllCounters -> Int64 \cup {None}] BY DEF State
  <2>2. [r.owner EXCEPT ![d] = None] \in [Counters -> Clients \cup {None}] BY DEF State
  <2>3. [r.list EXCEPT ![d] = <<>>] \in [AllCounters -> Seq(TriggerId)]
    <3>1. PICK e \in Seq(TriggerId) : e = <<>> BY EmptySeq
    <3>2. [r.list EXCEPT ![d] = e] \in [AllCounters -> Seq(TriggerId)] BY DEF State
    <3> QED BY <3>1, <3>2
  <2>4. q = [r EXCEPT !.value = [r.value EXCEPT ![d] = None],
                      !.owner = [r.owner EXCEPT ![d] = None],
                      !.list = [r.list EXCEPT ![d] = <<>>]]
      BY <1>10 DEF WithoutCounter
  <2> QED BY <2>1, <2>2, <2>3, <2>4 DEF State, SameTriggers, SameClients
<1>13. ASSUME NEW c \in Clients, r.await[c] # s.await[c]
       PROVE  /\ r.await[c] = None /\ s.value[d] # None
              /\ \E i \in 1..Len(s.await[c]) : s.await[c][i].counter = d
  <2>1. PICK t \in ToSet(s.list[d]) : ~IsAlarm(t) /\ t[1] = c BY <1>9, <1>13 DEF Told
  <2>2. Has(s, t, d) BY <1>1 DEF Matched, Proper
  <2>3. s.value[d] # None BY <1>1, <2>1 DEF Matched, Existing
  <2> QED BY <1>9, <1>13, <2>1, <2>2, <2>3 DEF Told, Has
<1>14. q.list[d] = <<>> /\ \A k \in AllCounters \ {d} : q.list[k] = r.list[k]
    BY <1>1, <1>12 DEF State
<1>15. Matched(q, None)
  <2>1. Matched(r, d) BY <1>9 DEF Told
  <2>2. NoneTwice(q)
    <3>1. IsInjective(q.list[d]) BY <1>14 DEF IsInjective
    <3> QED BY <1>14, <2>1, <3>1 DEF Matched, NoneTwice
  <2>3. ToSet(q.list[d]) = {} BY <1>14 DEF ToSet
  <2>4. \A k \in AllCounters \ {d} : q.value[k] = r.value[k] BY <1>12 DEF State
  <2>5. Existing(q) BY <1>1, <1>14, <2>1, <2>3, <2>4, Widths DEF Matched, Existing
  <2>6. \A t, k : Has(r, t, k) => Has(q, t, k) BY <1>12 DEF Has, SameTriggers
  <2>7. \A k \in AllCounters : Proper(q, k) BY <1>14, <2>1, <2>3, <2>6 DEF Matched, Proper
  <2>8. \A c \in Clients : q.await[c] # None => Apart(q.await[c])
      BY <1>12, <2>1 DEF Matched, SameTriggers
  <2> QED BY <2>2, <2>5, <2>7, <2>8 DEF Matched
<1>16. Heeded(s, q) BY <1>9, <1>12 DEF Told, Heeded, SameTriggers, SameClients
<1>17. q.gone = s.gone /\ q.value = [s.value EXCEPT ![d] = None]
    BY <1>9, <1>12 DEF Told, SameRest
<1>18. \A b \in Alarms : s.alarm[b] # None => q.alarm[b] # None
    BY <1>9, <1>12 DEF Told, SameTriggers
<1>19. ASSUME NEW k \in AllCounters
       PROVE  /\ ToSet(q.list[k]) \subseteq ToSet(s.list[k])
              /\ \A t, u : Before(q, k, t, u) => Before(s, k, t, u)
              /\ \A t : Has(q, t, k) => Has(s, t, k)
              /\ \A t \in ToSet(s.list[k]) :
                     Has(q, t, k) => t \in ToSet(q.list[k]) \/ Dropped(s, q, t, k)
  <2>1. \A t : Has(q, t, k) <=> Has(r, t, k) BY <1>12 DEF Has, SameTriggers
  <2>2. /\ ToSet(r.list[k]) \subseteq ToSet(s.list[k])
        /\ \A t, u : Before(r, k, t, u) => Before(s, k, t, u)
        /\ \A t : Has(r, t, k) => Has(s, t, k)
        /\ \A t \in ToSet(s.list[k]) :
               Has(r, t, k) => t \in ToSet(r.list[k]) \/ Dropped(s, r, t, k)
      BY <1>9 DEF Told, Thins
  <2>3. CASE k = d
    <3>1. ToSet(q.list[k]) = {} BY <1>14, <2>3 DEF ToSet
    <3>2. \A t, u : ~Before(q, k, t, u)
      <4>1. Len(q.list[k]) = 0 BY <1>14, <2>3
      <4> QED BY <4>1 DEF Before, InFront
    <3>3. ASSUME NEW t \in ToSet(s.list[k]) PROVE ~Has(q, t, k)
      <4>1. PICK j \in 1..n : s.list[d][j] = t BY <1>2, <1>3, <2>3, MembersAre
      <4> QED BY <1>9, <2>1, <2>3, <4>1 DEF Told
    <3> QED BY <2>1, <2>2, <3>1, <3>2, <3>3
  <2>4. CASE k # d
    <3>1. q.list[k] = r.list[k] BY <1>14, <2>4
    <3>2. \A t, u : Before(q, k, t, u) => Before(r, k, t, u) BY <3>1 DEF Before
    <3>3. \A t : Dropped(s, r, t, k) => Dropped(s, q, t, k) BY <2>1, Zenon DEF Dropped
    <3> QED BY <2>1, <2>2, <3>1, <3>2, <3>3, Zenon
  <2> QED BY <2>3, <2>4
<1>20. Thins(s, q) BY <1>19, Zenon DEF Thins
<1>21. \A c \in Clients : q.await[c] # s.await[c] =>
           /\ q.await[c] = None /\ s.value[d] # None
           /\ \E i \in 1..Len(s.await[c]) : s.await[c][i].counter = d
    BY <1>12, <1>13 DEF SameTriggers
<1> QED BY <1>11, <1>12, <1>15, <1>16, <1>17, <1>18, <1>20, <1>21

-----------------------------------------------------------------------------
(* The resources of a client are freed.                                    *)

(* The trigger t, which leaves the list, does not wait any more.           *)
LEMMA CutThins ==
    ASSUME NEW s, NEW q, NEW t, NEW k \in AllCounters \cup {None}, Cut(s, q, t, k),
           \A u : \A j \in AllCounters : Has(q, u, j) => Has(s, u, j),
           \A j \in AllCounters : ~Has(q, t, j)
    PROVE  Thins(s, q)
<1> SUFFICES ASSUME NEW j \in AllCounters
             PROVE  /\ ToSet(q.list[j]) \subseteq ToSet(s.list[j])
                    /\ \A u, v : Before(q, j, u, v) => Before(s, j, u, v)
                    /\ \A u : Has(q, u, j) => Has(s, u, j)
                    /\ \A u \in ToSet(s.list[j]) :
                           Has(q, u, j) => u \in ToSet(q.list[j]) \/ Dropped(s, q, u, j)
    BY Zenon DEF Thins
<1>1. j # None BY Widths
<1>2. CASE j = k
  <2>1. /\ ToSet(q.list[j]) \subseteq ToSet(s.list[j]) \ {t}
        /\ \A u, v : Before(q, j, u, v) => Before(s, j, u, v)
        /\ \A u \in ToSet(s.list[j]) :
               u \in ToSet(q.list[j]) \/ u = t \/ Before(s, j, u, t)
      BY <1>1, <1>2 DEF Cut
  <2>2. \A u : Before(s, j, u, t) => Dropped(s, q, u, j) BY Zenon DEF Dropped
  <2> QED BY <2>1, <2>2
<1>3. CASE j # k
  <2>1. q.list[j] = s.list[j] BY <1>3 DEF Cut
  <2> QED BY <2>1 DEF Before
<1> QED BY <1>2, <1>3

LEMMA AlarmLeftIs ==
    ASSUME NEW s \in State, Matched(s, None), NEW a \in Alarms, s.alarm[a] # None
    PROVE  \E q \in State :
             /\ q = SyncDeleteTriggerFromCounter(s, <<a, 0>>)
             /\ SameButLists(s, q) /\ Matched(q, None)
             /\ Cut(s, q, <<a, 0>>, s.alarm[a].counter)
             /\ \A j \in AllCounters : /\ ToSet(q.list[j]) \subseteq ToSet(s.list[j])
                                       /\ <<a, 0>> \notin ToSet(q.list[j])
<1>1. PICK t : t = <<a, 0>> /\ IsAlarm(t) /\ t[1] = a
  <2>1. IsAlarm(<<a, 0>>) /\ <<a, 0>>[1] = a BY DEF IsAlarm
  <2> QED BY <2>1
<1>2. PICK k \in AllCounters \cup {None} : k = s.alarm[a].counter
  <2>1. s.alarm[a] \in AlarmRec BY DEF State
  <2> QED BY <2>1 DEF AlarmRec
<1>3. Trigger(s, t).counter = k BY <1>1, <1>2 DEF Trigger
<1>4. NoneTwice(s) /\ Proper(s, SERVERTIME) BY Widths DEF Matched
<1>5. PICK q \in State :
             /\ q = SyncDeleteTriggerFromCounter(s, t)
             /\ SameButLists(s, q) /\ Cut(s, q, t, k)
    BY <1>3, <1>4, DeleteIs
<1>6. ASSUME NEW j \in AllCounters, t \in ToSet(s.list[j]) PROVE j = k
  <2>1. Has(s, t, j) BY <1>6, Widths DEF Matched, Proper
  <2> QED BY <1>1, <1>2, <2>1 DEF Has
<1>7. \A j \in AllCounters : ToSet(q.list[j]) \subseteq ToSet(s.list[j]) \ {t}
  <2> SUFFICES ASSUME NEW j \in AllCounters
               PROVE  ToSet(q.list[j]) \subseteq ToSet(s.list[j]) \ {t}
      OBVIOUS
  <2>1. CASE j = k BY <1>5, <2>1, Widths DEF Cut
  <2>2. CASE j # k BY <1>5, <1>6, <2>2 DEF Cut
  <2> QED BY <2>1, <2>2
<1>8. Matched(q, None)
  <2>1. Existing(q) BY <1>5, <1>7 DEF Matched, Existing, SameButLists, SameRest
  <2>2. \A u, j : Has(s, u, j) => Has(q, u, j) BY <1>5 DEF Has, SameButLists
  <2>3. \A j \in AllCounters : Proper(q, j) BY <1>7, <2>2, Widths DEF Matched, Proper
  <2>4. \A c \in Clients : q.await[c] # None => Apart(q.await[c])
      BY <1>5 DEF SameButLists, Matched
  <2> QED BY <1>5, <2>1, <2>3, <2>4 DEF Matched, Cut
<1> QED BY <1>1, <1>2, <1>5, <1>7, <1>8

LEMMA FreeAlarmIs ==
    ASSUME NEW s \in State, Matched(s, None), NEW a \in Alarms, s.alarm[a] # None
    PROVE  \E q \in State :
             /\ q = FreeAlarm(s, a)
             /\ SameRest(s, q) /\ SameClients(s, q) /\ q.await = s.await /\ Matched(q, None)
             /\ \A b \in Alarms \ {a} : q.alarm[b] = s.alarm[b]
             /\ Thins(s, q)
<1>1. PICK r \in State :
             /\ r = SyncDeleteTriggerFromCounter(s, <<a, 0>>)
             /\ SameButLists(s, r) /\ Matched(r, None)
             /\ Cut(s, r, <<a, 0>>, s.alarm[a].counter)
             /\ \A k \in AllCounters : <<a, 0>> \notin ToSet(r.list[k])
    BY AlarmLeftIs
<1>2. PICK q : q = WithAlarm(r, a, None) OBVIOUS
<1>3. /\ q \in State /\ SameRest(r, q) /\ SameLists(r, q) /\ SameClients(r, q)
      /\ q.await = r.await /\ q.alarm = [r.alarm EXCEPT ![a] = None]
    BY <1>2, WithAlarmIs
<1>4. q.alarm[a] = None /\ \A b \in Alarms \ {a} : q.alarm[b] = r.alarm[b]
    BY <1>3 DEF State
<1>5. Matched(q, None) BY <1>1, <1>3, <1>4, AlarmKeepsMatched
<1>6. q = FreeAlarm(s, a) BY <1>1, <1>2 DEF FreeAlarm, WithAlarm
<1>7. /\ SameRest(s, q) /\ SameClients(s, q) /\ q.await = s.await
      /\ \A b \in Alarms \ {a} : q.alarm[b] = s.alarm[b]
    BY <1>1, <1>3, <1>4 DEF SameButLists, SameRest, SameClients
<1>8. Thins(s, q)
  <2>1. PICK k \in AllCounters \cup {None} : k = s.alarm[a].counter
    <3>1. s.alarm[a] \in AlarmRec BY DEF State
    <3> QED BY <3>1 DEF AlarmRec
  <2>2. PICK t : t = <<a, 0>> /\ IsAlarm(t) /\ t[1] = a
    <3>1. IsAlarm(<<a, 0>>) /\ <<a, 0>>[1] = a BY DEF IsAlarm
    <3> QED BY <3>1
  <2>3. Cut(s, r, t, k) BY <1>1, <2>1, <2>2
  <2>4. Cut(s, q, t, k) BY <1>3, <2>3 DEF Cut, NoneTwice, Before, SameLists
  <2>5. \A j : ~Has(q, t, j) BY <1>4, <2>2 DEF Has
  <2>6. \A u : \A j \in AllCounters : Has(q, u, j) => Has(s, u, j)
      BY <1>4, <1>7 DEF Has
  <2> QED BY <2>4, <2>5, <2>6, CutThins
<1> QED BY <1>3, <1>5, <1>6, <1>7, <1>8

(* The first i of the resources of c are freed.                            *)
Kinds(c) == ({"counter"} \X Counters) \cup ({"alarm"} \X Alarms) \cup ({"await"} \X {c})
Others(s, q, c) ==
    \A x \in Clients \ {c} : (x \in s.ignored <=> s.await[x] # None)
                                => (x \in q.ignored <=> q.await[x] # None)
Lost(s, q, x) ==
    \E m \in 1..Len(s.await[x]) :
        LET k == s.await[x][m].counter IN s.value[k] # None /\ q.value[k] = None
Cleared(s, c, order, n, q, i) ==
    /\ q \in State /\ Matched(q, None) /\ Others(s, q, c) /\ q.gone = s.gone /\ Thins(s, q)
    /\ \A k \in AllCounters :
           q.value[k] = s.value[k] \/ (k \in Counters /\ q.value[k] = None)
    /\ \A j \in (i + 1)..n : order[j][1] = "alarm" => q.alarm[order[j][2]] # None
    /\ \A j \in 1..i : order[j][1] = "await" => q.await[order[j][2]] = None
    /\ \A x \in Clients : q.await[x] # s.await[x] =>
           /\ q.await[x] = None
           /\ x = c \/ Lost(s, q, x)

LEMMA DeleteResourceIs ==
    ASSUME NEW s \in State, NEW c \in Clients, NEW n \in Nat,
           NEW order \in [1..n -> Kinds(c)], \A i, j \in 1..n : order[i] = order[j] => i = j,
           NEW i \in 0..(n - 1), NEW q, Cleared(s, c, order, n, q, i)
    PROVE  Cleared(s, c, order, n, Delete(q, order[i + 1]), i + 1)
<1>1. i + 1 \in 1..n OBVIOUS
<1>2. PICK e \in Kinds(c) : e = order[i + 1] BY <1>1
<1>3. q \in State /\ Matched(q, None) BY DEF Cleared
<1>4. \A j \in (i + 1 + 1)..n : j \in (i + 1)..n OBVIOUS
<1>5. \A j \in 1..(i + 1) : j # i + 1 => j \in 1..i OBVIOUS
<1>6. Thins(s, q) BY DEF Cleared
<1>7. CASE e[1] = "counter"
  <2>1. PICK d \in Counters : d = e[2] BY <1>7 DEF Kinds
  <2>2. PICK r \in State :
             /\ r = FreeCounter(q, d)
             /\ Matched(r, None) /\ Heeded(q, r) /\ r.gone = q.gone /\ Thins(q, r)
             /\ r.value = [q.value EXCEPT ![d] = None]
             /\ \A b \in Alarms : q.alarm[b] # None => r.alarm[b] # None
             /\ \A x \in Clients : r.await[x] # q.await[x] =>
                    /\ r.await[x] = None /\ q.value[d] # None
                    /\ \E m \in 1..Len(q.await[x]) : q.await[x][m].counter = d
      BY <1>3, FreeCounterIs
  <2>3. r = Delete(q, e) BY <1>7, <2>1, <2>2 DEF Delete
  <2>4. Others(s, r, c) BY <2>2 DEF Cleared, Others, Heeded
  <2>5. r.value[d] = None /\ \A k \in AllCounters \ {d} : r.value[k] = q.value[k]
      BY <1>3, <2>2, Widths DEF State
  <2>6. \A k \in AllCounters :
            r.value[k] = s.value[k] \/ (k \in Counters /\ r.value[k] = None)
      BY <2>5 DEF Cleared
  <2>7. ASSUME NEW j \in (i + 1 + 1)..n, order[j][1] = "alarm" PROVE r.alarm[order[j][2]] # None
    <3>1. order[j] \in Kinds(c) OBVIOUS
    <3>2. order[j][2] \in Alarms BY <2>7, <3>1 DEF Kinds
    <3> QED BY <1>4, <2>2, <2>7, <3>2 DEF Cleared
  <2>8. \A x \in Clients : q.await[x] = None => r.await[x] = None BY <2>2
  <2>9. ASSUME NEW j \in 1..(i + 1), order[j][1] = "await" PROVE r.await[order[j][2]] = None
    <3>1. j # i + 1 BY <1>2, <1>7, <2>9
    <3>2. j \in 1..i /\ j \in 1..n BY <3>1
    <3>3. order[j][2] = c BY <2>9, <3>2 DEF Kinds
    <3> QED BY <2>8, <2>9, <3>2, <3>3 DEF Cleared
  <2>10. ASSUME NEW x \in Clients, r.await[x] # s.await[x]
         PROVE  r.await[x] = None /\ (x = c \/ Lost(s, r, x))
    <3>1. CASE q.await[x] # s.await[x]
      <4>1. q.await[x] = None /\ (x = c \/ Lost(s, q, x)) BY <3>1 DEF Cleared
      <4>2. \A k : k = d \/ r.value[k] = q.value[k] BY <1>3, <2>2 DEF State
      <4>3. Lost(s, q, x) => Lost(s, r, x) BY <2>5, <4>2, Zenon DEF Lost
      <4> QED BY <2>8, <4>1, <4>3
    <3>2. CASE q.await[x] = s.await[x]
      <4>1. /\ r.await[x] = None /\ q.value[d] # None
            /\ \E m \in 1..Len(q.await[x]) : q.await[x][m].counter = d
          BY <2>2, <2>10, <3>2
      <4>2. s.value[d] # None BY <4>1, Widths DEF Cleared
      <4> QED BY <2>5, <3>2, <4>1, <4>2 DEF Lost
    <3> QED BY <3>1, <3>2
  <2>11. Thins(s, r) BY <1>6, <2>2, ThinsTwice
  <2>12. Cleared(s, c, order, n, r, i + 1)
      BY <2>2, <2>4, <2>6, <2>7, <2>9, <2>10, <2>11 DEF Cleared
  <2> QED BY <1>2, <2>3, <2>12
<1>8. CASE e[1] = "alarm"
  <2>1. PICK a \in Alarms : a = e[2] /\ e = <<"alarm", a>> BY <1>8 DEF Kinds
  <2>2. q.alarm[a] # None
    <3>1. i + 1 \in (i + 1)..n BY <1>1
    <3> QED BY <1>2, <1>8, <2>1, <3>1 DEF Cleared
  <2>3. PICK r \in State :
             /\ r = FreeAlarm(q, a)
             /\ SameRest(q, r) /\ SameClients(q, r) /\ r.await = q.await /\ Matched(r, None)
             /\ \A b \in Alarms \ {a} : r.alarm[b] = q.alarm[b]
             /\ Thins(q, r)
      BY <1>3, <2>2, FreeAlarmIs
  <2>4. r = Delete(q, e) BY <1>8, <2>1, <2>3 DEF Delete
  <2>5. Others(s, r, c) BY <2>3 DEF Cleared, Others, SameClients
  <2>6. ASSUME NEW j \in (i + 1 + 1)..n, order[j][1] = "alarm" PROVE r.alarm[order[j][2]] # None
    <3>1. j \in 1..n /\ j # i + 1 OBVIOUS
    <3>2. order[j] \in Kinds(c) /\ order[j] # e BY <1>1, <1>2, <3>1
    <3>3. order[j][2] \in Alarms /\ order[j] = <<"alarm", order[j][2]>>
        BY <2>6, <3>2 DEF Kinds
    <3>4. order[j][2] # a BY <2>1, <3>2, <3>3
    <3> QED BY <1>4, <2>3, <2>6, <3>3, <3>4 DEF Cleared
  <2>7. ASSUME NEW j \in 1..(i + 1), order[j][1] = "await" PROVE r.await[order[j][2]] = None
    <3>1. j # i + 1 BY <1>2, <1>8, <2>7
    <3> QED BY <1>5, <2>3, <2>7, <3>1 DEF Cleared
  <2>8. Thins(s, r) BY <1>6, <2>3, ThinsTwice
  <2>9. Cleared(s, c, order, n, r, i + 1)
      BY <2>3, <2>5, <2>6, <2>7, <2>8 DEF Cleared, SameRest, Lost
  <2> QED BY <1>2, <2>4, <2>9
<1>9. CASE e[1] = "await"
  <2>1. e[2] = c BY <1>9 DEF Kinds
  <2>2. ASSUME NEW j \in 1..(i + 1), order[j][1] = "await" PROVE order[j][2] = c
      BY <2>2 DEF Kinds
  <2>3. CASE q.await[c] = None
    <3>1. q = Delete(q, e) BY <1>9, <2>1, <2>3 DEF Delete
    <3>2. Cleared(s, c, order, n, q, i + 1) BY <1>4, <2>2, <2>3 DEF Cleared
    <3> QED BY <1>2, <3>1, <3>2
  <2>4. CASE q.await[c] # None
    <3>1. None # SERVERTIME BY Widths
    <3>2. PICK r \in State : r = FreeAwait(q, c, None) /\ Freed(q, r, c, None) /\ SameClients(q, r)
      <4>1. Apart(q.await[c]) /\ NoneTwice(q) BY <1>3, <2>4 DEF Matched
      <4>2. \A k \in AllCounters \ {None} : Proper(q, k) BY <1>3 DEF Matched
      <4> QED BY <1>3, <2>4, <3>1, <4>1, <4>2, FreeAwaitIs
    <3>3. /\ Matched(r, None) /\ r.await[c] = None
          /\ \A x \in Clients \ {c} : r.await[x] = q.await[x]
        BY <1>3, <3>2, FreedMatched
    <3>4. r = Delete(q, e) BY <1>9, <2>1, <2>4, <3>2 DEF Delete
    <3>5. Others(s, r, c) BY <3>2, <3>3 DEF Cleared, Others, SameClients
    <3>6. r.value = q.value /\ r.gone = q.gone /\ r.alarm = q.alarm
        BY <3>2 DEF Freed, SameRest
    <3>7. \A x \in Clients : r.await[x] # s.await[x] =>
              r.await[x] = None /\ (x = c \/ Lost(s, r, x))
        BY <3>3, <3>6 DEF Cleared, Lost
    <3>8. Thins(s, r)
      <4>1. Thins(q, r) BY <1>3, <3>2, FreedThins
      <4> QED BY <1>6, <4>1, ThinsTwice
    <3>9. Cleared(s, c, order, n, r, i + 1)
        BY <1>4, <2>2, <3>3, <3>5, <3>6, <3>7, <3>8 DEF Cleared
    <3> QED BY <1>2, <3>4, <3>9
  <2> QED BY <2>3, <2>4
<1> QED BY <1>7, <1>8, <1>9 DEF Kinds

(* What is deleted, and what has become of the rest then.                  *)
IsOrder(s, c, order, n) ==
    /\ order \in [1..n -> Kinds(c)] /\ \A i, j \in 1..n : order[i] = order[j] => i = j
    /\ s.await[c] # None => \E j \in 1..n : order[j] = <<"await", c>>
    /\ \A j \in 1..n : order[j][1] = "alarm" => s.alarm[order[j][2]] # None
Emptied(s, q, c) ==
    /\ q \in State /\ Matched(q, None) /\ Others(s, q, c) /\ q.gone = s.gone /\ q.await[c] = None
    /\ Thins(s, q)
    /\ \A k \in AllCounters : q.value[k] = s.value[k] \/ q.value[k] = None
    /\ \A x \in Clients : q.await[x] # s.await[x] =>
           /\ q.await[x] = None
           /\ x = c \/ Lost(s, q, x)

LEMMA DeletedAll ==
    ASSUME NEW s \in State, Matched(s, None), NEW c \in Clients, NEW n \in Nat,
           NEW order, IsOrder(s, c, order, n)
    PROVE  Emptied(s, Deleted(s, order)[Len(order)], c)
<1>1. /\ order \in [1..n -> Kinds(c)] /\ \A i, j \in 1..n : order[i] = order[j] => i = j
      /\ s.await[c] # None => \E j \in 1..n : order[j] = <<"await", c>>
      /\ \A j \in 1..n : order[j][1] = "alarm" => s.alarm[order[j][2]] # None
    BY DEF IsOrder
<1>2. n = Len(order)
  <2>1. order \in Seq(Kinds(c)) BY <1>1
  <2> QED BY <1>1, <2>1
<1>3. PICK w : w = Deleted(s, order) OBVIOUS
<1>4. w[0] = s /\ \A i \in 1..n : w[i] = Delete(w[i - 1], order[i])
    BY <1>2, <1>3, DeletedIs
<1> DEFINE T == {i \in 0..n : Cleared(s, c, order, n, w[i], i)}
<1>5. 0 \in T
  <2>1. \A j \in (0 + 1)..n : j \in 1..n OBVIOUS
  <2>2. Thins(s, s) BY SameThins
  <2>3. Cleared(s, c, order, n, s, 0) BY <1>1, <2>1, <2>2 DEF Cleared, Others
  <2> QED BY <1>4, <2>3
<1>6. ASSUME NEW i \in 0..(n - 1), i \in T PROVE i + 1 \in T
  <2>1. i + 1 \in 1..n /\ (i + 1) - 1 = i OBVIOUS
  <2>2. w[i + 1] = Delete(w[i], order[i + 1]) BY <1>4, <2>1
  <2>3. PICK r : r = w[i] OBVIOUS
  <2>4. Cleared(s, c, order, n, r, i) BY <1>6, <2>3
  <2>5. Cleared(s, c, order, n, Delete(r, order[i + 1]), i + 1) BY <1>1, <2>4, DeleteResourceIs
  <2> QED BY <2>1, <2>2, <2>3, <2>5
<1>7. Cleared(s, c, order, n, w[n], n)
  <2> HIDE DEF T
  <2>1. \A i \in 0..n : i \in T BY <1>5, <1>6, Induction
  <2> QED BY <2>1 DEF T
<1>8. PICK q : q = w[n] /\ Cleared(s, c, order, n, q, n) BY <1>7
<1>9. q.await[c] = None
  <2>1. CASE s.await[c] = None BY <1>8, <2>1 DEF Cleared
  <2>2. CASE s.await[c] # None
    <3>1. PICK j \in 1..n : order[j] = <<"await", c>> BY <1>1, <2>2
    <3>2. order[j][1] = "await" /\ order[j][2] = c BY <3>1
    <3> QED BY <1>8, <3>2 DEF Cleared
  <2> QED BY <2>1, <2>2
<1>10. Emptied(s, q, c) BY <1>8, <1>9 DEF Cleared, Emptied
<1> QED BY <1>2, <1>3, <1>8, <1>10

-----------------------------------------------------------------------------
(* The actions.                                                            *)

(* No value of a counter has changed that exists before and after.         *)
Quiet(s, q) ==
    \A k \in Counters : q.value[k] = s.value[k] \/ q.value[k] = None \/ s.value[k] = None

(* The awaits that end have a reason.                                      *)
Reasons(s, q) ==
    \A c \in Clients : s.await[c] # None /\ q.await[c] = None =>
        \/ c \in q.gone
        \/ \E i \in 1..Len(s.await[c]) :
              LET x == s.await[c][i] IN
              /\ s.value[x.counter] # None
              /\ \/ q.value[x.counter] = None
                 \/ Check(x.check, s.value[x.counter], q.value[x.counter], x.value)

(* What waits in a list for the change of its counter goes off.            *)
GoesOff(s, q) ==
    \A k \in Counters :
        q.value[k] # s.value[k] /\ q.value[k] # None /\ s.value[k] # None =>
            \A t \in ToSet(s.list[k]) : Comes(s, k, q.value[k], t) => WentOff(s, q, t)

(* The conditions of an await stay in their lists; or they are dropped.    *)
Stays(s, q) ==
    \A k \in AllCounters : \A t \in ToSet(s.list[k]) :
        ~IsAlarm(t) /\ Has(q, t, k) => t \in ToSet(q.list[k]) \/ Dropped(s, q, t, k)
Placed(q, c) ==
    \A i \in 1..Len(q.await[c]) : <<c, i>> \in ToSet(q.list[q.await[c][i].counter])
Places(s, q) ==
    /\ Stays(s, q)
    /\ \A c \in Clients : q.await[c] # None => q.await[c] = s.await[c] \/ Placed(q, c)

Good(s, q) == Sound(q) /\ Reasons(s, q) /\ GoesOff(s, q) /\ Places(s, q)

LEMMA QuietGoesOff == ASSUME NEW s, NEW q, Quiet(s, q) PROVE GoesOff(s, q)
    BY DEF Quiet, GoesOff

LEMMA ThinsPlaces ==
    ASSUME NEW s, NEW q, Thins(s, q),
           \A c \in Clients : q.await[c] = s.await[c] \/ q.await[c] = None
    PROVE  Places(s, q)
    BY DEF Thins, Places, Stays

LEMMA SameAwaits == ASSUME NEW s, NEW q, q.await = s.await PROVE Reasons(s, q)
    BY DEF Reasons

(* Two states that differ in stray only, or in alive.                      *)
SameFields(s, q) ==
    /\ SameRest(s, q) /\ SameLists(s, q) /\ SameTriggers(s, q) /\ q.ignored = s.ignored
    /\ (q.alive => s.alive)

LEMMA SameSound ==
    ASSUME NEW s, Sound(s), NEW q \in State, SameFields(s, q)
    PROVE  Sound(q)
<1>1. s \in State /\ Matched(s, None) BY DEF Sound
<1>2. Matched(q, None)
    BY <1>1, SameMatched DEF SameFields, SameRest, SameLists, SameTriggers
<1>3. Waiting(q) BY DEF Sound, Waiting, SameFields, SameTriggers
<1>4. \A t : Trigger(q, t) = Trigger(s, t) BY DEF Trigger, SameFields, SameTriggers
<1>5. NoneDue(q) BY <1>4 DEF Sound, NoneDue, Late, SameFields, SameRest, SameLists
<1> QED BY <1>2, <1>3, <1>5 DEF Sound

LEMMA SameGood ==
    ASSUME NEW s, NEW q, Good(s, q), NEW p \in State, SameFields(q, p)
    PROVE  Good(s, p)
<1>1. Sound(p) BY SameSound DEF Good
<1>2. p.value = q.value /\ p.gone = q.gone /\ p.list = q.list /\ p.await = q.await
      /\ p.alarm = q.alarm
    BY DEF SameFields, SameRest, SameLists, SameTriggers
<1>3. Reasons(s, p) BY <1>2 DEF Good, Reasons
<1>4. \A t : WentOff(s, q, t) => WentOff(s, p, t) BY <1>2 DEF WentOff, SameFields
<1>5. GoesOff(s, p) BY <1>2, <1>4 DEF Good, GoesOff
<1>6. \A t, k : Has(p, t, k) <=> Has(q, t, k) BY <1>2 DEF Has
<1>7. \A t, k : Dropped(s, q, t, k) => Dropped(s, p, t, k) BY <1>6, Zenon DEF Dropped
<1>8. Stays(s, p) BY <1>2, <1>6, <1>7 DEF Good, Places, Stays
<1>9. Places(s, p) BY <1>2, <1>8 DEF Good, Places, Placed
<1> QED BY <1>1, <1>3, <1>5, <1>9 DEF Good

LEMMA StutterGood == ASSUME NEW s, Sound(s) PROVE Good(s, s)
<1>1. Quiet(s, s) BY DEF Quiet
<1>2. Thins(s, s) BY SameThins
<1> QED BY <1>1, <1>2, QuietGoesOff, ThinsPlaces, SameAwaits DEF Good

(* What a request computes becomes the state, or the server ends.          *)
LEMMA BecomesGood ==
    ASSUME Sound(S), NEW q, Good(S, q), Becomes(q)
    PROVE  Good(S, S')
<1>1. S \in State /\ q \in State BY DEF Good, Sound
<1>2. CASE S' = [q EXCEPT !.stray = FALSE]
  <2>1. PICK p : p = S' OBVIOUS
  <2>2. p \in State /\ SameFields(q, p)
      BY <1>1, <1>2, <2>1 DEF State, SameFields, SameRest, SameLists, SameTriggers
  <2> QED BY <2>1, <2>2, SameGood
<1>3. CASE S' = [S EXCEPT !.alive = FALSE]
  <2>1. PICK p : p = S' OBVIOUS
  <2>2. p \in State /\ SameFields(S, p)
      BY <1>1, <1>3, <2>1 DEF State, SameFields, SameRest, SameLists, SameTriggers
  <2> QED BY <2>1, <2>2, StutterGood, SameGood
<1> QED BY <1>2, <1>3 DEF Becomes

LEMMA CloseDownStep ==
    ASSUME Sound(S), NEW c \in Clients, CloseDownClient(c)
    PROVE  Good(S, S')
<1>1. /\ S \in State /\ Matched(S, None)
      /\ S.ignored = {x \in Clients : S.await[x] # None} /\ NoneDue(S)
    BY DEF Sound, Waiting
<1>2. Resources(c) \subseteq Kinds(c) BY DEF Resources, Kinds
<1>3. IsFiniteSet(Resources(c))
  <2>1. IsFiniteSet({"counter"}) /\ IsFiniteSet({"alarm"}) /\ IsFiniteSet({"await"})
        /\ IsFiniteSet({c})
      BY FS_Singleton
  <2>2. /\ IsFiniteSet({"counter"} \X Counters) /\ IsFiniteSet({"alarm"} \X Alarms)
        /\ IsFiniteSet({"await"} \X {c})
      BY <2>1, SyncAssumption, FS_Product
  <2>3. IsFiniteSet(({"counter"} \X Counters) \cup ({"alarm"} \X Alarms)) BY <2>2, FS_Union
  <2>4. IsFiniteSet(Kinds(c)) BY <2>2, <2>3, FS_Union DEF Kinds
  <2> QED BY <1>2, <2>4, FS_Subset
<1>4. PICK n \in Nat : n = Cardinality(Resources(c)) BY <1>3, FS_CardinalityType
<1>5. PICK s : s = [S EXCEPT !.gone = @ \cup {c}] OBVIOUS
<1>6. /\ s \in State /\ SameLists(S, s) /\ SameTriggers(S, s) /\ SameClients(S, s)
      /\ s.value = S.value /\ s.gone = S.gone \cup {c}
  <2>1. S.gone \cup {c} \in SUBSET Clients BY <1>1 DEF State
  <2> QED BY <1>1, <1>5, <2>1 DEF State, SameLists, SameTriggers, SameClients
<1>7. PICK order \in Bijection(1..n, Resources(c)) :
          Becomes([Deleted(s, order)[Len(order)] EXCEPT !.ignored = @ \ {c}])
    BY <1>4, <1>5 DEF CloseDownClient
<1>8. /\ order \in [1..n -> Kinds(c)]
      /\ \A i, j \in 1..n : order[i] = order[j] => i = j
      /\ \A e \in Resources(c) : \E j \in 1..n : order[j] = e
      /\ \A j \in 1..n : order[j] \in Resources(c)
  <2>1. order \in Bijection(1..n, Resources(c)) OBVIOUS
  <2>2. /\ order \in [1..n -> Resources(c)]
        /\ \A i, j \in 1..n : order[i] = order[j] => i = j
        /\ \A e \in Resources(c) : \E j \in 1..n : order[j] = e
    <3> HIDE DEF Resources
    <3> QED BY <2>1 DEF Bijection, Injection, Surjection, IsInjective
  <2> QED BY <1>2, <2>2
<1>9. Matched(s, None) BY <1>1, <1>6, SameMatched DEF SameLists, SameTriggers
<1>10. PICK q : q = Deleted(s, order)[Len(order)] /\ Emptied(s, q, c)
  <2>1. s.await[c] # None => \E j \in 1..n : order[j] = <<"await", c>>
    <3>1. s.await[c] # None => <<"await", c>> \in Resources(c)
        BY <1>6 DEF Resources, SameTriggers
    <3> QED BY <1>8, <3>1
  <2>2. ASSUME NEW j \in 1..n, order[j][1] = "alarm" PROVE s.alarm[order[j][2]] # None
    <3>1. order[j] \in Resources(c) BY <1>8
    <3>2. S.alarm[order[j][2]] # None BY <2>2, <3>1 DEF Resources
    <3> QED BY <1>6, <3>2 DEF SameTriggers
  <2>3. IsOrder(s, c, order, n) BY <1>8, <2>1, <2>2 DEF IsOrder
  <2> QED BY <1>6, <1>9, <2>3, DeletedAll
<1>11. PICK I \in SUBSET Clients : I = q.ignored \ {c} BY <1>10 DEF Emptied, State
<1>12. PICK r : r = WithIgnored(q, I) OBVIOUS
<1>13. Becomes(r) BY <1>7, <1>10, <1>11, <1>12 DEF WithIgnored
<1>14. /\ r \in State /\ SameRest(q, r) /\ SameLists(q, r)
       /\ SameTriggers(q, r) /\ r.ignored = I
    BY <1>10, <1>12, WithIgnoredIs DEF Emptied
<1>15. Matched(r, None)
    BY <1>10, <1>14, SameMatched DEF Emptied, SameLists, SameTriggers, SameRest
<1>16. Waiting(r)
  <2>1. \A x \in Clients : x \in s.ignored <=> s.await[x] # None
      BY <1>1, <1>6 DEF SameTriggers, SameClients
  <2>2. \A x \in Clients : x \in r.ignored <=> r.await[x] # None
      BY <1>10, <1>11, <1>14, <2>1 DEF Emptied, Others, SameTriggers
  <2> QED BY <1>14, <2>2 DEF Waiting
<1>17. r.value = q.value /\ r.await = q.await /\ r.gone = q.gone
    BY <1>14 DEF SameRest, SameTriggers
<1>18. \A k \in Counters : r.value[k] = S.value[k] \/ r.value[k] = None
    BY <1>6, <1>10, <1>17, Widths DEF Emptied
<1>19. \A x \in Clients : r.await[x] # S.await[x] =>
           r.await[x] = None /\ (x = c \/ Lost(S, r, x))
    BY <1>6, <1>10, <1>17 DEF Emptied, SameTriggers, Lost
<1>20. Thins(S, r)
  <2>1. \A t : \A k \in AllCounters : Has(s, t, k) => Has(S, t, k)
      BY <1>6 DEF Has, SameTriggers
  <2>2. Thins(S, s) BY <1>6, <2>1, SameThins DEF SameLists
  <2>3. \A t : \A k \in AllCounters : Has(r, t, k) => Has(q, t, k)
      BY <1>14 DEF Has, SameTriggers
  <2>4. Thins(q, r) BY <1>14, <2>3, SameThins DEF SameLists
  <2>5. Thins(s, q) BY <1>10 DEF Emptied
  <2> QED BY <2>2, <2>4, <2>5, ThinsTwice
<1>21. NoneDue(r) BY <1>1, <1>14, <1>15, <1>18, <1>19, <1>20, StillNotDue DEF Thins
<1>22. Reasons(S, r)
  <2> SUFFICES ASSUME NEW x \in Clients, S.await[x] # None, r.await[x] = None, x \notin r.gone
               PROVE  Lost(S, r, x)
      BY Zenon DEF Reasons, Lost
  <2>1. x # c BY <1>6, <1>10, <1>17 DEF Emptied
  <2> QED BY <1>19, <2>1
<1>23. Places(S, r) BY <1>19, <1>20, ThinsPlaces
<1>24. Quiet(S, r) BY <1>18 DEF Quiet
<1>25. Good(S, r)
    BY <1>14, <1>15, <1>16, <1>21, <1>22, <1>23, <1>24, QuietGoesOff DEF Good, Sound
<1> QED BY <1>13, <1>25, BecomesGood

LEMMA HeededWaiting ==
    ASSUME NEW s, Waiting(s), NEW q \in State, Heeded(s, q)
    PROVE  Waiting(q)
<1>1. \A x \in Clients : x \in q.ignored <=> q.await[x] # None BY DEF Waiting, Heeded
<1> QED BY <1>1 DEF Waiting, State

(* The counter k goes to v: SetCounter, ChangeCounter, and the time.       *)
LEMMA ChangeStep ==
    ASSUME Sound(S), NEW k \in AllCounters, S.value[k] # None, NEW v \in Int64
    PROVE  Good(S, SyncChangeCounter(S, k, v))
<1>1. S \in State /\ Matched(S, None) /\ Waiting(S) /\ NoneDue(S) BY DEF Sound
<1>2. PICK q \in State :
             /\ q = SyncChangeCounter(S, k, v)
             /\ Matched(q, None) /\ Heeded(S, q) /\ NoneDue(q) /\ Thins(S, q)
             /\ q.value = [S.value EXCEPT ![k] = v] /\ q.owner = S.owner /\ q.gone = S.gone
             /\ \A t \in ToSet(S.list[k]) : Comes(S, k, v, t) => WentOff(S, q, t)
             /\ \A c \in Clients : q.await[c] # S.await[c] =>
                    /\ q.await[c] = None
                    /\ \E t \in ToSet(S.list[k]) : ~IsAlarm(t) /\ t[1] = c /\ Comes(S, k, v, t)
    BY <1>1, ChangeCounterIs
<1>3. q.value[k] = v /\ \A j \in AllCounters \ {k} : q.value[j] = S.value[j]
    BY <1>1, <1>2 DEF State
<1>4. Waiting(q) BY <1>1, <1>2, HeededWaiting
<1>5. Reasons(S, q)
  <2> SUFFICES ASSUME NEW c \in Clients, S.await[c] # None, q.await[c] = None
               PROVE  \E i \in 1..Len(S.await[c]) :
                        LET x == S.await[c][i] IN
                        /\ S.value[x.counter] # None
                        /\ Check(x.check, S.value[x.counter], q.value[x.counter], x.value)
      BY Zenon DEF Reasons
  <2>1. PICK t \in ToSet(S.list[k]) : ~IsAlarm(t) /\ t[1] = c /\ Comes(S, k, v, t) BY <1>2
  <2>2. Has(S, t, k) BY <1>1, Widths DEF Matched, Proper
  <2>3. PICK x : x = S.await[c][t[2]] OBVIOUS
  <2>4. t[2] \in 1..Len(S.await[c]) /\ x.counter = k /\ Trigger(S, t) = x
      BY <2>1, <2>2, <2>3 DEF Has, Trigger
  <2>5. Check(x.check, S.value[x.counter], q.value[x.counter], x.value)
      BY <1>3, <2>1, <2>4 DEF Comes
  <2> QED BY <2>3, <2>4, <2>5
<1>6. GoesOff(S, q)
  <2> SUFFICES ASSUME NEW j \in Counters, q.value[j] # S.value[j],
                      NEW t \in ToSet(S.list[j]), Comes(S, j, q.value[j], t)
               PROVE  WentOff(S, q, t)
      BY DEF GoesOff
  <2>1. j = k BY <1>3, Widths
  <2> QED BY <1>2, <1>3, <2>1
<1>7. Places(S, q) BY <1>2, ThinsPlaces
<1> QED BY <1>2, <1>4, <1>5, <1>6, <1>7 DEF Good, Sound

LEMMA CreateCounterStep ==
    ASSUME Sound(S), NEW c \in Clients, NEW k \in Counters, NEW v \in Values,
           CreateCounter(c, k, v)
    PROVE  Good(S, S')
<1>1. S \in State /\ Matched(S, None) /\ Waiting(S) /\ NoneDue(S) BY DEF Sound
<1>2. k \in AllCounters /\ v \in Int64 BY Widths, SyncAssumption
<1>3. S.value[k] = None BY DEF CreateCounter, Exists
<1>4. PICK q : q = S' OBVIOUS
<1>5. /\ q \in State /\ q.value = [S.value EXCEPT ![k] = v] /\ q.list = S.list
      /\ q.await = S.await /\ q.alarm = S.alarm /\ q.ignored = S.ignored
  <2>1. q = [S EXCEPT !.value = [S.value EXCEPT ![k] = v],
                      !.owner = [S.owner EXCEPT ![k] = c]]
      BY <1>4 DEF CreateCounter
  <2>2. [S.value EXCEPT ![k] = v] \in [AllCounters -> Int64 \cup {None}]
      BY <1>1, <1>2 DEF State
  <2>3. [S.owner EXCEPT ![k] = c] \in [Counters -> Clients \cup {None}] BY <1>1 DEF State
  <2> QED BY <1>1, <2>1, <2>2, <2>3 DEF State
<1>6. \A j \in AllCounters : q.value[j] = IF j = k THEN v ELSE S.value[j]
    BY <1>1, <1>5 DEF State
<1>7. Existing(q) BY <1>1, <1>2, <1>5, <1>6, Widths DEF Matched, Existing
<1>8. \A t, j : Has(S, t, j) <=> Has(q, t, j) BY <1>5 DEF Has
<1>9. Matched(q, None) BY <1>1, <1>5, <1>7, <1>8 DEF Matched, NoneTwice, Proper
<1>10. NoneDue(q)
  <2> SUFFICES ASSUME NEW j \in Counters, NEW t \in ToSet(q.list[j]), ~IsAlarm(t), Late(q, t, j)
               PROVE  FALSE
      BY DEF NoneDue
  <2>1. S.value[j] # None BY <1>1, <1>5, Widths DEF Matched, Existing
  <2>2. q.value[j] = S.value[j] BY <1>3, <1>6, <2>1, Widths
  <2>3. Trigger(q, t) = Trigger(S, t) BY <1>5 DEF Trigger
  <2> QED BY <1>1, <1>5, <2>2, <2>3 DEF NoneDue, Late
<1>11. Waiting(q) BY <1>1, <1>5 DEF Waiting
<1>12. Quiet(S, q) BY <1>3, <1>6, Widths DEF Quiet
<1>13. Places(S, q) BY <1>5, <1>8, SameThins, ThinsPlaces
<1> QED BY <1>4, <1>5, <1>9, <1>10, <1>11, <1>12, <1>13, SameAwaits, QuietGoesOff
        DEF Sound, Good

LEMMA DestroyCounterStep ==
    ASSUME Sound(S), NEW c \in Clients, NEW k \in Counters, ProcSyncDestroyCounter(c, k)
    PROVE  Good(S, S')
<1>1. S \in State /\ Matched(S, None) /\ Waiting(S) /\ NoneDue(S) BY DEF Sound
<1>2. PICK q \in State :
             /\ q = FreeCounter(S, k)
             /\ Matched(q, None) /\ Heeded(S, q) /\ q.gone = S.gone /\ Thins(S, q)
             /\ q.value = [S.value EXCEPT ![k] = None]
             /\ \A x \in Clients : q.await[x] # S.await[x] =>
                    /\ q.await[x] = None /\ S.value[k] # None
                    /\ \E i \in 1..Len(S.await[x]) : S.await[x][i].counter = k
    BY <1>1, FreeCounterIs
<1>3. Becomes(q) BY <1>2 DEF ProcSyncDestroyCounter
<1>4. q.value[k] = None /\ \A j \in AllCounters \ {k} : q.value[j] = S.value[j]
    BY <1>1, <1>2, Widths DEF State
<1>5. Waiting(q) BY <1>1, <1>2, HeededWaiting
<1>6. \A j \in Counters : q.value[j] = S.value[j] \/ q.value[j] = None BY <1>4, Widths
<1>7. NoneDue(q) BY <1>1, <1>2, <1>6, StillNotDue DEF Thins
<1>8. Reasons(S, q) BY <1>2, <1>4 DEF Reasons
<1>9. Places(S, q) BY <1>2, ThinsPlaces
<1>10. Quiet(S, q) BY <1>6 DEF Quiet
<1>11. Good(S, q) BY <1>2, <1>5, <1>7, <1>8, <1>9, <1>10, QuietGoesOff DEF Sound, Good
<1> QED BY <1>3, <1>11, BecomesGood

LEMMA DestroyAlarmStep ==
    ASSUME Sound(S), NEW c \in Clients, NEW a \in Alarms, ProcSyncDestroyAlarm(c, a)
    PROVE  Good(S, S')
<1>1. S \in State /\ Matched(S, None) /\ Waiting(S) /\ NoneDue(S) BY DEF Sound
<1>2. S.alarm[a] # None BY DEF ProcSyncDestroyAlarm
<1>3. PICK q \in State :
             /\ q = FreeAlarm(S, a)
             /\ SameRest(S, q) /\ SameClients(S, q) /\ q.await = S.await /\ Matched(q, None)
             /\ Thins(S, q)
    BY <1>1, <1>2, FreeAlarmIs
<1>4. Waiting(q) BY <1>1, <1>3 DEF Waiting, SameClients
<1>5. \A j \in Counters : q.value[j] = S.value[j] BY <1>3 DEF SameRest
<1>6. NoneDue(q) BY <1>1, <1>3, <1>5, StillNotDue DEF Thins
<1>7. Quiet(S, q) BY <1>5 DEF Quiet
<1>8. Places(S, q) BY <1>3, ThinsPlaces
<1>9. Good(S, q)
    BY <1>3, <1>4, <1>6, <1>7, <1>8, SameAwaits, QuietGoesOff DEF Sound, Good
<1> QED BY <1>3, <1>9, BecomesGood DEF ProcSyncDestroyAlarm

-----------------------------------------------------------------------------
(* SyncInitTrigger.                                                        *)

LEMMA WrapIs == \A v : v \in Int => Wrap(v) \in Int64
    BY Widths DEF Wrap, Int64

LEMMA QueriedIs ==
    ASSUME NEW s \in State, Existing(s), clock \in Int64, NEW k \in AllCounters \cup {None}
    PROVE  \E q \in State :
             /\ q = Queried(s, k)
             /\ SameLists(s, q) /\ SameTriggers(s, q) /\ SameClients(s, q)
             /\ q.owner = s.owner /\ q.gone = s.gone /\ Existing(q)
             /\ \A j \in Counters : q.value[j] = s.value[j]
             /\ k # None /\ s.value[k] # None => q.value[k] \in Int64
<1>1. CASE k # SERVERTIME
  <2>1. s = Queried(s, k) BY <1>1 DEF Queried
  <2>2. k # None /\ s.value[k] # None => s.value[k] \in Int64 BY DEF State
  <2> QED BY <2>1, <2>2 DEF SameLists, SameTriggers, SameClients
<1>2. CASE k = SERVERTIME
  <2>1. PICK v \in Int64 : v = clock OBVIOUS
  <2>2. PICK q : q = WithValue(s, SERVERTIME, v) OBVIOUS
  <2>3. SERVERTIME \in AllCounters BY Widths
  <2>4. /\ q \in State /\ SameLists(s, q) /\ SameTriggers(s, q) /\ SameClients(s, q)
        /\ q.owner = s.owner /\ q.gone = s.gone
        /\ q.value = [s.value EXCEPT ![SERVERTIME] = v]
      BY <2>2, <2>3, WithValueIs
  <2>5. q.value[SERVERTIME] = v /\ \A j \in AllCounters \ {SERVERTIME} : q.value[j] = s.value[j]
      BY <2>3, <2>4 DEF State
  <2>6. Existing(q) BY <2>4, <2>5, Widths DEF Existing, SameLists
  <2>7. q = Queried(s, k) BY <1>2, <2>1, <2>2 DEF Queried, WithValue
  <2> QED BY <1>2, <2>4, <2>5, <2>6, <2>7, Widths
<1> QED BY <1>1, <1>2

LEMMA AddMatched ==
    ASSUME NEW s \in State, NEW t \in TriggerId, Matched(s, None),
           NEW k \in AllCounters \cup {None}, Trigger(s, t).counter = k,
           k # None => Has(s, t, k) /\ t \notin ToSet(s.list[k]) /\ s.value[k] # None
    PROVE  \E q \in State :
             /\ q = SyncAddTriggerToCounter(s, t)
             /\ SameButLists(s, q) /\ Matched(q, None) /\ Put(s, q, t, k)
<1>1. NoneTwice(s) /\ Proper(s, SERVERTIME) BY Widths DEF Matched
<1>2. PICK q \in State :
             /\ q = SyncAddTriggerToCounter(s, t)
             /\ SameButLists(s, q) /\ Put(s, q, t, k)
    BY <1>1, AddIs
<1>3. \A u, j : Has(s, u, j) => Has(q, u, j) BY <1>2 DEF Has, SameButLists
<1>4. \A j \in AllCounters : ToSet(q.list[j]) =
          IF j = k THEN ToSet(s.list[j]) \cup {t} ELSE ToSet(s.list[j])
    BY <1>2, Widths DEF Put
<1>5. \A j \in AllCounters : Proper(q, j) BY <1>3, <1>4, Widths DEF Matched, Proper
<1>6. Existing(q) BY <1>2, <1>4, Widths DEF Matched, Existing, SameButLists, SameRest
<1>7. \A c \in Clients : q.await[c] # None => Apart(q.await[c])
    BY <1>2 DEF Matched, SameButLists
<1>8. Matched(q, None) BY <1>2, <1>5, <1>6, <1>7 DEF Matched, Put
<1> QED BY <1>2, <1>8

(* The alarm a gets other attributes; no await changes, nor a counter of a *)
(* client, and no condition comes into a list.                             *)
AlarmGiven(s, q, a) ==
    /\ q \in State /\ Matched(q, None) /\ q.alarm[a] # None
    /\ q.await = s.await /\ q.ignored = s.ignored /\ q.owner = s.owner /\ q.gone = s.gone
    /\ \A k \in Counters : q.value[k] = s.value[k]
    /\ \A k \in AllCounters : \A t \in ToSet(q.list[k]) : ~IsAlarm(t) => t \in ToSet(s.list[k])

LEMMA AlarmGivenOn ==
    ASSUME NEW s, NEW q, NEW r, NEW a, AlarmGiven(s, q, a), AlarmGiven(q, r, a)
    PROVE  AlarmGiven(s, r, a)
    BY DEF AlarmGiven

(* The conditions of awaits stay in their lists; or they were in front of  *)
(* the trigger of a, which waits for another counter then, or for none.    *)
AlarmPlaces(s, q, a) ==
    \A k \in AllCounters : \A t \in ToSet(s.list[k]) :
        ~IsAlarm(t) => t \in ToSet(q.list[k]) \/ (Before(s, k, t, <<a, 0>>) /\ ~Has(q, <<a, 0>>, k))

LEMMA PlacesOn ==
    ASSUME NEW p, NEW s, NEW q, NEW r, NEW a, SameLists(p, s), AlarmPlaces(s, q, a),
           SameLists(q, r), \A k : Has(r, <<a, 0>>, k) => Has(q, <<a, 0>>, k)
    PROVE  AlarmPlaces(p, r, a)
    BY DEF SameLists, AlarmPlaces, Before

(* What is left when the trigger of a was deleted, if it moves.            *)
Left(s, q, a, moves) ==
    IF moves THEN Cut(s, q, <<a, 0>>, s.alarm[a].counter) ELSE q = s

LEMMA LeftPlaces ==
    ASSUME NEW s \in State, NEW left, NEW q, NEW a, NEW moves, Left(s, left, a, moves),
           \A k \in AllCounters : ToSet(left.list[k]) \subseteq ToSet(q.list[k]),
           moves => \A k : Has(q, <<a, 0>>, k) => k # s.alarm[a].counter
    PROVE  AlarmPlaces(s, q, a)
<1> SUFFICES ASSUME NEW k \in AllCounters, NEW t \in ToSet(s.list[k]), ~IsAlarm(t),
                    t \notin ToSet(left.list[k])
             PROVE  Before(s, k, t, <<a, 0>>) /\ ~Has(q, <<a, 0>>, k)
    BY DEF AlarmPlaces
<1>1. moves BY DEF Left
<1>2. Cut(s, left, <<a, 0>>, s.alarm[a].counter) BY <1>1 DEF Left
<1>3. k = s.alarm[a].counter BY <1>2 DEF Cut
<1>4. k # None /\ t # <<a, 0>> BY Widths DEF IsAlarm
<1>5. Before(s, k, t, <<a, 0>>) BY <1>2, <1>3, <1>4 DEF Cut
<1> QED BY <1>1, <1>3, <1>5

(* The trigger of a waits in no list.                                      *)
Unlisted(s, a) == \A k \in AllCounters : <<a, 0>> \notin ToSet(s.list[k])

LEMMA NoCounterUnlisted ==
    ASSUME NEW s \in State, Matched(s, None), NEW a, s.alarm[a].counter = None
    PROVE  Unlisted(s, a)
<1> SUFFICES ASSUME NEW k \in AllCounters, <<a, 0>> \in ToSet(s.list[k]) PROVE FALSE
    BY DEF Unlisted
<1>1. Has(s, <<a, 0>>, k) BY Widths DEF Matched, Proper
<1> QED BY <1>1, Widths DEF Has, IsAlarm

(* The lists are the same; or the trigger of a came into one.              *)
Grown(s, q, a) ==
    \A k \in AllCounters :
        /\ ToSet(s.list[k]) \subseteq ToSet(q.list[k])
        /\ ToSet(q.list[k]) \subseteq ToSet(s.list[k]) \cup {<<a, 0>>}

LEMMA InitAlarmIs ==
    ASSUME NEW s \in State, Matched(s, None), NEW a \in Alarms, s.alarm[a] # None,
           NEW x \in Setting, clock \in Int64
    PROVE  /\ AlarmGiven(s, SyncInitTrigger(s, <<a, 0>>, x).s, a)
           /\ ~SyncInitTrigger(s, <<a, 0>>, x).ok /\ s.alarm[a].counter = None
                  => Unlisted(SyncInitTrigger(s, <<a, 0>>, x).s, a)
           /\ AlarmPlaces(s, SyncInitTrigger(s, <<a, 0>>, x).s, a)
<1>1. PICK t \in TriggerId : t = <<a, 0>> /\ IsAlarm(t) /\ t[1] = a
  <2>1. <<a, 0>> \in TriggerId /\ IsAlarm(<<a, 0>>) /\ <<a, 0>>[1] = a
      BY DEF TriggerId, IsAlarm
  <2> QED BY <2>1
<1>2. s.alarm[a] \in AlarmRec BY DEF State
<1>3. /\ x.counter \in AllCounters \cup {None} /\ x.test \in Tests /\ x.wait \in Int64
      /\ x.relative \in BOOLEAN
    BY DEF Setting
<1> DEFINE moves == x.counter # Trigger(s, t).counter
<1>4. moves <=> x.counter # s.alarm[a].counter BY <1>1 DEF Trigger
<1>5. PICK left \in State :
          /\ left = IF moves THEN SyncDeleteTriggerFromCounter(s, t) ELSE s
          /\ SameButLists(s, left) /\ Matched(left, None) /\ Left(s, left, a, moves)
          /\ \A k \in AllCounters : ToSet(left.list[k]) \subseteq ToSet(s.list[k])
          /\ moves \/ s.alarm[a].counter = None => Unlisted(left, a)
  <2>1. CASE moves
    <3> HIDE DEF moves
    <3>1. PICK q \in State :
             /\ q = SyncDeleteTriggerFromCounter(s, <<a, 0>>)
             /\ SameButLists(s, q) /\ Matched(q, None)
             /\ Cut(s, q, <<a, 0>>, s.alarm[a].counter)
             /\ \A j \in AllCounters : /\ ToSet(q.list[j]) \subseteq ToSet(s.list[j])
                                       /\ <<a, 0>> \notin ToSet(q.list[j])
        BY AlarmLeftIs
    <3> QED BY <1>1, <2>1, <3>1 DEF Unlisted, Left
  <2>2. CASE ~moves
    <3> HIDE DEF moves
    <3>1. SameButLists(s, s) BY DEF SameButLists, SameRest
    <3> QED BY <2>2, <3>1, NoCounterUnlisted DEF Left
  <2> QED BY <2>1, <2>2
<1>6. left.alarm = s.alarm /\ left.await = s.await /\ left.value = s.value
    BY <1>5 DEF SameButLists, SameRest
<1>7. AlarmGiven(s, left, a) BY <1>5, <1>6 DEF AlarmGiven, SameButLists, SameRest
<1>8. \/ SyncInitTrigger(s, t, x) = [s |-> s, ok |-> FALSE]
      \/ /\ x.counter = None /\ x.relative
         /\ SyncInitTrigger(s, t, x) =
              [s |-> [left EXCEPT !.alarm[t[1]].counter = None, !.alarm[t[1]].check = x.test],
               ok |-> FALSE]
      \/ /\ x.counter # None => Exists(s, x.counter)
         /\ ~(x.counter = None /\ x.relative)
         /\ SyncInitTrigger(s, t, x) = Listed(Attributed(Queried(left, x.counter), t, x), t, moves)
    BY <1>5, Zenon DEF SyncInitTrigger
<1> HIDE DEF moves
<1>9. CASE SyncInitTrigger(s, t, x) = [s |-> s, ok |-> FALSE]
  <2>1. AlarmGiven(s, s, a) /\ AlarmPlaces(s, s, a) BY DEF AlarmGiven, AlarmPlaces
  <2> QED BY <1>1, <1>9, <2>1, NoCounterUnlisted
<1>10. CASE /\ x.counter = None /\ x.relative
            /\ SyncInitTrigger(s, t, x) =
                 [s |-> [left EXCEPT !.alarm[t[1]].counter = None, !.alarm[t[1]].check = x.test],
                  ok |-> FALSE]
  <2>1. PICK y : y = [s.alarm[a] EXCEPT !.counter = None, !.check = x.test] OBVIOUS
  <2>2. y \in AlarmRec /\ y.counter = None BY <1>2, <1>3, <2>1 DEF AlarmRec
  <2>3. PICK q : q = WithAlarm(left, a, y) OBVIOUS
  <2>4. [left EXCEPT !.alarm[t[1]].counter = None, !.alarm[t[1]].check = x.test] = q
      BY <1>1, <1>6, <2>1, <2>3 DEF WithAlarm, State
  <2>5. /\ q \in State /\ SameRest(left, q) /\ SameLists(left, q) /\ SameClients(left, q)
        /\ q.await = left.await /\ q.alarm = [left.alarm EXCEPT ![a] = y]
      BY <2>2, <2>3, WithAlarmIs
  <2>6. q.alarm[a] = y /\ \A b \in Alarms \ {a} : q.alarm[b] = left.alarm[b]
      BY <2>5 DEF State
  <2>7. Unlisted(left, a) BY <1>4, <1>5, <1>10
  <2>8. Matched(q, None) BY <1>5, <2>5, <2>6, <2>7, AlarmKeepsMatched DEF Unlisted
  <2>9. AlarmGiven(left, q, a)
      BY <2>2, <2>5, <2>6, <2>8, Widths DEF AlarmGiven, SameRest, SameClients, SameLists
  <2>10. AlarmGiven(s, q, a) BY <1>7, <2>9, AlarmGivenOn
  <2>11. Unlisted(q, a) BY <2>5, <2>7 DEF Unlisted, SameLists
  <2>12. AlarmPlaces(s, q, a)
    <3>1. \A k \in AllCounters : ToSet(left.list[k]) \subseteq ToSet(q.list[k])
        BY <2>5 DEF SameLists
    <3>2. moves => \A k : Has(q, <<a, 0>>, k) => k # s.alarm[a].counter
        BY <1>1, <1>4, <1>10, <2>2, <2>6 DEF Has, IsAlarm
    <3> QED BY <1>5, <3>1, <3>2, LeftPlaces
  <2> QED BY <1>1, <1>10, <2>4, <2>10, <2>11, <2>12
<1>11. CASE /\ x.counter # None => Exists(s, x.counter)
            /\ ~(x.counter = None /\ x.relative)
            /\ SyncInitTrigger(s, t, x) = Listed(Attributed(Queried(left, x.counter), t, x), t, moves)
  <2>1. PICK u \in State :
            /\ u = Queried(left, x.counter) /\ AlarmGiven(left, u, a) /\ u.alarm = s.alarm
            /\ SameLists(left, u)
            /\ x.counter # None => u.value[x.counter] \in Int64
    <3>1. Existing(left) BY <1>5 DEF Matched
    <3>2. PICK u \in State :
             /\ u = Queried(left, x.counter)
             /\ SameLists(left, u) /\ SameTriggers(left, u) /\ SameClients(left, u)
             /\ u.owner = left.owner /\ u.gone = left.gone /\ Existing(u)
             /\ \A j \in Counters : u.value[j] = left.value[j]
             /\ x.counter # None /\ left.value[x.counter] # None => u.value[x.counter] \in Int64
        BY <1>3, <3>1, QueriedIs
    <3>3. Matched(u, None) BY <1>5, <3>2, LinksMatched
    <3>4. AlarmGiven(left, u, a)
        BY <1>6, <3>2, <3>3 DEF AlarmGiven, SameTriggers, SameClients, SameLists
    <3>5. x.counter # None => left.value[x.counter] # None BY <1>6, <1>11 DEF Exists
    <3> QED BY <1>6, <3>2, <3>4, <3>5 DEF SameTriggers
  <2>2. PICK sum : sum = x.wait + IF x.relative THEN u.value[x.counter] ELSE 0 OBVIOUS
  <2>3. sum \in Int
    <3>1. x.relative => u.value[x.counter] \in Int BY <1>11, <2>1, Widths
    <3>2. x.wait \in Int BY <1>3, Widths
    <3> QED BY <1>3, <2>2, <3>1, <3>2
  <2>4. PICK y : y = With(u.alarm[a], x, Wrap(sum)) OBVIOUS
  <2>5. y \in AlarmRec /\ y.counter = x.counter
    <3>1. PICK v \in Int64 : v = Wrap(sum) BY <2>3, WrapIs
    <3>2. y = [s.alarm[a] EXCEPT !.counter = x.counter, !.check = x.test, !.value = v]
        BY <2>1, <2>4, <3>1 DEF With
    <3> QED BY <1>2, <1>3, <3>2 DEF AlarmRec
  <2>6. PICK z : z = WithAlarm(u, a, y) OBVIOUS
  <2>7. /\ z \in State /\ SameRest(u, z) /\ SameLists(u, z) /\ SameClients(u, z)
        /\ z.await = u.await /\ z.alarm = [u.alarm EXCEPT ![a] = y]
      BY <2>5, <2>6, WithAlarmIs
  <2>8. z.alarm[a] = y /\ \A b \in Alarms \ {a} : z.alarm[b] = u.alarm[b]
      BY <2>7 DEF State
  <2>9. Matched(u, None) BY <2>1 DEF AlarmGiven
  <2>10. Matched(z, None)
    <3>1. CASE moves
      <4>1. \A k \in AllCounters : <<a, 0>> \notin ToSet(u.list[k])
          BY <1>5, <2>1, <3>1 DEF SameLists, Unlisted
      <4> QED BY <2>7, <2>8, <2>9, <4>1, AlarmKeepsMatched
    <3>2. CASE ~moves
      <4>1. z.alarm[a] # None /\ u.alarm[a] # None /\ z.alarm[a].counter = u.alarm[a].counter
          BY <1>4, <2>1, <2>5, <2>8, <3>2, Widths
      <4> QED BY <2>7, <2>8, <2>9, <4>1, AlarmKeepsMatched
    <3> QED BY <3>1, <3>2
  <2>11. AlarmGiven(u, z, a)
      BY <2>5, <2>7, <2>8, <2>10, Widths DEF AlarmGiven, SameRest, SameClients, SameLists
  <2>12. AlarmGiven(s, z, a) BY <1>7, <2>1, <2>11, AlarmGivenOn
  <2>13. Attributed(Queried(left, x.counter), t, x) = [s |-> z, ok |-> sum \in Int64]
    <3>1. z = [u EXCEPT !.alarm[t[1]] = With(@, x, Wrap(sum))]
        BY <1>1, <2>4, <2>6 DEF WithAlarm, State
    <3> QED BY <1>1, <2>1, <2>2, <3>1, Zenon DEF Attributed
  <2>14. SyncInitTrigger(s, t, x) = Listed([s |-> z, ok |-> sum \in Int64], t, moves)
      BY <1>11, <2>13
  <2>15. ASSUME NEW q, Grown(z, q, a), q.alarm = z.alarm PROVE AlarmPlaces(s, q, a)
    <3>1. \A k \in AllCounters : ToSet(left.list[k]) \subseteq ToSet(q.list[k])
        BY <2>1, <2>7, <2>15 DEF SameLists, Grown
    <3>2. moves => \A k : Has(q, <<a, 0>>, k) => k # s.alarm[a].counter
        BY <1>1, <1>4, <2>5, <2>8, <2>15 DEF Has, IsAlarm
    <3> QED BY <1>5, <3>1, <3>2, LeftPlaces
  <2>16. CASE sum \notin Int64
    <3>1. (sum \in Int64) = FALSE BY <2>16
    <3>2. Listed([s |-> z, ok |-> FALSE], t, moves) = [s |-> z, ok |-> FALSE] BY DEF Listed
    <3>3. SyncInitTrigger(s, t, x) = [s |-> z, ok |-> FALSE] BY <2>14, <3>1, <3>2, Zenon
    <3>4. SyncInitTrigger(s, t, x).s = z BY <3>3
    <3>5. s.alarm[a].counter = None => Unlisted(z, a)
        BY <1>5, <2>1, <2>7 DEF Unlisted, SameLists
    <3>6. AlarmPlaces(s, z, a) BY <2>15 DEF Grown
    <3> QED BY <1>1, <2>12, <3>4, <3>5, <3>6
  <2>17. CASE sum \in Int64
    <3>1. Trigger(z, t).counter = x.counter BY <1>1, <2>5, <2>8 DEF Trigger
    <3>2. SyncInitTrigger(s, t, x).s =
              IF moves THEN SyncAddTriggerToCounter(z, t) ELSE Bracket(z, x.counter, TRUE)
        BY <2>14, <2>17, <3>1 DEF Listed
    <3>3. \E q \in State : /\ q = SyncInitTrigger(s, t, x).s
                           /\ SameButLists(z, q) /\ Matched(q, None) /\ Grown(z, q, a)
      <4>1. CASE moves
        <5>2. ASSUME x.counter # None
              PROVE  /\ Has(z, t, x.counter) /\ t \notin ToSet(z.list[x.counter])
                     /\ z.value[x.counter] # None
          <6>1. Has(z, t, x.counter) BY <1>1, <2>5, <2>8, Widths DEF Has
          <6>2. x.counter \in AllCounters BY <1>3, <5>2
          <6>3. t \notin ToSet(z.list[x.counter])
              BY <1>1, <1>5, <2>1, <2>7, <4>1, <6>2 DEF SameLists, Unlisted
          <6>4. z.value[x.counter] # None BY <2>1, <2>7, <5>2, Widths DEF SameRest
          <6> QED BY <6>1, <6>3, <6>4
        <5>3. PICK q \in State :
                 /\ q = SyncAddTriggerToCounter(z, t)
                 /\ SameButLists(z, q) /\ Matched(q, None) /\ Put(z, q, t, x.counter)
            BY <1>1, <1>3, <2>7, <2>10, <3>1, <5>2, AddMatched
        <5>4. Grown(z, q, a) BY <1>1, <5>3, Widths DEF Grown, Put
        <5> QED BY <3>2, <4>1, <5>3, <5>4
      <4>2. CASE ~moves
        <5>1. PICK q : q = Bracket(z, x.counter, TRUE) OBVIOUS
        <5>2. Proper(z, SERVERTIME) BY <2>10, Widths DEF Matched
        <5>3. q \in State /\ SameButLists(z, q) /\ q.list = z.list
            BY <2>7, <5>1, <5>2, BracketIs
        <5>4. Matched(q, None) BY <2>7, <2>10, <5>3, SameMatched DEF SameButLists, SameRest
        <5>5. Grown(z, q, a) BY <5>3 DEF Grown
        <5> QED BY <3>2, <4>2, <5>1, <5>3, <5>4, <5>5
      <4> QED BY <4>1, <4>2
    <3>4. PICK q \in State : /\ q = SyncInitTrigger(s, t, x).s
                             /\ SameButLists(z, q) /\ Matched(q, None) /\ Grown(z, q, a)
        BY <3>3
    <3>5. AlarmGiven(z, q, a)
        BY <1>1, <2>5, <2>8, <3>4, Widths DEF AlarmGiven, SameButLists, SameRest, Grown
    <3>6. SyncInitTrigger(s, t, x).ok BY <2>14, <2>17 DEF Listed
    <3>7. AlarmGiven(s, q, a) BY <2>12, <3>5, AlarmGivenOn
    <3>8. AlarmPlaces(s, q, a) BY <2>15, <3>4 DEF SameButLists
    <3> QED BY <1>1, <3>4, <3>6, <3>7, <3>8
  <2> QED BY <2>16, <2>17
<1> QED BY <1>8, <1>9, <1>10, <1>11

LEMMA AlarmReplaced ==
    ASSUME NEW s \in State, Matched(s, None), NEW a \in Alarms,
           s.alarm[a] # None, NEW y \in AlarmRec, y.counter = s.alarm[a].counter
    PROVE  /\ AlarmGiven(s, WithAlarm(s, a, y), a) /\ SameLists(s, WithAlarm(s, a, y))
           /\ WithAlarm(s, a, y).alarm[a] = y
           /\ \A k : Has(WithAlarm(s, a, y), <<a, 0>>, k) => Has(s, <<a, 0>>, k)
<1>1. PICK q : q = WithAlarm(s, a, y) OBVIOUS
<1>2. /\ q \in State /\ SameRest(s, q) /\ SameLists(s, q) /\ SameClients(s, q)
      /\ q.await = s.await /\ q.alarm = [s.alarm EXCEPT ![a] = y]
    BY <1>1, WithAlarmIs
<1>3. q.alarm[a] = y /\ \A b \in Alarms \ {a} : q.alarm[b] = s.alarm[b] BY <1>2 DEF State
<1>4. Matched(q, None) BY <1>2, <1>3, Widths, AlarmKeepsMatched
<1>5. AlarmGiven(s, q, a) BY <1>2, <1>3, <1>4, Widths DEF AlarmGiven, SameRest, SameClients, SameLists
<1>6. \A k : Has(q, <<a, 0>>, k) => Has(s, <<a, 0>>, k) BY <1>3 DEF Has, IsAlarm
<1> QED BY <1>1, <1>2, <1>3, <1>5, <1>6

LEMMA AttributesIs ==
    ASSUME NEW s \in State, Matched(s, None), NEW a \in Alarms, s.alarm[a] # None,
           NEW x \in Setting, clock \in Int64
    PROVE  /\ AlarmGiven(s, SyncChangeAlarmAttributes(s, a, x).s, a)
           /\ ~SyncChangeAlarmAttributes(s, a, x).ok /\ s.alarm[a].counter = None
                  => Unlisted(SyncChangeAlarmAttributes(s, a, x).s, a)
           /\ AlarmPlaces(s, SyncChangeAlarmAttributes(s, a, x).s, a)
<1>1. s.alarm[a] \in AlarmRec BY DEF State
<1>2. x.test \in Tests /\ x.delta \in Int64 BY DEF Setting
<1>3. PICK y : y = [s.alarm[a] EXCEPT !.test = x.test, !.delta = x.delta] OBVIOUS
<1>4. y \in AlarmRec /\ y.counter = s.alarm[a].counter BY <1>1, <1>2, <1>3 DEF AlarmRec
<1>5. PICK u : u = WithAlarm(s, a, y) OBVIOUS
<1>6. u = [s EXCEPT !.alarm[a].test = x.test, !.alarm[a].delta = x.delta]
    BY <1>3, <1>5 DEF WithAlarm, State
<1>7. AlarmGiven(s, u, a) /\ u.alarm[a] = y /\ SameLists(s, u) BY <1>4, <1>5, AlarmReplaced
<1>8. u \in State /\ Matched(u, None) /\ u.alarm[a] # None BY <1>7 DEF AlarmGiven
<1>9. PICK r : r = SyncInitTrigger(u, <<a, 0>>, x) OBVIOUS
<1>10. /\ AlarmGiven(u, r.s, a)
       /\ ~r.ok /\ u.alarm[a].counter = None => Unlisted(r.s, a)
       /\ AlarmPlaces(u, r.s, a)
    BY <1>8, <1>9, InitAlarmIs
<1>11. AlarmGiven(s, r.s, a) BY <1>7, <1>10, AlarmGivenOn
<1>12. AlarmPlaces(s, r.s, a) BY <1>7, <1>10, PlacesOn DEF SameLists
<1>13. \/ SyncChangeAlarmAttributes(s, a, x) = Activated(r, a)
       \/ SyncChangeAlarmAttributes(s, a, x) = [s |-> u, ok |-> FALSE]
    BY <1>6, <1>9, Zenon DEF SyncChangeAlarmAttributes
<1>14. CASE SyncChangeAlarmAttributes(s, a, x) = Activated(r, a) /\ r.ok
  <2>1. r.s \in State /\ Matched(r.s, None) /\ r.s.alarm[a] # None BY <1>10 DEF AlarmGiven
  <2>2. r.s.alarm[a] \in AlarmRec BY <2>1 DEF State
  <2>3. PICK z : z = [r.s.alarm[a] EXCEPT !.state = "Active"] OBVIOUS
  <2>4. z \in AlarmRec /\ z.counter = r.s.alarm[a].counter BY <2>2, <2>3 DEF AlarmRec
  <2>5. /\ AlarmGiven(r.s, WithAlarm(r.s, a, z), a) /\ SameLists(r.s, WithAlarm(r.s, a, z))
        /\ \A k : Has(WithAlarm(r.s, a, z), <<a, 0>>, k) => Has(r.s, <<a, 0>>, k)
      BY <2>1, <2>4, AlarmReplaced
  <2>6. AlarmGiven(s, WithAlarm(r.s, a, z), a) BY <1>11, <2>5, AlarmGivenOn
  <2>7. Activated(r, a) = [r EXCEPT !.s = WithAlarm(r.s, a, z)]
      BY <1>14, <2>1, <2>3 DEF Activated, WithAlarm, State
  <2>8. \E v, b : r = [s |-> v, ok |-> b]
    <3>1. \/ \E v, b : r = [s |-> v, ok |-> b]
          \/ \E v, m : r = Listed(Attributed(v, <<a, 0>>, x), <<a, 0>>, m)
        BY <1>9, Zenon DEF SyncInitTrigger
    <3>2. ASSUME NEW v, NEW m
          PROVE  \E z1, b : Listed(Attributed(v, <<a, 0>>, x), <<a, 0>>, m) = [s |-> z1, ok |-> b]
      <4>1. PICK z1, b : Attributed(v, <<a, 0>>, x) = [s |-> z1, ok |-> b] BY Zenon DEF Attributed
      <4> QED BY <4>1 DEF Listed
    <3> QED BY <3>1, <3>2, Zenon
  <2>9. Activated(r, a).s = WithAlarm(r.s, a, z) /\ Activated(r, a).ok = r.ok
      BY <2>7, <2>8
  <2>10. AlarmPlaces(s, WithAlarm(r.s, a, z), a) BY <1>12, <2>5, PlacesOn DEF SameLists
  <2> QED BY <1>14, <2>6, <2>9, <2>10
<1>15. CASE SyncChangeAlarmAttributes(s, a, x) = Activated(r, a) /\ ~r.ok
  <2>1. SyncChangeAlarmAttributes(s, a, x) = r BY <1>15 DEF Activated
  <2> QED BY <1>4, <1>7, <1>10, <1>11, <1>12, <2>1
<1>16. CASE SyncChangeAlarmAttributes(s, a, x) = [s |-> u, ok |-> FALSE]
  <2>1. s.alarm[a].counter = None => Unlisted(u, a)
      BY <1>4, <1>7, <1>8, NoCounterUnlisted
  <2>2. AlarmPlaces(s, u, a) BY <1>7 DEF SameLists, AlarmPlaces
  <2> QED BY <1>7, <1>16, <2>1, <2>2
<1> QED BY <1>13, <1>14, <1>15, <1>16

LEMMA AlarmedIs ==
    ASSUME NEW s \in State, Matched(s, None), NEW a \in Alarms, s.alarm[a] # None
    PROVE  /\ AlarmGiven(s, Alarmed(s, a), a) /\ SameLists(s, Alarmed(s, a))
           /\ \A k : Has(Alarmed(s, a), <<a, 0>>, k) => Has(s, <<a, 0>>, k)
<1>1. CASE Alarmed(s, a) = s BY <1>1 DEF AlarmGiven, SameLists
<1>2. CASE Alarmed(s, a) = SyncAlarmTriggerFired(s, a)
  <2>1. PICK q \in State :
             /\ q = SyncAlarmTriggerFired(s, a)
             /\ SameRest(s, q) /\ SameLists(s, q) /\ q.await = s.await
             /\ q.ignored = s.ignored
             /\ q.alarm[a] # None /\ q.alarm[a].counter = s.alarm[a].counter
             /\ \A b \in Alarms \ {a} : q.alarm[b] = s.alarm[b]
      BY AlarmFiredIs
  <2>2. Matched(q, None) BY <2>1, AlarmKeepsMatched
  <2>3. AlarmGiven(s, q, a) BY <2>1, <2>2 DEF AlarmGiven, SameRest, SameLists
  <2>4. \A k : Has(q, <<a, 0>>, k) => Has(s, <<a, 0>>, k) BY <2>1 DEF Has, IsAlarm
  <2> QED BY <1>2, <2>1, <2>3, <2>4
<1> QED BY <1>1, <1>2 DEF Alarmed

(* What an alarm is given touches no await, and no counter of a client.    *)
LEMMA AlarmStep ==
    ASSUME Sound(S), NEW q \in State, Matched(q, None), NEW a, AlarmPlaces(S, q, a),
           q.await = S.await, q.ignored = S.ignored,
           \A k \in Counters : q.value[k] = S.value[k],
           \A k \in AllCounters : \A t \in ToSet(q.list[k]) :
               ~IsAlarm(t) => t \in ToSet(S.list[k])
    PROVE  Good(S, q)
<1>1. Waiting(q) BY DEF Sound, Waiting
<1>2. NoneDue(q)
  <2> SUFFICES ASSUME NEW k \in Counters, NEW t \in ToSet(q.list[k]), ~IsAlarm(t), Late(q, t, k)
               PROVE  FALSE
      BY DEF NoneDue
  <2>1. t \in ToSet(S.list[k]) BY Widths
  <2>2. Trigger(q, t) = Trigger(S, t) BY DEF Trigger
  <2> QED BY <2>1, <2>2 DEF Sound, NoneDue, Late
<1>3. Stays(S, q) BY DEF AlarmPlaces, Stays, Dropped
<1>4. Places(S, q) BY <1>3 DEF Places
<1>5. Quiet(S, q) BY DEF Quiet
<1> QED BY <1>1, <1>2, <1>4, <1>5, SameAwaits, QuietGoesOff DEF Sound, Good

LEMMA AlarmGivenStep ==
    ASSUME Sound(S), NEW q, NEW a, AlarmGiven(S, q, a), AlarmPlaces(S, q, a)
    PROVE  Good(S, q)
    BY AlarmStep DEF AlarmGiven

LEMMA CreateAlarmStep ==
    ASSUME Sound(S), clock \in Int64, NEW c \in Clients, NEW a \in Alarms,
           NEW x \in AlarmSettings, ProcSyncCreateAlarm(c, a, x)
    PROVE  Good(S, S')
<1>1. S \in State /\ Matched(S, None) BY DEF Sound
<1>2. x \in Setting BY SyncAssumption
<1>3. PICK y : y = [client |-> c, counter |-> None, check |-> "PositiveComparison",
                    value |-> 0, test |-> "PositiveComparison", delta |-> 1,
                    state |-> "Inactive"]
    OBVIOUS
<1>4. y \in AlarmRec /\ y.counter = None
  <2>1. 1 \in Int64 BY Widths DEF Int64
  <2> QED BY <1>3, <2>1, Widths DEF AlarmRec, Tests, Comparisons
<1>5. PICK s : s = WithAlarm(S, a, y) OBVIOUS
<1>6. /\ s \in State /\ SameRest(S, s) /\ SameLists(S, s) /\ SameClients(S, s)
      /\ s.await = S.await /\ s.alarm = [S.alarm EXCEPT ![a] = y]
    BY <1>1, <1>4, <1>5, WithAlarmIs
<1>7. s.alarm[a] = y /\ \A b \in Alarms \ {a} : s.alarm[b] = S.alarm[b]
    BY <1>1, <1>6 DEF State
<1>8. Matched(s, None)
  <2>1. ASSUME NEW k \in AllCounters, <<a, 0>> \in ToSet(S.list[k]) PROVE FALSE
    <3>1. Has(S, <<a, 0>>, k) BY <1>1, <2>1, Widths DEF Matched, Proper
    <3>2. S.alarm[a] = None BY DEF ProcSyncCreateAlarm
    <3> QED BY <3>1, <3>2 DEF Has, IsAlarm
  <2> QED BY <1>1, <1>6, <1>7, <2>1, AlarmKeepsMatched
<1>9. PICK r : r = SyncChangeAlarmAttributes(s, a, x) OBVIOUS
<1>10. S' = Created(r, a, x)
    BY <1>3, <1>5, <1>9 DEF ProcSyncCreateAlarm, WithAlarm
<1>11. AlarmGiven(s, r.s, a) /\ (~r.ok => Unlisted(r.s, a)) /\ AlarmPlaces(s, r.s, a)
    BY <1>2, <1>4, <1>6, <1>7, <1>8, <1>9, Widths, AttributesIs
<1>12. r.s \in State /\ Matched(r.s, None) /\ r.s.alarm[a] # None BY <1>11 DEF AlarmGiven
<1>13. ASSUME NEW q \in State, Matched(q, None), q.await = r.s.await, q.ignored = r.s.ignored,
              \A k \in Counters : q.value[k] = r.s.value[k], SameLists(r.s, q),
              \A k : Has(q, <<a, 0>>, k) => Has(r.s, <<a, 0>>, k), S' = q
       PROVE  Good(S, S')
  <2>1. AlarmPlaces(S, q, a) BY <1>6, <1>11, <1>13, PlacesOn
  <2>2. /\ q.await = S.await /\ q.ignored = S.ignored
        /\ \A k \in Counters : q.value[k] = S.value[k]
      BY <1>6, <1>11, <1>13, Widths DEF AlarmGiven, SameClients, SameRest
  <2>3. \A k \in AllCounters : \A t \in ToSet(q.list[k]) : ~IsAlarm(t) => t \in ToSet(S.list[k])
      BY <1>6, <1>11, <1>13 DEF AlarmGiven, SameLists
  <2> QED BY <1>13, <2>1, <2>2, <2>3, AlarmStep
<1>14. CASE ~r.ok
  <2>1. PICK q : q = WithAlarm(r.s, a, None) OBVIOUS
  <2>2. S' = q BY <1>10, <1>14, <2>1 DEF Created, WithAlarm
  <2>3. /\ q \in State /\ SameRest(r.s, q) /\ SameLists(r.s, q) /\ SameClients(r.s, q)
        /\ q.await = r.s.await /\ q.alarm = [r.s.alarm EXCEPT ![a] = None]
      BY <1>12, <2>1, WithAlarmIs
  <2>4. \A b \in Alarms \ {a} : q.alarm[b] = r.s.alarm[b] BY <1>12, <2>3 DEF State
  <2>5. Matched(q, None)
    <3>1. \A k \in AllCounters \ {None} : <<a, 0>> \notin ToSet(r.s.list[k])
        BY <1>11, <1>14 DEF Unlisted
    <3>2. PICK u \in State : u = r.s BY <1>12
    <3>3. /\ Matched(u, None) /\ SameRest(u, q) /\ SameLists(u, q) /\ q.await = u.await
          /\ \A b \in Alarms \ {a} : q.alarm[b] = u.alarm[b]
          /\ \A k \in AllCounters \ {None} : <<a, 0>> \notin ToSet(u.list[k])
        BY <1>12, <2>3, <2>4, <3>1, <3>2
    <3>4. q \in State BY <2>3
    <3> QED BY <3>3, <3>4, AlarmKeepsMatched
  <2>6. \A k : ~Has(q, <<a, 0>>, k)
    <3>1. q.alarm[a] = None BY <1>12, <2>3 DEF State
    <3> QED BY <3>1 DEF Has, IsAlarm
  <2> QED BY <1>13, <2>2, <2>3, <2>5, <2>6 DEF SameClients, SameRest
<1>15. CASE r.ok /\ x.counter = None
  <2>1. r.s.alarm[a] \in AlarmRec BY <1>12 DEF State
  <2>2. PICK z : z = [r.s.alarm[a] EXCEPT !.state = "Inactive"] OBVIOUS
  <2>3. z \in AlarmRec /\ z.counter = r.s.alarm[a].counter BY <2>1, <2>2 DEF AlarmRec
  <2>4. PICK q : q = WithAlarm(r.s, a, z) OBVIOUS
  <2>5. /\ AlarmGiven(r.s, q, a) /\ SameLists(r.s, q)
        /\ \A k : Has(q, <<a, 0>>, k) => Has(r.s, <<a, 0>>, k)
      BY <1>12, <2>3, <2>4, AlarmReplaced
  <2>6. S' = q BY <1>10, <1>12, <1>15, <2>2, <2>4 DEF Created, WithAlarm, State
  <2> QED BY <1>13, <2>5, <2>6 DEF AlarmGiven
<1>16. CASE r.ok /\ x.counter # None
  <2>1. S' = Alarmed(r.s, a) BY <1>10, <1>16 DEF Created
  <2>2. PICK q : q = Alarmed(r.s, a) OBVIOUS
  <2>3. /\ AlarmGiven(r.s, q, a) /\ SameLists(r.s, q)
        /\ \A k : Has(q, <<a, 0>>, k) => Has(r.s, <<a, 0>>, k)
      BY <1>12, <2>2, AlarmedIs
  <2> QED BY <1>13, <2>1, <2>2, <2>3 DEF AlarmGiven
<1> QED BY <1>14, <1>15, <1>16

LEMMA ChangeAlarmStep ==
    ASSUME Sound(S), clock \in Int64, NEW c \in Clients, NEW a \in Alarms,
           NEW x \in AlarmSettings, ProcSyncChangeAlarm(c, a, x)
    PROVE  Good(S, S')
<1>1. S \in State /\ Matched(S, None) BY DEF Sound
<1>2. x \in Setting BY SyncAssumption
<1>3. S.alarm[a] # None BY DEF ProcSyncChangeAlarm
<1>4. PICK r : r = SyncChangeAlarmAttributes(S, a, x) OBVIOUS
<1>5. AlarmGiven(S, r.s, a) /\ AlarmPlaces(S, r.s, a)
    BY <1>1, <1>2, <1>3, <1>4, AttributesIs
<1>6. r.s \in State /\ Matched(r.s, None) /\ r.s.alarm[a] # None BY <1>5 DEF AlarmGiven
<1>7. PICK q : q = Changed(r, a) OBVIOUS
<1>8. AlarmGiven(S, q, a) /\ AlarmPlaces(S, q, a)
  <2>1. CASE r.ok
    <3>1. q = Alarmed(r.s, a) BY <1>7, <2>1 DEF Changed
    <3>2. /\ AlarmGiven(r.s, q, a) /\ SameLists(r.s, q)
          /\ \A k : Has(q, <<a, 0>>, k) => Has(r.s, <<a, 0>>, k)
        BY <1>6, <3>1, AlarmedIs
    <3> QED BY <1>5, <3>2, AlarmGivenOn, PlacesOn DEF SameLists
  <2>2. CASE ~r.ok BY <1>5, <1>7, <2>2 DEF Changed
  <2> QED BY <2>1, <2>2
<1>9. Good(S, q) BY <1>8, AlarmGivenStep
<1>10. Becomes(q) BY <1>4, <1>7 DEF ProcSyncChangeAlarm
<1> QED BY <1>9, <1>10, BecomesGood

-----------------------------------------------------------------------------
(* Await requests.                                                         *)

LEMMA AppendIs ==
    ASSUME NEW X, NEW w \in Seq(X), NEW x \in X, NEW n \in Nat, n = Len(w)
    PROVE  /\ Append(w, x) \in Seq(X) /\ Len(Append(w, x)) = n + 1
           /\ \A i \in 1..n : Append(w, x)[i] = w[i]
           /\ Append(w, x)[n + 1] = x
    OBVIOUS

LEMMA FrontIs ==
    ASSUME NEW w \in Seq(TriggerRec), NEW v \in Seq(TriggerRec), NEW n \in Nat, n = Len(w),
           Len(v) = n + 1, \A i \in 1..n : v[i] = w[i]
    PROVE  Front(v) = w
<1>1. PICK f : f = SubSeq(v, 1, n) OBVIOUS
<1>2. f \in Seq(TriggerRec) /\ Len(f) = n /\ \A i \in 1..n : f[i] = v[i] BY <1>1
<1>3. f = w BY <1>2
<1>4. Len(v) - 1 = n OBVIOUS
<1> QED BY <1>1, <1>3, <1>4 DEF Front

LEMMA LastOrBefore == \A n \in Nat : \A i \in 1..(n + 1) : i \notin 1..n => i = n + 1
    OBVIOUS

(* Conditions of c came to the heads of lists, and nothing else.           *)
Grows(s, q, c) ==
    \A k \in AllCounters :
        /\ ToSet(s.list[k]) \subseteq ToSet(q.list[k])
        /\ \A t \in ToSet(q.list[k]) : t \in ToSet(s.list[k]) \/ t[1] = c
        /\ \A t, u : Before(q, k, t, u) => Before(s, k, t, u) \/ t[1] = c

LEMMA SameGrows == ASSUME NEW s, NEW q, NEW c, q.list = s.list PROVE Grows(s, q, c)
    BY DEF Grows, Before

LEMMA GrowsTwice ==
    ASSUME NEW s, NEW q, NEW p, NEW c, Grows(s, q, c), Grows(q, p, c)
    PROVE  Grows(s, p, c)
    BY DEF Grows

(* The await of c has one more condition; or else it is as it was, and an  *)
(* error was found.                                                        *)
Initialised(s, q, c) ==
    /\ q \in State /\ Matched(q, None) /\ q.ignored = s.ignored /\ Grows(s, q, c)
    /\ \A k \in Counters : q.value[k] = s.value[k]
    /\ \A x \in Clients \ {c} : q.await[x] = s.await[x]

LEMMA ConditionFails ==
    ASSUME NEW s \in State, Matched(s, None), NEW c \in Clients, s.await[c] # None,
           NEW z \in State, SameLists(s, z), z.alarm = s.alarm, z.ignored = s.ignored,
           Existing(z), \A k \in Counters : z.value[k] = s.value[k],
           \A x \in Clients \ {c} : z.await[x] = s.await[x],
           NEW q, q = WithAwait(z, c, s.await[c])
    PROVE  Initialised(s, q, c) /\ q.await[c] = s.await[c]
<1>1. s.await[c] \in Seq(TriggerRec) BY DEF State
<1>2. /\ q \in State /\ SameRest(z, q) /\ SameLists(z, q)
      /\ SameClients(z, q) /\ q.alarm = z.alarm
      /\ q.await = [z.await EXCEPT ![c] = s.await[c]]
    BY <1>1, WithAwaitIs
<1>3. q.await = s.await BY <1>2 DEF State
<1>4. Existing(q) BY <1>2 DEF Existing, SameRest, SameLists
<1>5. Matched(q, None) BY <1>2, <1>3, <1>4, LinksMatched DEF SameLists, SameTriggers
<1>6. Grows(s, q, c) BY <1>2, SameGrows DEF SameLists
<1> QED BY <1>2, <1>3, <1>5, <1>6 DEF Initialised, SameRest, SameClients

OneMore(s, c, w, n, x, p) ==
    /\ Initialised(s, p.s, c) /\ p.s.await[c] # None
    /\ p.ok => /\ Len(p.s.await[c]) = n + 1
               /\ \A i \in 1..n : p.s.await[c][i] = w[i]
               /\ p.s.await[c][n + 1].counter = x.counter
               /\ <<c, n + 1>> \in ToSet(p.s.list[x.counter])

LEMMA InitConditionIs ==
    ASSUME NEW s \in State, Matched(s, None), NEW c \in Clients, clock \in Int64,
           NEW w \in Seq(TriggerRec), w = s.await[c], NEW n \in Nat, n = Len(w),
           NEW x \in Condition, \A i \in 1..n : w[i].counter # x.counter,
           NEW r, r.s = s, r.ok
    PROVE  OneMore(s, c, w, n, x, InitCondition(r, c, x))
<1>1. /\ x.counter \in AllCounters /\ x.counter # None /\ x.test \in Tests
      /\ x.wait \in Int64 /\ x.relative \in BOOLEAN
    BY Widths DEF Condition
<1>2. w # None BY Widths
<1>3. PICK b \in TriggerRec : b = Blank(x) /\ b.counter = None
  <2>1. Blank(x) \in TriggerRec BY <1>1, Widths DEF Blank, TriggerRec
  <2>2. Blank(x).counter = None BY DEF Blank
  <2> QED BY <2>1, <2>2
<1>4. PICK w1 \in Seq(TriggerRec) :
          w1 = Append(w, b) /\ Len(w1) = n + 1 /\ (\A i \in 1..n : w1[i] = w[i]) /\ w1[n + 1] = b
  <2>1. /\ Append(w, b) \in Seq(TriggerRec) /\ Len(Append(w, b)) = n + 1
        /\ \A i \in 1..n : Append(w, b)[i] = w[i]
        /\ Append(w, b)[n + 1] = b
      BY AppendIs
  <2> QED BY <2>1
<1>5. PICK more : more = WithAwait(s, c, w1) OBVIOUS
<1>6. /\ more \in State /\ SameRest(s, more) /\ SameLists(s, more)
      /\ SameClients(s, more) /\ more.alarm = s.alarm
      /\ more.await = [s.await EXCEPT ![c] = w1]
    BY <1>5, WithAwaitIs
<1>7. more.await[c] = w1 /\ \A y \in Clients \ {c} : more.await[y] = s.await[y]
    BY <1>6 DEF State
<1>8. PICK t \in TriggerId : t = <<c, n + 1>> /\ ~IsAlarm(t) /\ t[1] = c /\ t[2] = n + 1
  <2>1. /\ <<c, n + 1>> \in TriggerId /\ ~IsAlarm(<<c, n + 1>>)
        /\ <<c, n + 1>>[1] = c /\ <<c, n + 1>>[2] = n + 1
      BY DEF TriggerId, IsAlarm
  <2> QED BY <2>1
<1>9. InitCondition(r, c, x) = Counted(SyncInitTrigger(more, t, x), c)
  <2>1. more = [r.s EXCEPT !.await[c] = Append(@, Blank(x))]
      BY <1>3, <1>4, <1>5 DEF WithAwait, State
  <2>2. t = <<c, Len(more.await[c])>> BY <1>4, <1>7, <1>8
  <2> QED BY <2>1, <2>2, Zenon DEF InitCondition
<1>10. Trigger(more, t).counter = None BY <1>3, <1>4, <1>7, <1>8 DEF Trigger
<1>11. Existing(s) /\ Existing(more) BY <1>6 DEF Matched, Existing, SameRest, SameLists
<1>12. PICK u \in State :
             /\ u = Queried(more, x.counter)
             /\ SameLists(more, u) /\ SameTriggers(more, u) /\ SameClients(more, u)
             /\ u.owner = more.owner /\ u.gone = more.gone /\ Existing(u)
             /\ \A j \in Counters : u.value[j] = more.value[j]
             /\ x.counter # None /\ more.value[x.counter] # None => u.value[x.counter] \in Int64
    BY <1>1, <1>6, <1>11, QueriedIs
<1>13. \/ SyncInitTrigger(more, t, x) = [s |-> more, ok |-> FALSE]
       \/ /\ Exists(more, x.counter)
          /\ SyncInitTrigger(more, t, x) = Listed(Attributed(u, t, x), t, TRUE)
  <2>1. x.counter # Trigger(more, t).counter BY <1>1, <1>10
  <2>2. SyncDeleteTriggerFromCounter(more, t) = more
      BY <1>10 DEF SyncDeleteTriggerFromCounter
  <2>3. (x.counter # Trigger(more, t).counter) = TRUE BY <2>1
  <2> QED BY <1>1, <1>12, <2>2, <2>3, Zenon DEF SyncInitTrigger
<1>14. ASSUME NEW z \in State, SameLists(s, z), z.alarm = s.alarm, z.ignored = s.ignored,
              Existing(z), \A k \in Counters : z.value[k] = s.value[k],
              \A y \in Clients \ {c} : z.await[y] = s.await[y],
              NEW v \in Seq(TriggerRec), z.await[c] = v, Len(v) = n + 1,
              \A i \in 1..n : v[i] = w[i],
              SyncInitTrigger(more, t, x) = [s |-> z, ok |-> FALSE]
       PROVE  \E p : /\ p = InitCondition(r, c, x)
                     /\ Initialised(s, p.s, c) /\ p.s.await[c] # None /\ ~p.ok
  <2>1. Len(v) = n + 1 /\ \A i \in 1..n : v[i] = w[i] BY <1>14
  <2>2. Front(v) = w BY <2>1, FrontIs
  <2>3. PICK q : q = WithAwait(z, c, w) OBVIOUS
  <2>4. Initialised(s, q, c) /\ q.await[c] = w BY <1>2, <1>14, <2>3, ConditionFails
  <2>5. PICK p : p = [s |-> q, ok |-> FALSE] OBVIOUS
  <2>6. q = [z EXCEPT !.await[c] = Front(v)]
      BY <2>2, <2>3, Zenon DEF WithAwait
  <2>7. PICK e : e = [s |-> z, ok |-> FALSE] /\ e.s = z /\ e.ok = FALSE
    <3>1. [s |-> z, ok |-> FALSE].s = z /\ [s |-> z, ok |-> FALSE].ok = FALSE OBVIOUS
    <3> QED BY <3>1
  <2>8. Counted(e, c) = [e EXCEPT !.s = [z EXCEPT !.await[c] = Front(v)]]
      BY <1>14, <2>7 DEF Counted
  <2>9. Counted(e, c) = p BY <2>5, <2>6, <2>7, <2>8
  <2>10. p.s = q /\ ~p.ok BY <2>5
  <2> QED BY <1>2, <1>9, <1>14, <2>4, <2>7, <2>9, <2>10
<1>15. CASE SyncInitTrigger(more, t, x) = [s |-> more, ok |-> FALSE]
  <2>1. /\ more.ignored = s.ignored /\ \A k \in Counters : more.value[k] = s.value[k]
      BY <1>6 DEF SameClients, SameRest
  <2>2. \E p : /\ p = InitCondition(r, c, x)
               /\ Initialised(s, p.s, c) /\ p.s.await[c] # None /\ ~p.ok
      BY <1>4, <1>6, <1>7, <1>11, <1>14, <1>15, <2>1
  <2> QED BY <2>2 DEF OneMore
<1>16. CASE /\ Exists(more, x.counter)
            /\ SyncInitTrigger(more, t, x) = Listed(Attributed(u, t, x), t, TRUE)
  <2>1. u.value[x.counter] \in Int64 BY <1>1, <1>12, <1>16 DEF Exists
  <2>2. PICK sum : sum = x.wait + IF x.relative THEN u.value[x.counter] ELSE 0 OBVIOUS
  <2>3. sum \in Int BY <1>1, <2>1, <2>2, Widths
  <2>4. PICK y : y = With(w1[n + 1], x, Wrap(sum)) OBVIOUS
  <2>5. y \in TriggerRec /\ y.counter = x.counter
    <3>1. PICK v \in Int64 : v = Wrap(sum) BY <2>3, WrapIs
    <3>2. y = [b EXCEPT !.counter = x.counter, !.check = x.test, !.value = v]
        BY <1>4, <2>4, <3>1 DEF With
    <3> QED BY <1>1, <3>2 DEF TriggerRec
  <2>6. PICK w2 : w2 = [w1 EXCEPT ![n + 1] = y] OBVIOUS
  <2>7. /\ w2 \in Seq(TriggerRec) /\ Len(w2) = n + 1
        /\ \A i \in 1..n : w2[i] = w[i]
        /\ w2[n + 1] = y
    <3>1. n + 1 \in 1..Len(w1) BY <1>4
    <3>2. /\ w2 \in Seq(TriggerRec) /\ Len(w2) = Len(w1) /\ w2[n + 1] = y
          /\ \A i \in 1..Len(w1) : i # n + 1 => w2[i] = w1[i]
        BY <2>5, <2>6, <3>1
    <3>3. \A i \in 1..n : i \in 1..Len(w1) /\ i # n + 1 BY <1>4
    <3> QED BY <1>4, <3>2, <3>3
  <2>8. PICK z : z = WithAwait(u, c, w2) OBVIOUS
  <2>9. /\ z \in State /\ SameRest(u, z) /\ SameLists(u, z)
        /\ SameClients(u, z) /\ z.alarm = u.alarm
        /\ z.await = [u.await EXCEPT ![c] = w2]
      BY <2>7, <2>8, WithAwaitIs
  <2>10. z.await[c] = w2 /\ \A i \in Clients \ {c} : z.await[i] = s.await[i]
    <3>1. u.await = more.await BY <1>12 DEF SameTriggers
    <3> QED BY <1>7, <2>9, <3>1 DEF State
  <2>11. /\ SameLists(s, z) /\ z.alarm = s.alarm /\ z.ignored = s.ignored /\ Existing(z)
         /\ \A k \in Counters : z.value[k] = s.value[k]
    <3>1. u.ignored = s.ignored /\ u.alarm = s.alarm
        BY <1>6, <1>12 DEF SameClients, SameTriggers
    <3>2. u.list = s.list /\ \A k \in Counters : u.value[k] = s.value[k]
        BY <1>6, <1>12 DEF SameLists, SameRest
    <3>3. z.value = u.value /\ z.list = u.list BY <2>9 DEF SameLists, SameRest
    <3>5. Existing(z) BY <1>12, <3>3 DEF Existing
    <3> QED BY <2>9, <3>1, <3>2, <3>3, <3>5 DEF SameLists, SameClients
  <2>12. Attributed(u, t, x) = [s |-> z, ok |-> sum \in Int64]
    <3>1. u.await[c] = w1 BY <1>7, <1>12 DEF SameTriggers
    <3>2. z = [u EXCEPT !.await[t[1]][t[2]] = With(@, x, Wrap(sum))]
        BY <1>8, <2>4, <2>6, <2>8, <3>1 DEF WithAwait, State
    <3> QED BY <1>8, <2>2, <3>2, Zenon DEF Attributed
  <2>13. CASE sum \notin Int64
    <3>1. (sum \in Int64) = FALSE BY <2>13
    <3>2. Listed([s |-> z, ok |-> FALSE], t, TRUE) = [s |-> z, ok |-> FALSE] BY DEF Listed
    <3>3. SyncInitTrigger(more, t, x) = [s |-> z, ok |-> FALSE]
        BY <1>16, <2>12, <3>1, <3>2, Zenon
    <3>4. \E p : /\ p = InitCondition(r, c, x)
                 /\ Initialised(s, p.s, c) /\ p.s.await[c] # None /\ ~p.ok
        BY <1>14, <2>7, <2>9, <2>10, <2>11, <3>3
    <3> QED BY <3>4 DEF OneMore
  <2>14. CASE sum \in Int64
    <3>1. ASSUME NEW j, NEW k, Has(s, j, k) PROVE Has(z, j, k)
      <4>1. CASE IsAlarm(j) BY <2>11, <3>1, <4>1 DEF Has
      <4>2. CASE ~IsAlarm(j) /\ j[1] # c BY <2>10, <3>1, <4>2 DEF Has
      <4>3. CASE ~IsAlarm(j) /\ j[1] = c
        <5>1. j[2] \in 1..n /\ w[j[2]].counter = k BY <3>1, <4>3 DEF Has
        <5>2. j[2] \in 1..Len(w2) /\ w2[j[2]].counter = k BY <2>7, <5>1
        <5>3. w2 # None BY <2>7, Widths
        <5> QED BY <2>10, <4>3, <5>2, <5>3 DEF Has
      <4> QED BY <4>1, <4>2, <4>3
    <3>2. Matched(z, None)
      <4>1. NoneTwice(z) /\ Existing(z) BY <2>11 DEF Matched, NoneTwice, SameLists
      <4>2. \A k \in AllCounters : Proper(z, k)
          BY <2>11, <3>1, Widths DEF Matched, Proper, SameLists
      <4>3. Apart(z.await[c])
        <5>1. Apart(w) BY <1>2 DEF Matched
        <5>2. \A i \in 1..(n + 1) : i \notin 1..n => i = n + 1 BY LastOrBefore
        <5>3. ASSUME NEW i \in 1..(n + 1), NEW j \in 1..(n + 1), w2[i].counter = w2[j].counter
              PROVE  i = j
          <6>1. CASE i \in 1..n /\ j \in 1..n
            <7>1. w[i].counter = w[j].counter BY <2>7, <5>3, <6>1
            <7> QED BY <5>1, <6>1, <7>1 DEF Apart
          <6>2. CASE i \in 1..n /\ j \notin 1..n
            <7>1. w[i].counter = y.counter BY <2>7, <5>2, <5>3, <6>2, Zenon
            <7> QED BY <2>5, <6>2, <7>1
          <6>3. CASE i \notin 1..n /\ j \in 1..n
            <7>1. w[j].counter = y.counter BY <2>7, <5>2, <5>3, <6>3, Zenon
            <7> QED BY <2>5, <6>3, <7>1
          <6>4. CASE i \notin 1..n /\ j \notin 1..n BY <5>2, <6>4
          <6> QED BY <6>1, <6>2, <6>3, <6>4
        <5>4. \A i \in 1..(n + 1) : w2[i].counter \in AllCounters
            BY <1>1, <2>5, <2>7, <5>1, <5>2 DEF Apart
        <5> QED BY <2>7, <2>10, <5>3, <5>4 DEF Apart
      <4>4. \A i \in Clients \ {c} : z.await[i] # None => Apart(z.await[i])
          BY <2>10 DEF Matched
      <4> QED BY <4>1, <4>2, <4>3, <4>4 DEF Matched
    <3>3. PICK k \in AllCounters : k = x.counter BY <1>1
    <3>4. w2[n + 1].counter = k /\ w2 # None /\ n + 1 \in 1..Len(w2)
      <4>1. w2[n + 1].counter = k BY <2>5, <2>7, <3>3
      <4>2. w2 # None BY <2>7, Widths
      <4>3. n + 1 \in 1..Len(w2) BY <2>7
      <4> QED BY <4>1, <4>2, <4>3
    <3>5. Trigger(z, t).counter = k /\ Has(z, t, k)
      <4>1. ~IsAlarm(t) /\ t[1] = c /\ t[2] = n + 1 BY <1>8
      <4> QED BY <2>10, <3>4, <4>1 DEF Has, Trigger
    <3>6. t \notin ToSet(z.list[k])
      <4>1. SUFFICES ASSUME t \in ToSet(s.list[k]) PROVE FALSE BY <2>11 DEF SameLists
      <4>2. Has(s, t, k) BY <4>1, Widths DEF Matched, Proper
      <4>3. n + 1 \in 1..n BY <1>8, <4>2 DEF Has
      <4> QED BY <4>3
    <3>7. z.value[k] # None BY <2>1, <2>9, <3>3, Widths DEF SameRest
    <3>8. PICK q \in State :
              /\ q = SyncAddTriggerToCounter(z, t)
              /\ SameButLists(z, q) /\ Matched(q, None) /\ Put(z, q, t, k)
        BY <1>1, <2>9, <3>2, <3>3, <3>5, <3>6, <3>7, AddMatched
    <3>9. PICK p : p = [s |-> q, ok |-> TRUE] OBVIOUS
    <3>10. SyncInitTrigger(more, t, x) = p
      <4>1. (sum \in Int64) = TRUE BY <2>14
      <4>2. PICK e : e = [s |-> z, ok |-> TRUE] /\ e.s = z /\ e.ok
        <5>1. [s |-> z, ok |-> TRUE].s = z /\ [s |-> z, ok |-> TRUE].ok OBVIOUS
        <5> QED BY <5>1
      <4>3. Listed(e, t, TRUE) = [e EXCEPT !.s = q] BY <3>8, <4>2 DEF Listed
      <4>4. Listed([s |-> z, ok |-> TRUE], t, TRUE) = p BY <3>9, <4>2, <4>3
      <4> QED BY <1>16, <2>12, <4>1, <4>4, Zenon
    <3>11. p = InitCondition(r, c, x) BY <1>9, <3>9, <3>10 DEF Counted
    <3>12. Initialised(s, q, c) /\ q.await[c] = w2 /\ t \in ToSet(q.list[k])
      <4>1. k # None /\ t[1] = c BY <1>8, Widths
      <4>2. /\ ToSet(q.list[k]) = ToSet(s.list[k]) \cup {t}
            /\ \A f, g : Before(q, k, f, g) => f = t \/ Before(s, k, f, g)
            /\ \A j \in AllCounters : j # k => q.list[j] = s.list[j]
          BY <2>11, <3>8, <4>1 DEF Put, SameLists, Before
      <4>3. Grows(s, q, c) BY <4>1, <4>2 DEF Grows, Before
      <4> QED BY <2>10, <2>11, <3>8, <4>2, <4>3 DEF Initialised, SameButLists, SameRest
    <3>13. p.s = q BY <3>9
    <3>14. q.await[c] # None /\ q.await[c][n + 1].counter = x.counter
        BY <3>3, <3>4, <3>12
    <3>15. Len(q.await[c]) = n + 1 /\ \A i \in 1..n : q.await[c][i] = w[i]
        BY <2>7, <3>12
    <3>16. OneMore(s, c, w, n, x, p) BY <1>8, <3>3, <3>12, <3>13, <3>14, <3>15 DEF OneMore
    <3> QED BY <3>11, <3>16, Zenon
  <2> QED BY <2>13, <2>14
<1> QED BY <1>13, <1>15, <1>16

(* After the first i conditions of list.                                   *)
Begun(s, c, list, r, i) ==
    /\ Initialised(s, r.s, c) /\ r.s.await[c] # None
    /\ r.ok => /\ Len(r.s.await[c]) = i
               /\ \A j \in 1..i : /\ r.s.await[c][j].counter = list[j].counter
                                  /\ <<c, j>> \in ToSet(r.s.list[list[j].counter])

LEMMA InitialisedTwice ==
    ASSUME NEW s, NEW q, NEW p, NEW c, Initialised(s, q, c), Initialised(q, p, c)
    PROVE  Initialised(s, p, c)
<1>1. Grows(s, p, c) BY GrowsTwice DEF Initialised
<1> QED BY <1>1 DEF Initialised

LEMMA BegunMore ==
    ASSUME NEW s, NEW c \in Clients, clock \in Int64, NEW list \in Seq(Condition),
           NEW n \in Nat, n = Len(list), NEW i \in 0..(n - 1),
           \A j, m \in 1..n : list[j].counter = list[m].counter => j = m,
           NEW r, Begun(s, c, list, r, i)
    PROVE  Begun(s, c, list, InitCondition(r, c, list[i + 1]), i + 1)
<1>1. CASE ~r.ok
  <2>1. InitCondition(r, c, list[i + 1]) = r BY <1>1 DEF InitCondition
  <2> QED BY <1>1, <2>1 DEF Begun
<1>2. CASE r.ok
  <2>1. PICK q : q = r.s OBVIOUS
  <2>2. Initialised(s, q, c) /\ q.await[c] # None BY <2>1 DEF Begun
  <2>3. q \in State /\ Matched(q, None) BY <2>2 DEF Initialised
  <2>4. PICK w \in Seq(TriggerRec) : w = q.await[c] BY <2>2, <2>3 DEF State
  <2>5. /\ i = Len(w)
        /\ \A j \in 1..i : /\ w[j].counter = list[j].counter
                           /\ <<c, j>> \in ToSet(q.list[list[j].counter])
      BY <1>2, <2>1, <2>4 DEF Begun
  <2>6. PICK x \in Condition : x = list[i + 1] OBVIOUS
  <2>7. \A j \in 1..i : w[j].counter # x.counter
    <3> SUFFICES ASSUME NEW j \in 1..i, w[j].counter = x.counter PROVE FALSE OBVIOUS
    <3>1. list[j].counter = list[i + 1].counter BY <2>5, <2>6
    <3>2. j \in 1..n /\ i + 1 \in 1..n /\ j # i + 1 OBVIOUS
    <3> QED BY <3>1, <3>2
  <2>8. i \in Nat OBVIOUS
  <2>9. PICK p : /\ p = InitCondition(r, c, x)
                 /\ Initialised(q, p.s, c) /\ p.s.await[c] # None
                 /\ p.ok => /\ Len(p.s.await[c]) = i + 1
                            /\ \A j \in 1..i : p.s.await[c][j] = w[j]
                            /\ p.s.await[c][i + 1].counter = x.counter
                            /\ <<c, i + 1>> \in ToSet(p.s.list[x.counter])
    <3>1. OneMore(q, c, w, i, x, InitCondition(r, c, x))
        BY <1>2, <2>1, <2>3, <2>4, <2>5, <2>7, <2>8, InitConditionIs
    <3> QED BY <3>1 DEF OneMore
  <2>10. Initialised(s, p.s, c) BY <2>2, <2>9, InitialisedTwice
  <2>11. ASSUME p.ok, NEW j \in 1..(i + 1)
         PROVE  /\ p.s.await[c][j].counter = list[j].counter
                /\ <<c, j>> \in ToSet(p.s.list[list[j].counter])
    <3>1. CASE j \in 1..i
      <4>1. list[j] \in Condition OBVIOUS
      <4>2. list[j].counter \in AllCounters BY <4>1 DEF Condition
      <4>3. ToSet(q.list[list[j].counter]) \subseteq ToSet(p.s.list[list[j].counter])
          BY <2>9, <4>2 DEF Initialised, Grows
      <4> QED BY <2>5, <2>9, <2>11, <3>1, <4>3
    <3>2. CASE j = i + 1 BY <2>6, <2>9, <2>11, <3>2
    <3> QED BY <3>1, <3>2
  <2>12. Begun(s, c, list, p, i + 1) BY <2>9, <2>10, <2>11 DEF Begun
  <2> QED BY <2>6, <2>9, <2>12
<1> QED BY <1>1, <1>2

(* All conditions are initialised, or those before an error.               *)
LEMMA InitConditionsIs ==
    ASSUME NEW s \in State, Matched(s, None), NEW c \in Clients, s.await[c] = None,
           clock \in Int64, NEW list \in AwaitLists
    PROVE  \E r : /\ r = InitConditions(s, c, list)
                  /\ Initialised(s, r.s, c) /\ r.s.await[c] # None
                  /\ r.ok => Placed(r.s, c)
<1>1. /\ list \in Seq(Condition)
      /\ \A j, m \in DOMAIN list : list[j].counter = list[m].counter => j = m
  <2>1. /\ list \in Seq(Condition) /\ IsInjective([i \in DOMAIN list |-> list[i].counter])
      BY SyncAssumption
  <2> QED BY <2>1 DEF IsInjective
<1>2. PICK n \in Nat : n = Len(list) BY <1>1
<1>3. \A j, m \in 1..n : list[j].counter = list[m].counter => j = m BY <1>1, <1>2
<1>4. PICK W : W = Conditions(s, c, list) BY Zenon
<1>5. PICK w0 \in Seq(TriggerRec) : w0 = <<>> /\ Len(w0) = 0
  <2>1. <<>> \in Seq(TriggerRec) /\ Len(<<>>) = 0 OBVIOUS
  <2> QED BY <2>1
<1>6. PICK e : e = WithAwait(s, c, w0) OBVIOUS
<1>7. /\ e \in State /\ SameRest(s, e) /\ SameLists(s, e)
      /\ SameClients(s, e) /\ e.alarm = s.alarm /\ e.await = [s.await EXCEPT ![c] = w0]
    BY <1>6, WithAwaitIs
<1>8. e.await[c] = w0 /\ w0 # None /\ \A x \in Clients \ {c} : e.await[x] = s.await[x]
    BY <1>7, Widths DEF State
<1>9. /\ W[0] = [s |-> e, ok |-> TRUE]
      /\ \A i \in 1..n : W[i] = InitCondition(W[i - 1], c, list[i])
  <2>1. e = [s EXCEPT !.await[c] = <<>>] BY <1>5, <1>6 DEF WithAwait
  <2>2. InTurn(s, c, list, n, W) BY <1>2, <1>4, ConditionsIs
  <2> QED BY <2>1, <2>2, Zenon DEF InTurn
<1>10. Matched(e, None)
  <2>1. \A t, k : Has(s, t, k) => Has(e, t, k) BY <1>7, <1>8 DEF Has
  <2>2. \A k \in AllCounters \ {None} : Proper(e, k)
      BY <1>7, <2>1 DEF Matched, Proper, SameLists
  <2>3. NoneTwice(e) /\ Existing(e)
      BY <1>7 DEF Matched, NoneTwice, Existing, SameLists, SameRest
  <2>4. Apart(e.await[c])
    <3>1. Len(e.await[c]) = 0 BY <1>5, <1>8
    <3> QED BY <3>1 DEF Apart
  <2>5. \A x \in Clients : e.await[x] # None => Apart(e.await[x])
      BY <1>8, <2>4 DEF Matched
  <2> QED BY <2>2, <2>3, <2>5 DEF Matched
<1>11. Initialised(s, e, c)
  <2>1. Grows(s, e, c) BY <1>7, SameGrows DEF SameLists
  <2> QED BY <1>7, <1>8, <1>10, <2>1 DEF Initialised, SameClients, SameRest
<1>12. Begun(s, c, list, W[0], 0)
  <2>1. PICK r : r = W[0] OBVIOUS
  <2>2. r.s = e BY <1>9, <2>1
  <2>3. Begun(s, c, list, r, 0) BY <1>5, <1>8, <1>11, <2>2 DEF Begun
  <2> QED BY <2>1, <2>3
<1> DEFINE T == {i \in 0..n : Begun(s, c, list, W[i], i)}
<1>13. 0 \in T BY <1>12
<1>14. ASSUME NEW i \in 0..(n - 1), i \in T PROVE i + 1 \in T
  <2>1. Begun(s, c, list, W[i], i) BY <1>14
  <2>2. Begun(s, c, list, InitCondition(W[i], c, list[i + 1]), i + 1)
      BY <1>1, <1>2, <1>3, <2>1, BegunMore
  <2>3. W[i + 1] = InitCondition(W[i], c, list[i + 1]) /\ i + 1 \in 0..n BY <1>9
  <2> QED BY <2>2, <2>3
<1> HIDE DEF T
<1>15. n \in T
  <2>1. \A i \in 0..n : i \in T BY <1>13, <1>14, Induction
  <2> QED BY <2>1
<1>16. Begun(s, c, list, W[n], n) BY <1>15 DEF T
<1>17. W[n] = InitConditions(s, c, list) BY <1>2, <1>4 DEF InitConditions
<1>18. W[n].ok => Placed(W[n].s, c) BY <1>16 DEF Begun, Placed
<1> QED BY <1>16, <1>17, <1>18 DEF Begun

(* A comparison does not look at the value that the counter had.           *)
LEMMA AnyOld ==
    ASSUME NEW check \in Comparisons, NEW old, NEW new, NEW test, Check(check, None, new, test)
    PROVE  Check(check, old, new, test)
<1>1. CASE check = "PositiveComparison" BY <1>1 DEF Check
<1>2. CASE check = "NegativeComparison" BY <1>2 DEF Check
<1> QED BY <1>1, <1>2 DEF Comparisons

LEMMA AwaitStep ==
    ASSUME Sound(S), clock \in Int64, NEW c \in Clients, NEW list \in AwaitLists,
           ProcSyncAwait(c, list)
    PROVE  Good(S, S')
<1>1. S \in State /\ Matched(S, None) /\ Waiting(S) /\ NoneDue(S) BY DEF Sound
<1>2. S.await[c] = None BY <1>1 DEF ProcSyncAwait, Dispatch, Waiting
<1>3. PICK r : /\ r = InitConditions(S, c, list)
               /\ Initialised(S, r.s, c) /\ r.s.await[c] # None /\ (r.ok => Placed(r.s, c))
    BY <1>1, <1>2, InitConditionsIs
<1>4. PICK z : z = r.s OBVIOUS
<1>5. /\ z \in State /\ Matched(z, None) /\ z.await[c] # None /\ z.ignored = S.ignored
      /\ \A k \in Counters : z.value[k] = S.value[k]
      /\ \A x \in Clients \ {c} : z.await[x] = S.await[x]
      /\ Grows(S, z, c) /\ (r.ok => Placed(z, c))
    BY <1>3, <1>4 DEF Initialised
<1>6. None # SERVERTIME /\ None \notin AllCounters BY Widths
<1>7. S' = Awaited(r, c) BY <1>3 DEF ProcSyncAwait
<1>8. \A k \in AllCounters : \A t \in ToSet(S.list[k]) : t[1] # c
  <2> SUFFICES ASSUME NEW k \in AllCounters, NEW t \in ToSet(S.list[k]), t[1] = c PROVE FALSE
      OBVIOUS
  <2>1. Has(S, t, k) BY <1>1, Widths DEF Matched, Proper
  <2> QED BY <1>2, <2>1, Widths DEF Has
<1>9. ASSUME NEW y, Grows(S, y, c), NEW q \in State, Thins(y, q), S' = q,
             Matched(q, None), Waiting(q), \A k \in Counters : q.value[k] = S.value[k],
             \A x \in Clients \ {c} : q.await[x] = S.await[x], q.await[c] = None
      PROVE  Good(S, S')
  <2>1. \A x \in Clients : q.await[x] = S.await[x] BY <1>2, <1>9
  <2>2. \A k \in AllCounters : ToSet(q.list[k]) \subseteq ToSet(S.list[k])
    <3> SUFFICES ASSUME NEW k \in AllCounters, NEW t \in ToSet(q.list[k]), t \notin ToSet(S.list[k])
                 PROVE  FALSE
        OBVIOUS
    <3>1. t \in ToSet(y.list[k]) BY <1>9 DEF Thins
    <3>2. t[1] = c BY <1>9, <3>1 DEF Grows
    <3>3. Has(q, t, k) BY <1>9, Widths DEF Matched, Proper
    <3> QED BY <1>9, <3>2, <3>3, Widths DEF Has
  <2>3. NoneDue(q) BY <1>1, <1>9, <2>1, <2>2, StillNotDue
  <2>4. Quiet(S, q) BY <1>9 DEF Quiet
  <2>5. Reasons(S, q) BY <1>9, <2>1 DEF Reasons
  <2>6. Stays(S, q)
    <3> SUFFICES ASSUME NEW k \in AllCounters, NEW t \in ToSet(S.list[k]), Has(q, t, k),
                        t \notin ToSet(q.list[k])
                 PROVE  Dropped(S, q, t, k)
        BY DEF Stays
    <3>1. t[1] # c /\ t \in ToSet(y.list[k]) BY <1>9, <1>8 DEF Grows
    <3>2. Dropped(y, q, t, k) BY <1>9, <3>1 DEF Thins
    <3>3. PICK u : Before(y, k, t, u) /\ ~Has(q, u, k) BY <3>2 DEF Dropped
    <3>4. Before(S, k, t, u) BY <1>9, <3>1, <3>3 DEF Grows
    <3> QED BY <3>3, <3>4 DEF Dropped
  <2>7. Places(S, q) BY <2>1, <2>6 DEF Places
  <2> QED BY <1>9, <2>3, <2>4, <2>5, <2>7, QuietGoesOff DEF Sound, Good
<1>10. CASE ~r.ok
  <2>1. NoneTwice(z) /\ (\A k \in AllCounters \ {None} : Proper(z, k)) /\ Apart(z.await[c])
      BY <1>5 DEF Matched
  <2>2. PICK q \in State : q = FreeAwait(z, c, None) /\ Freed(z, q, c, None) /\ SameClients(z, q)
      BY <1>5, <1>6, <2>1, FreeAwaitIs
  <2>3. /\ Matched(q, None) /\ q.await[c] = None
        /\ \A x \in Clients \ {c} : q.await[x] = z.await[x]
      BY <1>5, <2>2, FreedMatched
  <2>4. S' = q BY <1>4, <1>7, <1>10, <2>2 DEF Awaited
  <2>5. \A x \in Clients \ {c} : q.await[x] = S.await[x] BY <1>5, <2>3
  <2>6. q.ignored = S.ignored BY <1>5, <2>2 DEF SameClients
  <2>7. Waiting(q) BY <1>1, <1>2, <2>3, <2>5, <2>6 DEF Waiting
  <2>8. \A k \in Counters : q.value[k] = S.value[k] BY <1>5, <2>2 DEF Freed, SameRest
  <2>9. Thins(z, q) BY <1>5, <2>2, FreedThins
  <2> QED BY <1>5, <1>9, <2>3, <2>4, <2>5, <2>7, <2>8, <2>9
<1>11. CASE r.ok
  <2>1. PICK I \in SUBSET Clients : I = S.ignored \cup {c} BY <1>1 DEF State
  <2>2. PICK y : y = WithIgnored(z, I) OBVIOUS
  <2>3. /\ y \in State /\ SameRest(z, y) /\ SameLists(z, y) /\ SameTriggers(z, y)
        /\ y.ignored = I
      BY <1>5, <2>2, WithIgnoredIs
  <2>4. y = [r.s EXCEPT !.ignored = @ \cup {c}]
      BY <1>4, <1>5, <2>1, <2>2 DEF WithIgnored
  <2>5. S' = Waits(y, c) BY <1>7, <1>11, <2>4 DEF Awaited
  <2>6. Matched(y, None)
      BY <1>5, <2>3, SameMatched DEF SameRest, SameLists, SameTriggers
  <2>7. /\ y.await[c] # None /\ \A x \in Clients \ {c} : y.await[x] = S.await[x]
      BY <1>5, <2>3 DEF SameTriggers
  <2>8. \A k \in Counters : y.value[k] = S.value[k] BY <1>5, <2>3 DEF SameRest
  <2>9. Waiting(y) BY <1>1, <2>1, <2>3, <2>7 DEF Waiting
  <2>10. Grows(S, y, c) BY <1>5, <2>3 DEF Grows, SameLists, Before
  <2>11. CASE \E i \in DOMAIN y.await[c] : AlreadyTrue(y, <<c, i>>)
    <3>1. PICK q \in State :
             /\ q = SyncAwaitTriggerFired(y, c, None)
             /\ SameRest(y, q) /\ q.alarm = y.alarm /\ q.await[c] = None
             /\ \A x \in Clients \ {c} : q.await[x] = y.await[x]
             /\ Matched(q, None) /\ Heeded(y, q) /\ Thins(y, q)
        BY <1>6, <2>3, <2>6, <2>7, AwaitFiredIs
    <3>2. S' = q BY <2>5, <2>11, <3>1 DEF Waits
    <3>3. Waiting(q) BY <2>9, <3>1, HeededWaiting
    <3>4. \A x \in Clients \ {c} : q.await[x] = S.await[x] BY <2>7, <3>1
    <3>5. \A k \in Counters : q.value[k] = S.value[k] BY <2>8, <3>1 DEF SameRest
    <3> QED BY <1>9, <2>10, <3>1, <3>2, <3>3, <3>4, <3>5
  <2>12. CASE ~ \E i \in DOMAIN y.await[c] : AlreadyTrue(y, <<c, i>>)
    <3>1. S' = y BY <2>5, <2>12 DEF Waits
    <3>2. NoneDue(y)
      <4> SUFFICES ASSUME NEW k \in Counters, NEW t \in ToSet(y.list[k]), ~IsAlarm(t), Late(y, t, k)
                   PROVE  FALSE
          BY DEF NoneDue
      <4>1. Has(y, t, k) /\ k \in AllCounters BY <2>6, Widths DEF Matched, Proper
      <4>2. /\ t[1] \in Clients /\ y.await[t[1]] # None /\ t[2] \in 1..Len(y.await[t[1]])
            /\ Trigger(y, t).counter = k
          BY <4>1, HasType, <2>3 DEF Has
      <4>3. CASE t[1] # c
        <5>1. t \in ToSet(S.list[k]) BY <2>10, <4>1, <4>3 DEF Grows
        <5>2. Trigger(y, t) = Trigger(S, t) BY <2>7, <4>2, <4>3 DEF Trigger
        <5> QED BY <1>1, <2>8, <5>1, <5>2 DEF NoneDue, Late
      <4>4. CASE t[1] = c
        <5>1. y.await[c] \in Seq(TriggerRec) BY <2>3, <2>7 DEF State
        <5>2. t[2] \in DOMAIN y.await[c] BY <4>2, <4>4, <5>1
        <5>3. Trigger(y, <<c, t[2]>>) = Trigger(y, t) BY <4>4 DEF Trigger, IsAlarm
        <5>4. PICK x : x = Trigger(y, t) OBVIOUS
        <5>5. Check(x.check, y.value[k], y.value[k], x.value) BY <5>4, AnyOld DEF Late
        <5>6. AlreadyTrue(y, <<c, t[2]>>)
            BY <4>2, <5>3, <5>4, <5>5 DEF AlreadyTrue, CheckTrigger
        <5> QED BY <2>12, <5>2, <5>6
      <4> QED BY <4>3, <4>4
    <3>3. Quiet(S, y) BY <2>8 DEF Quiet
    <3>4. Reasons(S, y) BY <1>2, <2>7 DEF Reasons
    <3>5. Places(S, y)
      <4>1. Placed(y, c) BY <1>5, <1>11, <2>3 DEF Placed, SameLists, SameTriggers
      <4>2. Stays(S, y) BY <2>10 DEF Stays, Grows
      <4> QED BY <2>7, <4>1, <4>2 DEF Places
    <3> QED BY <2>3, <2>6, <2>9, <3>1, <3>2, <3>3, <3>4, <3>5, QuietGoesOff DEF Sound, Good
  <2> QED BY <2>11, <2>12
<1> QED BY <1>10, <1>11

-----------------------------------------------------------------------------
(* Each step keeps the invariant.                                          *)
Kept == Good(S, S')

LEMMA SameKept ==
    ASSUME Sound(S), S' = S
    PROVE  Kept
    BY StutterGood DEF Kept

LEMMA QueryStep ==
    ASSUME Sound(S), clock \in Int64, NEW c \in Clients, ProcSyncQueryCounter(c)
    PROVE  Kept
<1>1. S \in State /\ Matched(S, None) /\ Waiting(S) /\ NoneDue(S) BY DEF Sound
<1>2. Existing(S) /\ SERVERTIME \in AllCounters BY <1>1, Widths DEF Matched
<1>3. PICK q \in State :
             /\ q = Queried(S, SERVERTIME)
             /\ SameLists(S, q) /\ SameTriggers(S, q) /\ SameClients(S, q)
             /\ Existing(q) /\ \A j \in Counters : q.value[j] = S.value[j]
    BY <1>1, <1>2, QueriedIs
<1>4. S' = q BY <1>3 DEF ProcSyncQueryCounter
<1>5. Matched(q, None) BY <1>1, <1>3, LinksMatched
<1>6. q.await = S.await BY <1>3 DEF SameTriggers
<1>7. NoneDue(q) BY <1>1, <1>3, <1>5, <1>6, StillNotDue DEF SameLists
<1>8. Waiting(q) BY <1>1, <1>3, <1>6 DEF Waiting, SameClients
<1>9. Quiet(S, q) BY <1>3 DEF Quiet
<1>10. Thins(S, q)
  <2>1. \A t : \A k \in AllCounters : Has(q, t, k) => Has(S, t, k)
      BY <1>3 DEF Has, SameTriggers
  <2> QED BY <1>3, <2>1, SameThins DEF SameLists
<1>11. Places(S, q) BY <1>6, <1>10, ThinsPlaces
<1>12. Good(S, q)
    BY <1>5, <1>6, <1>7, <1>8, <1>9, <1>11, SameAwaits, QuietGoesOff DEF Sound, Good
<1> QED BY <1>4, <1>12 DEF Kept

LEMMA RequestKept ==
    ASSUME Sound(S), clock \in Int64, NEW c \in Clients, Requests(c)
    PROVE  Kept
<1> USE DEF Kept
<1>1. CASE \E k \in Counters, v \in Values : CreateCounter(c, k, v) BY <1>1, CreateCounterStep
<1>2. CASE \E k \in Counters, v \in Values : SetCounter(c, k, v)
  <2>1. PICK k \in Counters, v \in Values : SetCounter(c, k, v) BY <1>2
  <2>2. k \in AllCounters /\ v \in Int64 BY Widths, SyncAssumption
  <2>3. PICK q : q = SyncChangeCounter(S, k, v) OBVIOUS
  <2>4. Good(S, q) BY <2>1, <2>2, <2>3, ChangeStep DEF SetCounter, Exists
  <2> QED BY <2>1, <2>3, <2>4, BecomesGood DEF SetCounter
<1>3. CASE \E k \in Counters : ProcSyncDestroyCounter(c, k) BY <1>3, DestroyCounterStep
<1>4. CASE ProcSyncQueryCounter(c) BY <1>4, QueryStep
<1>5. CASE \E list \in AwaitLists : ProcSyncAwait(c, list) BY <1>5, AwaitStep
<1>6. CASE \E a \in Alarms, x \in AlarmSettings : ProcSyncCreateAlarm(c, a, x)
    BY <1>6, CreateAlarmStep
<1>7. CASE \E a \in Alarms, x \in AlarmSettings : ProcSyncChangeAlarm(c, a, x)
    BY <1>7, ChangeAlarmStep
<1>8. CASE \E a \in Alarms : ProcSyncDestroyAlarm(c, a) BY <1>8, DestroyAlarmStep
<1>9. CASE CloseDownClient(c) BY <1>9, CloseDownStep
<1> QED BY <1>1, <1>2, <1>3, <1>4, <1>5, <1>6, <1>7, <1>8, <1>9, Zenon DEF Requests

LEMMA WakeupKept ==
    ASSUME Sound(S), clock \in Int64, Wakeup
    PROVE  Kept
<1>1. PICK q : q = IF S.pnext /\ clock >= S.greater
                   THEN SyncChangeCounter(S, SERVERTIME, clock) ELSE S
    OBVIOUS
<1>2. Good(S, q)
  <2>1. CASE q = S BY <2>1, StutterGood
  <2>2. CASE q = SyncChangeCounter(S, SERVERTIME, clock)
    <3>1. SERVERTIME \in AllCounters /\ S.value[SERVERTIME] # None
        BY Widths DEF Sound, Matched, Existing
    <3> QED BY <2>2, <3>1, ChangeStep
  <2> QED BY <1>1, <2>1, <2>2
<1>3. Becomes(q) BY <1>1, Zenon DEF Wakeup
<1> QED BY <1>2, <1>3, BecomesGood DEF Kept

(* The time, and what the block handler makes of it.                       *)
Timed ==
    /\ clock \in 0..MaxTime /\ phase \in {"dispatch", "asleep"}
    /\ timeout \in 0..MaxValue \cup {None}

LEMMA BlockTimed ==
    ASSUME S \in State, Timed, Block
    PROVE  Timed'
<1>1. S.greater \in Int64 BY DEF State
<1>2. timeout' \in 0..MaxValue \cup {None}
  <2>1. CASE ~S.pnext BY <2>1 DEF Block
  <2>2. CASE S.pnext /\ clock >= S.greater
    <3>1. timeout' = clock BY <2>2 DEF Block
    <3> QED BY <3>1, Widths DEF Timed
  <2>3. CASE S.pnext /\ ~(clock >= S.greater)
    <3>1. timeout' = S.greater BY <2>3 DEF Block
    <3>2. S.greater \in 0..MaxValue BY <1>1, <2>3, Widths DEF Timed, Int64
    <3> QED BY <3>1, <3>2
  <2> QED BY <2>1, <2>2, <2>3
<1> QED BY <1>2 DEF Timed, Block

LEMMA NextKept ==
    ASSUME IInv, [Next]_vars
    PROVE  Kept /\ IInv'
<1>1. Sound(S) /\ Timed /\ S \in State BY DEF IInv, TypeOK, Timed
<1> SUFFICES Kept /\ Timed' BY DEF Kept, Good, Timed, IInv, TypeOK, Sound
<1>2. clock \in Int64 /\ MaxTime \in Nat BY <1>1, Widths DEF Timed, Int64
<1>3. ASSUME NEW c \in Clients, Requests(c) PROVE Kept /\ Timed'
  <2>1. Kept BY <1>1, <1>2, <1>3, RequestKept
  <2>2. UNCHANGED <<clock, phase, timeout>>
      BY <1>3, Zenon DEF Requests, CreateCounter, SetCounter, ProcSyncDestroyCounter,
                  ProcSyncQueryCounter, ProcSyncAwait, ProcSyncCreateAlarm,
                  ProcSyncChangeAlarm, ProcSyncDestroyAlarm, CloseDownClient, Rest
  <2> QED BY <1>1, <2>1, <2>2 DEF Timed
<1>4. CASE Block
  <2>1. Kept BY <1>1, <1>4, SameKept DEF Block
  <2> QED BY <1>1, <1>4, <2>1, BlockTimed
<1>5. CASE Wakeup
  <2>1. Kept BY <1>1, <1>2, <1>5, WakeupKept
  <2> QED BY <1>1, <1>5, <2>1 DEF Wakeup, Timed
<1>6. CASE Tick
  <2>1. Kept BY <1>1, <1>6, SameKept DEF Tick
  <2>2. Timed' BY <1>1, <1>2, <1>6 DEF Tick, Timed
  <2> QED BY <2>1, <2>2
<1>7. CASE UNCHANGED vars
  <2>1. Kept BY <1>1, <1>7, SameKept DEF vars
  <2>2. Timed' BY <1>1, <1>7 DEF vars, Timed
  <2> QED BY <2>1, <2>2
<1> QED BY <1>3, <1>4, <1>5, <1>6, <1>7 DEF Next

LEMMA InitKept == Init => IInv
<1> SUFFICES ASSUME Init PROVE IInv OBVIOUS
<1>1. S \in State
  <2>1. [k \in AllCounters |-> IF k = SERVERTIME THEN 0 ELSE None]
            \in [AllCounters -> Int64 \cup {None}]
      BY Widths
  <2>2. [k \in AllCounters |-> <<>>] \in [AllCounters -> Seq(TriggerId)] OBVIOUS
  <2> QED BY <2>1, <2>2, Widths DEF Init, State
<1>2. Timed BY Widths DEF Init, Timed
<1>3. (\A k \in AllCounters : S.list[k] = <<>>) /\ \A c \in Clients : S.await[c] = None
    BY DEF Init
<1>4. \A k \in AllCounters : IsInjective(S.list[k]) /\ ToSet(S.list[k]) = {}
  <2> SUFFICES ASSUME NEW k \in AllCounters
               PROVE  IsInjective(S.list[k]) /\ ToSet(S.list[k]) = {}
      OBVIOUS
  <2>1. PICK e : e = S.list[k] OBVIOUS
  <2>2. e = <<>> /\ DOMAIN e = {} BY <1>3, <2>1
  <2> QED BY <2>1, <2>2 DEF IsInjective, ToSet
<1>5. S.value[SERVERTIME] # None BY Widths DEF Init
<1>6. Matched(S, None) BY <1>3, <1>4, <1>5 DEF Matched, NoneTwice, Existing, Proper
<1>7. Waiting(S) BY <1>3 DEF Waiting, Init
<1>8. NoneDue(S) BY <1>4, Widths DEF NoneDue
<1> QED BY <1>1, <1>2, <1>6, <1>7, <1>8 DEF IInv, Sound, TypeOK, Timed

-----------------------------------------------------------------------------
(* The theorems.                                                           *)

(* The invariant holds in all that the extension can come to.              *)
THEOREM InvariantHolds == Spec => []IInv
<1>1. IInv /\ [Next]_vars => IInv' BY NextKept
<1> QED BY <1>1, InitKept, PTL DEF Spec

(* Every variable has its type: no sum of SyncAlarmTriggerFired or of      *)
(* SyncInitTrigger leaves the 64 bits.                                     *)
THEOREM TypeCorrect == Spec => []TypeOK
<1>1. IInv => TypeOK BY DEF IInv
<1> QED BY <1>1, InvariantHolds, PTL

(* The server ignores a client exactly while its Await waits.              *)
THEOREM WaitersAreIgnored == Spec => []WaitersIgnored
<1>1. IInv => WaitersIgnored BY DEF IInv, Sound, Waiting, WaitersIgnored
<1> QED BY <1>1, InvariantHolds, PTL

LEMMA TriggersAre ==
    ASSUME NEW s \in State
    PROVE  \A t \in Triggers(s) :
             /\ IsAlarm(t) => t[1] \in Alarms /\ t[2] = 0 /\ s.alarm[t[1]] # None
             /\ ~IsAlarm(t) => /\ t[1] \in Clients /\ s.await[t[1]] # None
                               /\ t[2] \in 1..Len(s.await[t[1]])
<1> SUFFICES ASSUME NEW t \in Triggers(s)
             PROVE  /\ IsAlarm(t) => t[1] \in Alarms /\ t[2] = 0 /\ s.alarm[t[1]] # None
                    /\ ~IsAlarm(t) => /\ t[1] \in Clients /\ s.await[t[1]] # None
                                      /\ t[2] \in 1..Len(s.await[t[1]])
    OBVIOUS
<1>1. CASE \E a \in Alarms : s.alarm[a] # None /\ t = <<a, 0>> BY <1>1 DEF IsAlarm
<1>2. CASE \E c \in Clients : s.await[c] # None /\ \E i \in DOMAIN s.await[c] : t = <<c, i>>
  <2>1. PICK c \in Clients : s.await[c] # None /\ \E i \in DOMAIN s.await[c] : t = <<c, i>>
      BY <1>2
  <2>2. s.await[c] \in Seq(TriggerRec) BY <2>1 DEF State
  <2>3. PICK i \in 1..Len(s.await[c]) : t = <<c, i>> BY <2>1, <2>2
  <2>4. i # 0 BY <2>3
  <2> QED BY <2>1, <2>3, <2>4 DEF IsAlarm
<1> QED BY <1>1, <1>2, Zenon DEF Triggers

LEMMA WaitsForIsHas ==
    ASSUME NEW s \in State, NEW t, NEW k, WaitsFor(s, t, k)
    PROVE  Has(s, t, k)
<1>1. t \in Triggers(s) /\ Trigger(s, t).counter = k BY DEF WaitsFor
<1> QED BY <1>1, TriggersAre DEF Has, Trigger

LEMMA HasIsWaitsFor ==
    ASSUME NEW s \in State, NEW t \in TriggerId, NEW k, Has(s, t, k)
    PROVE  WaitsFor(s, t, k)
<1>1. t = <<t[1], t[2]>> BY DEF TriggerId
<1>2. Trigger(s, t).counter = k BY HasType
<1> SUFFICES t \in Triggers(s) BY <1>2 DEF WaitsFor
<1>3. CASE IsAlarm(t)
  <2>1. t = <<t[1], 0>> /\ t[1] \in Alarms /\ s.alarm[t[1]] # None
      BY <1>1, <1>3 DEF IsAlarm, Has
  <2> QED BY <2>1, Zenon DEF Triggers
<1>4. CASE ~IsAlarm(t)
  <2>1. t[1] \in Clients /\ s.await[t[1]] # None BY <1>4 DEF Has
  <2>2. s.await[t[1]] \in Seq(TriggerRec) BY <2>1 DEF State
  <2>3. t[2] \in DOMAIN s.await[t[1]] BY <1>4, <2>2 DEF Has
  <2>4. t \in {<<t[1], i>> : i \in DOMAIN s.await[t[1]]} BY <1>1, <2>3
  <2>5. {<<t[1], i>> : i \in DOMAIN s.await[t[1]]}
            \in {{<<c, i>> : i \in DOMAIN s.await[c]} : c \in {c \in Clients : s.await[c] # None}}
      BY <2>1, Zenon
  <2> QED BY <2>4, <2>5, Zenon DEF Triggers
<1> QED BY <1>3, <1>4

(* A list has only triggers that exist and wait for its counter, each once, *)
(* however lists were cut before: no walk meets a trigger that was freed.  *)
THEOREM ListsAlwaysMatch == Spec => []ListsMatch
<1>1. ASSUME IInv PROVE ListsMatch
  <2>1. TypeOK /\ S \in State /\ Matched(S, None) BY <1>1 DEF IInv, Sound
  <2>2. ASSUME NEW k \in AllCounters, NEW t \in ToSet(S.list[k]) PROVE WaitsFor(S, t, k)
    <3>1. Has(S, t, k) BY <2>1, Widths DEF Matched, Proper
    <3>2. t \in TriggerId BY <2>1, ListType
    <3> QED BY <2>1, <3>1, <3>2, HasIsWaitsFor
  <2>3. \A k \in AllCounters : IsInjective(S.list[k]) BY <2>1 DEF Matched, NoneTwice
  <2> QED BY <2>1, <2>2, <2>3, Zenon DEF ListsMatch
<1> QED BY <1>1, InvariantHolds, PTL

(* A condition in the list of a client's counter is not so already, if it  *)
(* is a comparison.                                                        *)
THEOREM NobodyIsOverdue == Spec => []NoneOverdue
<1>1. ASSUME IInv PROVE NoneOverdue
  <2>1. S \in State /\ Matched(S, None) /\ NoneDue(S) BY <1>1 DEF IInv, Sound
  <2> SUFFICES ASSUME NEW k \in Counters, NEW t \in ToSet(S.list[k]), ~IsAlarm(t),
                      Trigger(S, t).check \in Comparisons, CheckTrigger(S, t, None)
               PROVE  FALSE
      BY DEF NoneOverdue
  <2>2. k \in AllCounters /\ k # None BY Widths
  <2>3. Has(S, t, k) BY <2>1, <2>2 DEF Matched, Proper
  <2>4. Trigger(S, t).counter = k BY <2>1, <2>3, HasType
  <2>5. Late(S, t, k) BY <2>2, <2>4, Zenon DEF Late, CheckTrigger
  <2> QED BY <2>1, <2>5 DEF NoneDue
<1> QED BY <1>1, InvariantHolds, PTL

(* An await ends for a reason: a condition has come true, its counter was  *)
(* destroyed, or the client closed down.                                   *)
THEOREM AwaitsEndForAReason == Spec => ReleasedForAReason
<1>1. ASSUME IInv, [Next]_vars
      PROVE  [\A c \in Clients : S.await[c] # None /\ S'.await[c] = None => Reason(c)]_vars
  <2> SUFFICES ASSUME NEW c \in Clients, S.await[c] # None, S'.await[c] = None
               PROVE  Reason(c)
      OBVIOUS
  <2>1. Reasons(S, S') BY <1>1, NextKept DEF Kept, Good
  <2>2. S.await[c] \in Seq(TriggerRec) BY <1>1 DEF IInv, Sound, State
  <2>3. DOMAIN S.await[c] = 1..Len(S.await[c]) BY <2>2
  <2> QED BY <2>1, <2>3 DEF Reasons, Reason, Exists
<1> QED BY <1>1, InvariantHolds, PTL DEF Spec, ReleasedForAReason

LEMMA AllPlaced ==
    ASSUME Sound(S), Good(S, S'), NEW c \in Clients, S'.await[c] # None
    PROVE  KeepsPlace(c)
<1>1. PICK q : q = S' OBVIOUS
<1>2. S \in State /\ q \in State /\ Matched(q, None) BY <1>1 DEF Good, Sound
<1>3. q.await[c] \in Seq(TriggerRec) BY <1>1, <1>2 DEF State
<1> SUFFICES ASSUME NEW i \in 1..Len(q.await[c]), NEW k, k = q.await[c][i].counter,
                    <<c, i>> \notin ToSet(q.list[k])
             PROVE  DroppedBefore(c, i, k) \/ DroppedNow(c, i, k)
    BY <1>1, <1>3 DEF KeepsPlace
<1>4. q.await[c] = S.await[c] BY <1>1 DEF Good, Places, Placed
<1>5. k \in AllCounters BY <1>1, <1>2 DEF Matched, Apart
<1>6. CASE <<c, i>> \notin ToSet(S.list[k]) BY <1>1, <1>4, <1>6 DEF DroppedBefore
<1>7. CASE <<c, i>> \in ToSet(S.list[k])
  <2>1. ~IsAlarm(<<c, i>>) BY DEF IsAlarm
  <2>2. Has(q, <<c, i>>, k) BY <1>1, <2>1 DEF Has
  <2>3. Dropped(S, q, <<c, i>>, k) BY <1>1, <1>5, <1>7, <2>1, <2>2 DEF Good, Places, Stays
  <2>4. PICK u : Before(S, k, <<c, i>>, u) /\ ~Has(q, u, k) BY <2>3 DEF Dropped
  <2>5. PICK at, behind \in 1..Len(S.list[k]) :
            at < behind /\ S.list[k][at] = <<c, i>> /\ S.list[k][behind] = u
      BY <2>4 DEF Before, InFront
  <2>6. DOMAIN S.list[k] = 1..Len(S.list[k]) BY <1>2, <1>5, ListType
  <2>7. ~WaitsFor(q, u, k) BY <1>2, <2>4, WaitsForIsHas
  <2> QED BY <1>1, <2>5, <2>6, <2>7 DEF DroppedNow
<1> QED BY <1>6, <1>7

(* When the counter of a client changes, all that waits in its list for    *)
(* the change goes off in that step; and a condition of an await stays in  *)
(* its list until a trigger behind it is deleted.                          *)
THEOREM ChangesAreNoticed == Spec => ChangesNoticed
<1> DEFINE Notices ==
        S'.alive => /\ \A k \in Counters : Exists(S, k) /\ Exists(S', k) => ListedNotice(k)
                    /\ \A c \in Clients : S'.await[c] # None => KeepsPlace(c)
<1>1. ASSUME IInv, [Next]_vars PROVE Notices
  <2>1. Sound(S) /\ Good(S, S') BY <1>1, NextKept DEF Kept, IInv
  <2>2. ASSUME S'.alive, NEW k \in Counters, Exists(S, k), Exists(S', k) PROVE ListedNotice(k)
    <3>1. \A t \in ToSet(S.list[k]) : ComesTrue(t, k) => WentOff(S, S', t)
        BY <2>1, <2>2 DEF Good, GoesOff, ComesTrue, Comes, Exists
    <3> QED BY <2>2, <3>1 DEF ListedNotice, WentOff, Noticed
  <2>3. \A c \in Clients : S'.await[c] # None => KeepsPlace(c) BY <2>1, AllPlaced
  <2> QED BY <2>2, <2>3
<1> HIDE DEF Notices
<1>2. IInv /\ [Next]_vars => [Notices]_vars BY <1>1
<1>3. Spec => [][Notices]_vars BY <1>2, InvariantHolds, PTL DEF Spec
<1> QED BY <1>3 DEF Notices, ChangesNoticed
=============================================================================
