-------------------------- MODULE OutputBuffersProofs --------------------------
(***************************************************************************)
(* What the reply buffers promise, for any number of connections,          *)
(* descriptors and bytes: a descriptor number stands for one client, a     *)
(* buffered byte always has something that will write it, and the peer     *)
(* gets what was written, in order, whatever writev accepts of it.         *)
(***************************************************************************)
EXTENDS OutputBuffers, TLAPS, SequenceTheorems, WellFoundedInduction

(* Which procedure may be waiting for another to return.                   *)
Bases == {"dispatch", "wait", "block", "select", "check"}
Callers(l) ==
    CASE l = "writev" -> {"dispatch", "callback", "establish", "mask", "close"}
      [] l = "close" -> {"dispatch", "establish", "check"}
      [] l \in {"callback", "mask"} -> {"dispatch", "select"}
      [] l = "establish" -> {"block"}
      [] OTHER -> {}

StackInv ==
    /\ pc[Len(pc)] \in Bases
    /\ \A i \in 1..Len(pc) - 1 : pc[i + 1] \in Callers(pc[i])

(* The procedure is executed, or waits for its FlushClient.                *)
Under(l) == pc[1] = l \/ (pc[1] = "writev" /\ pc[2] = l)

(* The locals of a procedure hold something only while it is active, and   *)
(* no more is offered to writev than is left.                              *)
ThreadInv ==
    /\ pc[1] = "writev" =>
           /\ flush.who \in Conns /\ Connected(flush.who)
           /\ flush.written + flush.todo <= Len(Pending(flush.who))
    /\ pc[1] # "writev" => flush = NoFlush
    /\ IF Under("close") THEN closing \in Conns /\ Connected(closing) ELSE closing = NoConn
    /\ ~Under("mask") => mask = {}

(* ConnectionTranslation and the descriptors of the clients agree; what is *)
(* registered for nobody is in no set.                                     *)
FdInv ==
    /\ \A c \in Conns : Connected(c) => fdOf[c] \in Fds /\ translation[fdOf[c]] = c
    /\ \A f \in Fds : translation[f] # NoConn =>
           Connected(translation[f]) /\ fdOf[translation[f]] = f
    /\ \A f \in OutputPending \cup ClientsWithInput \cup ClientsWriteBlocked :
           translation[f] # NoConn
    /\ \A c \in Conns : trans[c] => Connected(c)

(* Nothing was written for a connection that does not exist yet.           *)
UnusedInv ==
    \A c \in Conns : status[c] = "unused" =>
        output[c] = NoOutput /\ received[c] = <<>> /\ sock[c] = <<>> /\ sent[c] = <<>>

(* Under EstablishNewConnections there is a connection to be made.         *)
Establishing == Len(pc) > 1 /\ pc[Len(pc)] = "block"
EstablishInv == Establishing => \E c \in Conns : status[c] = "unused"

IInv == TypeOK /\ StackInv /\ ThreadInv /\ FdInv /\ UnusedInv /\ EstablishInv

-----------------------------------------------------------------------------
(* Numbers and sequences.                                                  *)

(* The type invariant of the next state, part by part: the steps below that *)
(* change several variables establish the parts first.                     *)
LEMMA TypeFrom ==
    ASSUME status' \in [Conns -> {"unused", "running", "exception", "gone"}],
           fdOf' \in [Conns -> Fds \cup {NoFd}], trans' \in [Conns -> BOOLEAN],
           translation' \in [Fds -> Conns \cup {NoConn}],
           output' \in [Conns -> [size : Nat, buf : Seq(Values)]], freeOutputs' \in Seq(Nat),
           OutputPending' \subseteq Fds, ClientsWithInput' \subseteq Fds,
           ClientsWriteBlocked' \subseteq Fds, mask' \subseteq Fds,
           NewOutputPending' \in BOOLEAN, AnyClientsWriteBlocked' \in BOOLEAN,
           newoutput' \in BOOLEAN,
           pc' \in Seq(Labels), pc' # <<>>,
           flush' \in [who : Conns \cup {NoConn}, extra : Seq(Values), written : Nat, todo : Nat],
           closing' \in Conns \cup {NoConn},
           sock' \in [Conns -> Seq(Values)], received' \in [Conns -> Seq(Values)],
           sent' \in [Conns -> Seq(Values)], peer' \in [Conns -> {"up", "down"}]
    PROVE  TypeOK'
    BY Zenon DEF TypeOK

LEMMA ClientTypes ==
    ASSUME TypeOK, UNCHANGED clientVars
    PROVE  /\ status' \in [Conns -> {"unused", "running", "exception", "gone"}]
           /\ fdOf' \in [Conns -> Fds \cup {NoFd}] /\ trans' \in [Conns -> BOOLEAN]
           /\ translation' \in [Fds -> Conns \cup {NoConn}]
    BY DEF TypeOK, clientVars

LEMMA PeerTypes ==
    ASSUME TypeOK, UNCHANGED peerVars
    PROVE  /\ sock' \in [Conns -> Seq(Values)] /\ received' \in [Conns -> Seq(Values)]
           /\ peer' \in [Conns -> {"up", "down"}]
    BY DEF TypeOK, peerVars

LEMMA LeastIsMember ==
    ASSUME NEW S, S \subseteq Nat, S # {}
    PROVE  LeastOf(S) \in S
<1> DEFINE R == OpToRel(<, Nat)
<1>1. IsWellFoundedOn(R, Nat) BY NatLessThanWellFounded, Zenon
<1>2. \A x \in Nat, y \in Nat : x < y => <<x, y>> \in R BY DEF OpToRel
<1> HIDE DEF R
<1>3. \E x \in S : \A y \in S : ~(<<y, x>> \in R) BY <1>1, WFMin, Zenon
<1>4. \E x \in S : \A y \in S : ~(y < x) BY <1>2, <1>3, Zenon
<1>5. \A x \in S, y \in S : ~(y < x) => x <= y OBVIOUS
<1>6. \E x \in S : \A y \in S : x <= y BY <1>4, <1>5, Zenon
<1> QED BY <1>6, Zenon DEF LeastOf

LEMMA PadsAre ==
    ASSUME NEW n \in Nat
    PROVE  /\ Pad(n) \in Nat /\ Pad(0) = 0
           /\ Pads(n) \in Seq(Values) /\ Len(Pads(n)) = n
           /\ \A i \in 1..n : Pads(n)[i] = PadByte
<1>1. Pad(n) \in Nat /\ Pad(0) = 0 BY NumbersAssumption DEF Pad
<1>2. PadByte \in Values BY NumbersAssumption DEF Values, PadByte
<1> QED BY <1>1, <1>2 DEF Pads

LEMMA BytesAre ==
    ASSUME NEW c \in Conns, NEW old \in Nat, NEW n \in Nat, old + n <= MaxBytes
    PROVE  /\ [i \in 1..n |-> Byte(c, old + i)] \in Seq(Values)
           /\ Len([i \in 1..n |-> Byte(c, old + i)]) = n
<1>1. ASSUME NEW i \in 1..n PROVE Byte(c, old + i) \in Values
  <2> DEFINE w == MaxBytes + 1
  <2>1. w \in Nat \ {0} /\ old + i < w /\ old + i \in Nat BY NumbersAssumption
  <2>2. c \in Nat /\ c \in 1..MaxConns /\ MaxConns \in Nat BY NumbersAssumption DEF Conns
  <2> HIDE DEF w
  <2>3. c * w \in Nat /\ MaxConns * w \in Nat /\ (MaxConns + 1) * w = MaxConns * w + w
      BY <2>1, <2>2
  <2>4. c * w <= MaxConns * w BY <2>1, <2>2
  <2> QED BY <2>1, <2>3, <2>4 DEF Byte, Values, w
<1> QED BY <1>1

(* What FlushClient has to write of a client's output.                     *)
LEMMA PendingIs ==
    ASSUME TypeOK, NEW c \in Conns
    PROVE  /\ Pending(c) \in Seq(Values)
           /\ Len(Pending(c)) =
                  Len(output[c].buf) + Len(flush.extra) + Pad(Len(flush.extra))
<1> DEFINE b == output[c].buf
           e == flush.extra
           p == Pads(Pad(Len(e)))
<1>1. b \in Seq(Values) /\ e \in Seq(Values) BY DEF TypeOK
<1>2. Len(e) \in Nat BY <1>1
<1>3. p \in Seq(Values) /\ Len(p) = Pad(Len(e)) BY <1>2, PadsAre
<1>4. Pending(c) = (b \o e) \o p BY DEF Pending
<1> HIDE DEF b, e, p
<1>5. (b \o e) \o p \in Seq(Values) /\ Len((b \o e) \o p) = Len(b) + Len(e) + Len(p)
    BY <1>1, <1>3
<1> QED BY <1>3, <1>4, <1>5 DEF b, e

(* What is left of a sequence after its first w elements.                  *)
Drop(s, w) == SubSeq(s, w + 1, Len(s))

LEMMA DropIs ==
    ASSUME NEW S, NEW s \in Seq(S), NEW w \in Nat, w <= Len(s)
    PROVE  /\ Drop(s, w) \in Seq(S) /\ Len(Drop(s, w)) = Len(s) - w
           /\ \A i \in 1..Len(s) - w : Drop(s, w)[i] = s[w + i]
    BY DEF Drop

(* The two orders of joining three sequences.                              *)
Associates(a, b, d) == (a \o b) \o d = a \o (b \o d)

LEMMA ConcatAssociates ==
    \A a, b, d \in Seq(Values) : Associates(a, b, d)
<1> SUFFICES ASSUME NEW a \in Seq(Values), NEW b \in Seq(Values), NEW d \in Seq(Values)
             PROVE  (a \o b) \o d = a \o (b \o d)
    BY DEF Associates
<1> QED BY ConcatAssociative

LEMMA JoinIs ==
    ASSUME NEW S, NEW s \in Seq(S), NEW t \in Seq(S)
    PROVE  /\ s \o t \in Seq(S) /\ Len(s \o t) = Len(s) + Len(t)
           /\ \A i \in 1..Len(s) : (s \o t)[i] = s[i]
           /\ \A i \in 1..Len(t) : (s \o t)[Len(s) + i] = t[i]
    OBVIOUS

LEMMA DropInFirst ==
    ASSUME NEW S, NEW s \in Seq(S), NEW t \in Seq(S), NEW w \in Nat, w <= Len(s)
    PROVE  Drop(s \o t, w) = Drop(s, w) \o t
<1>1. PICK m \in Nat, n \in Nat : m = Len(s) /\ n = Len(t)
  <2>1. Len(s) \in Nat /\ Len(t) \in Nat BY LenProperties
  <2> QED BY <2>1
<1>2. PICK j : j = s \o t OBVIOUS
<1>3. PICK d : d = Drop(s, w) OBVIOUS
<1>4. PICK x : x = Drop(j, w) OBVIOUS
<1>5. PICK y : y = d \o t OBVIOUS
<1>6. /\ j \in Seq(S) /\ Len(j) = m + n
      /\ \A i \in 1..m : j[i] = s[i]
      /\ \A i \in 1..n : j[m + i] = t[i]
    BY <1>1, <1>2, JoinIs
<1>7. d \in Seq(S) /\ Len(d) = m - w /\ \A i \in 1..m - w : d[i] = s[w + i]
    BY <1>1, <1>3, DropIs
<1>8. x \in Seq(S) /\ Len(x) = m + n - w /\ \A i \in 1..m + n - w : x[i] = j[w + i]
  <2>1. j \in Seq(S) /\ w <= Len(j) BY <1>1, <1>6
  <2>2. /\ x \in Seq(S) /\ Len(x) = Len(j) - w
        /\ \A i \in 1..Len(j) - w : x[i] = j[w + i]
      BY <1>4, <2>1, DropIs
  <2> QED BY <1>6, <2>2
<1>9. /\ y \in Seq(S) /\ Len(y) = (m - w) + n
      /\ \A i \in 1..m - w : y[i] = d[i]
      /\ \A i \in 1..n : y[(m - w) + i] = t[i]
  <2>1. d \in Seq(S) BY <1>7
  <2>2. /\ y \in Seq(S) /\ Len(y) = Len(d) + Len(t)
        /\ \A i \in 1..Len(d) : y[i] = d[i]
        /\ \A i \in 1..Len(t) : y[Len(d) + i] = t[i]
      BY <1>5, <2>1, JoinIs
  <2> QED BY <1>1, <1>7, <2>2
<1>10. ASSUME NEW i \in 1..m + n - w PROVE x[i] = y[i]
  <2>1. x[i] = j[w + i] BY <1>8
  <2>2. CASE i <= m - w
    <3>1. i \in 1..m - w /\ w + i \in 1..m BY <2>2
    <3> QED BY <1>6, <1>7, <1>9, <2>1, <3>1
  <2>3. CASE ~(i <= m - w)
    <3>1. PICK k \in 1..n : i = (m - w) + k /\ w + i = m + k
      <4>1. /\ i - (m - w) \in 1..n /\ i = (m - w) + (i - (m - w))
            /\ w + i = m + (i - (m - w))
          BY <1>1, <2>3
      <4> QED BY <4>1
    <3> QED BY <1>6, <1>9, <2>1, <3>1
  <2> QED BY <2>2, <2>3, Zenon
<1>11. x = y
  <2>1. Len(x) = Len(y) /\ m + n - w = Len(x) BY <1>8, <1>9
  <2>2. \A i \in 1..Len(x) : x[i] = y[i] BY <1>10, <2>1
  <2>3. x \in Seq(S) /\ y \in Seq(S) BY <1>8, <1>9
  <2> QED BY <2>1, <2>2, <2>3, SeqEqual
<1> QED BY <1>2, <1>3, <1>4, <1>5, <1>11

LEMMA DropFirst ==
    ASSUME NEW S, NEW s \in Seq(S), NEW t \in Seq(S), NEW w \in Nat, w <= Len(t)
    PROVE  Drop(s \o t, Len(s) + w) = Drop(t, w)
<1>1. PICK m \in Nat, n \in Nat : m = Len(s) /\ n = Len(t)
  <2>1. Len(s) \in Nat /\ Len(t) \in Nat BY LenProperties
  <2> QED BY <2>1
<1>2. PICK j : j = s \o t OBVIOUS
<1>3. PICK d : d = Drop(t, w) OBVIOUS
<1>4. PICK x : x = Drop(j, m + w) OBVIOUS
<1>5. /\ j \in Seq(S) /\ Len(j) = m + n
      /\ \A i \in 1..n : j[m + i] = t[i]
    BY <1>1, <1>2, JoinIs
<1>6. d \in Seq(S) /\ Len(d) = n - w /\ \A i \in 1..n - w : d[i] = t[w + i]
    BY <1>1, <1>3, DropIs
<1>7. x \in Seq(S) /\ Len(x) = n - w /\ \A i \in 1..n - w : x[i] = j[(m + w) + i]
  <2>1. PICK v \in Nat : v = m + w OBVIOUS
  <2>2. j \in Seq(S) /\ v <= Len(j) BY <1>1, <1>5, <2>1
  <2>3. /\ x \in Seq(S) /\ Len(x) = Len(j) - v
        /\ \A i \in 1..Len(j) - v : x[i] = j[v + i]
      BY <1>4, <2>1, <2>2, DropIs
  <2>4. Len(j) - v = n - w BY <1>5, <2>1
  <2> QED BY <2>1, <2>3, <2>4
<1>8. ASSUME NEW i \in 1..n - w PROVE x[i] = d[i]
  <2>1. (m + w) + i = m + (w + i) /\ w + i \in 1..n BY <1>1
  <2> QED BY <1>5, <1>6, <1>7, <2>1
<1>9. x = d BY <1>1, <1>6, <1>7, <1>8, SeqEqual
<1> QED BY <1>1, <1>2, <1>3, <1>4, <1>9

LEMMA DropPads ==
    ASSUME NEW k \in Nat, NEW w \in Nat, w <= k
    PROVE  Drop(Pads(k), w) = Pads(k - w)
<1>1. PICK p : p = Pads(k) OBVIOUS
<1>2. PICK n \in Nat : n = k - w OBVIOUS
<1>3. PICK q : q = Pads(n) OBVIOUS
<1>4. PICK x : x = Drop(p, w) OBVIOUS
<1>5. p \in Seq(Values) /\ Len(p) = k /\ \A i \in 1..k : p[i] = PadByte
    BY <1>1, PadsAre
<1>6. q \in Seq(Values) /\ Len(q) = n /\ \A i \in 1..n : q[i] = PadByte
    BY <1>3, PadsAre
<1>7. x \in Seq(Values) /\ Len(x) = n /\ \A i \in 1..n : x[i] = p[w + i]
  <2>1. p \in Seq(Values) /\ w <= Len(p) BY <1>5
  <2>2. /\ x \in Seq(Values) /\ Len(x) = Len(p) - w
        /\ \A i \in 1..Len(p) - w : x[i] = p[w + i]
      BY <1>4, <2>1, DropIs
  <2> QED BY <1>2, <1>5, <2>2
<1>8. ASSUME NEW i \in 1..n PROVE x[i] = q[i]
  <2>1. w + i \in 1..k BY <1>2
  <2> QED BY <1>5, <1>6, <1>7, <2>1
<1>9. x = q BY <1>6, <1>7, <1>8, SeqEqual
<1> QED BY <1>1, <1>2, <1>3, <1>4, <1>9

(* What is left of a buffer b, data e and k pads when w of them are written *)
(* and n are not.                                                          *)
Left(b, e, w, n) ==
    LET kept == IF w < Len(b) THEN SubSeq(b, w + 1, Len(b)) ELSE <<>>
        skip == IF w < Len(b) THEN 0 ELSE w - Len(b)
        moved == kept \o SubSeq(e, skip + 1, Len(e))
    IN  moved \o Pads(n - Len(moved))

Fits(b, e, w, n, k) == w + n = Len(b) + (Len(e) + k)

LEMMA LeftIs ==
    ASSUME NEW b \in Seq(Values), NEW e \in Seq(Values),
           NEW w \in Nat, NEW n \in Nat, NEW k \in Nat, Fits(b, e, w, n, k)
    PROVE  /\ Left(b, e, w, n) \in Seq(Values)
           /\ Left(b, e, w, n) = Drop(b \o (e \o Pads(k)), w)
<1>1. PICK p : p = Pads(k) OBVIOUS
<1>. PICK lb \in Nat, le \in Nat : lb = Len(b) /\ le = Len(e)
  <2>1. Len(b) \in Nat /\ Len(e) \in Nat BY LenProperties
  <2> QED BY <2>1
<1>. w + n = lb + (le + k) BY DEF Fits
<1>2. p \in Seq(Values) /\ Len(p) = k BY <1>1, PadsAre
<1>3. PICK ep : ep = e \o p OBVIOUS
<1>4. ep \in Seq(Values) /\ Len(ep) = le + k BY <1>2, <1>3, JoinIs
<1>5. PICK r, x : r = Left(b, e, w, n) /\ x = Drop(b \o ep, w) OBVIOUS
<1>6. r \in Seq(Values) /\ r = x
  <2>1. CASE w < lb
    <3>1. PICK kept : kept = Drop(b, w) OBVIOUS
    <3>2. PICK m \in Nat : m = lb - w
      <4>1. lb - w \in Nat BY <2>1
      <4> QED BY <4>1
    <3>3. kept \in Seq(Values) /\ Len(kept) = m
      <4>1. w <= Len(b) BY <2>1
      <4> QED BY <3>1, <3>2, <4>1, DropIs
    <3>4. PICK moved : moved = kept \o e OBVIOUS
    <3>5. moved \in Seq(Values) /\ Len(moved) = m + le BY <3>3, <3>4, JoinIs
    <3>6. n - Len(moved) = k BY <3>2, <3>5
    <3>7. SubSeq(e, 0 + 1, Len(e)) = e
      <4>1. SubSeq(e, 1, Len(e)) = e BY SubSeqFull
      <4> QED BY <4>1
    <3>8. SubSeq(b, w + 1, Len(b)) = kept BY <3>1, Zenon DEF Drop
    <3>9. r = moved \o Pads(n - Len(moved))
      <4>1. w < Len(b) BY <2>1
      <4>2. r = (kept \o e) \o Pads(n - Len(kept \o e))
          BY <1>5, <3>7, <3>8, <4>1, Zenon DEF Left
      <4> QED BY <3>4, <4>2, Zenon
    <3>10. r = moved \o p BY <1>1, <3>6, <3>9, Zenon
    <3>11. moved \o p = kept \o ep
      <4>1. Associates(kept, e, p) BY <1>2, <3>3, ConcatAssociates, Zenon
      <4> QED BY <1>3, <3>4, <4>1, Zenon DEF Associates
    <3>12. x = kept \o ep
      <4>1. w <= Len(b) BY <2>1
      <4>2. Drop(b \o ep, w) = Drop(b, w) \o ep BY <1>4, <4>1, DropInFirst, Zenon
      <4> QED BY <1>5, <3>1, <4>2, Zenon
    <3>13. moved \o p \in Seq(Values) BY <1>2, <3>5, JoinIs
    <3> QED BY <3>10, <3>11, <3>12, <3>13, Zenon
  <2>2. CASE ~(w < lb)
    <3>1. PICK skip \in Nat : skip = w - lb
      <4>1. w - lb \in Nat BY <2>2
      <4> QED BY <4>1
    <3>2. w = lb + skip /\ skip + n = le + k BY <3>1
    <3>3. PICK d : d = Drop(e, skip) OBVIOUS
    <3>4. x = Drop(ep, skip)
      <4>1. skip <= Len(ep) BY <1>4, <3>2
      <4>2. Drop(b \o ep, Len(b) + skip) = Drop(ep, skip) BY <1>4, <4>1, DropFirst
      <4>3. w = Len(b) + skip BY <3>2
      <4> QED BY <1>5, <4>2, <4>3, Zenon
    <3>5. SubSeq(e, skip + 1, Len(e)) = d BY <3>3, Zenon DEF Drop
    <3>6. r = (<<>> \o d) \o Pads(n - Len(<<>> \o d))
      <4>1. ~(w < Len(b)) BY <2>2
      <4>2. skip = w - Len(b) BY <3>1, Zenon
      <4> QED BY <1>5, <3>5, <4>1, <4>2, Zenon DEF Left
    <3>7. CASE skip <= le
      <4>1. d \in Seq(Values) /\ Len(d) = le - skip BY <3>3, <3>7, DropIs
      <4>2. <<>> \o d = d BY <4>1, ConcatEmptySeq
      <4>3. n - Len(d) = k BY <3>2, <4>1
      <4>4. r = d \o p BY <1>1, <3>6, <4>2, <4>3, Zenon
      <4>5. Drop(ep, skip) = d \o p
        <5>1. skip <= Len(e) BY <3>7
        <5>2. Drop(e \o p, skip) = Drop(e, skip) \o p
            BY <1>2, <5>1, DropInFirst, Zenon
        <5> QED BY <1>3, <3>3, <5>2, Zenon
      <4>6. d \o p \in Seq(Values) BY <1>2, <4>1, JoinIs
      <4> QED BY <3>4, <4>4, <4>5, <4>6, Zenon
    <3>8. CASE ~(skip <= le)
      <4>1. d = <<>>
        <5>1. le \in Int /\ skip + 1 \in Int /\ le < skip + 1 BY <3>8
        <5> QED BY <3>3, <5>1, SubSeqEmpty DEF Drop
      <4>2. PICK z : z = Pads(n) OBVIOUS
      <4>3. z \in Seq(Values) BY <4>2, PadsAre
      <4>4. r = z
        <5>1. <<>> \o d = <<>> BY <4>1
        <5>2. n - Len(<<>>) = n OBVIOUS
        <5>3. <<>> \o z = z BY <4>3, ConcatEmptySeq
        <5> QED BY <3>6, <4>2, <5>1, <5>2, <5>3, Zenon
      <4>5. PICK u \in Nat : u = skip - le
        <5>1. skip - le \in Nat BY <3>8
        <5> QED BY <5>1
      <4>6. skip = le + u /\ u <= k /\ k - u = n BY <3>2, <4>5
      <4>7. Drop(ep, skip) = Drop(p, u)
        <5>1. u <= Len(p) BY <1>2, <4>6
        <5>2. Drop(e \o p, Len(e) + u) = Drop(p, u) BY <1>2, <5>1, DropFirst
        <5>3. skip = Len(e) + u BY <4>6
        <5> QED BY <1>3, <5>2, <5>3, Zenon
      <4>8. Drop(p, u) = z
        <5>1. Drop(Pads(k), u) = Pads(k - u) BY <4>6, DropPads, Zenon
        <5> QED BY <1>1, <4>2, <4>6, <5>1, Zenon
      <4> QED BY <3>4, <4>3, <4>4, <4>7, <4>8, Zenon
    <3> QED BY <3>7, <3>8, Zenon
  <2> QED BY <2>1, <2>2, Zenon
<1> QED BY <1>1, <1>3, <1>5, <1>6, Zenon

(* What was not written yet, in the caller's data and its pads or in the   *)
(* buffer, is what the buffer holds afterwards.                            *)
LEMMA RestIs ==
    ASSUME NEW c \in Conns, c = flush.who, NEW w \in Nat, w = flush.written,
           output[c].buf \in Seq(Values), flush.extra \in Seq(Values),
           NotWritten \in Nat
    PROVE  Rest(output[c]) \in Seq(Values) /\ Rest(output[c]) = Drop(Pending(c), w)
<1>1. PICK b \in Seq(Values), e \in Seq(Values) : b = output[c].buf /\ e = flush.extra
    OBVIOUS
<1>2. PICK lb \in Nat, le \in Nat : lb = Len(b) /\ le = Len(e)
  <2>1. Len(b) \in Nat /\ Len(e) \in Nat BY <1>1, LenProperties
  <2> QED BY <2>1
<1>3. PICK k \in Nat : k = Pad(le) BY PadsAre
<1>4. Pads(k) \in Seq(Values) /\ Len(Pads(k)) = k BY PadsAre
<1>5. PICK ep : ep = e \o Pads(k) OBVIOUS
<1>6. ep \in Seq(Values) /\ Len(ep) = le + k BY <1>2, <1>4, <1>5, JoinIs
<1>7. Pending(c) = b \o ep
  <2>1. Pending(c) = (b \o e) \o Pads(k) BY <1>1, <1>2, <1>3, Zenon DEF Pending
  <2>2. Associates(b, e, Pads(k)) BY <1>1, <1>4, ConcatAssociates, Zenon
  <2> QED BY <1>5, <2>1, <2>2, Zenon DEF Associates
<1>8. PICK n \in Nat : n = NotWritten OBVIOUS
<1>9. w + n = lb + (le + k)
  <2>1. PICK m \in Nat : m = lb + (le + k) OBVIOUS
  <2>2. Len(b \o ep) = m BY <1>2, <1>6, <2>1, JoinIs
  <2>3. n = m - w BY <1>7, <1>8, <2>2, Zenon DEF NotWritten
  <2>4. w + n = m BY ONLY <2>3, w \in Nat, n \in Nat, m \in Nat
  <2> QED BY <2>1, <2>4, Zenon
<1>10. Rest(output[c]) = Left(b, e, w, n) BY <1>1, <1>8, Zenon DEF Rest, Left
<1>11. /\ Left(b, e, w, n) \in Seq(Values)
       /\ Left(b, e, w, n) = Drop(b \o (e \o Pads(k)), w)
  <2>1. Fits(b, e, w, n, k) BY <1>2, <1>9, Zenon DEF Fits
  <2>2. b \in Seq(Values) /\ e \in Seq(Values) BY <1>1
  <2>3. w \in Nat /\ n \in Nat /\ k \in Nat OBVIOUS
  <2> QED BY ONLY LeftIs, <2>1, <2>2, <2>3
<1> QED BY <1>5, <1>7, <1>10, <1>11, Zenon

-----------------------------------------------------------------------------
(* The stack of procedures.                                                *)

LEMMA StackTop ==
    ASSUME TypeOK, StackInv
    PROVE  /\ pc \in Seq(Labels) /\ Len(pc) \in Nat \ {0} /\ pc[1] = Head(pc)
           /\ pc[1] \in Labels /\ (Len(pc) > 1 \/ Len(pc) = 1)
           /\ pc[1] \notin Bases => Len(pc) > 1 /\ pc[2] \in Callers(pc[1])
           /\ pc[1] \in Bases => Len(pc) = 1
<1>1. pc \in Seq(Labels) /\ pc # <<>> BY DEF TypeOK
<1>2. Len(pc) \in Nat \ {0} BY <1>1, EmptySeq
<1>3. pc \in Seq(Labels) /\ Len(pc) \in Nat \ {0} /\ pc[1] = Head(pc) /\ pc[1] \in Labels
    BY <1>1, <1>2
<1>4. pc[1] \notin Bases => Len(pc) > 1 /\ pc[2] \in Callers(pc[1])
    BY <1>3 DEF StackInv
<1>5. ASSUME pc[1] \in Bases PROVE Len(pc) = 1
  <2>1. Callers(pc[1]) = {} BY <1>5 DEF Bases, Callers
  <2>2. CASE Len(pc) > 1
    <3>1. pc[2] \in Callers(pc[1]) BY <1>3, <2>2 DEF StackInv
    <3> QED BY <2>1, <3>1
  <2>3. Len(pc) > 1 \/ Len(pc) = 1 BY <1>1
  <2> QED BY <2>2, <2>3, Zenon
<1>6. Len(pc) > 1 \/ Len(pc) = 1 BY <1>1
<1> QED BY <1>3, <1>4, <1>5, <1>6

LEMMA Returns ==
    ASSUME TypeOK, StackInv, pc[1] \notin Bases, Return
    PROVE  /\ pc' \in Seq(Labels) /\ pc' # <<>> /\ StackInv'
           /\ pc'[1] = pc[2] /\ pc'[1] \in Callers(pc[1])
           /\ Establishing' => Establishing
<1>1. pc \in Seq(Labels) /\ Len(pc) \in Nat \ {0} /\ Len(pc) > 1 /\ pc[2] \in Callers(pc[1])
    BY StackTop
<1>2. /\ pc' \in Seq(Labels) /\ Len(pc') = Len(pc) - 1
      /\ \A i \in 1..Len(pc') : pc'[i] = pc[i + 1]
    BY <1>1 DEF Return
<1>3. pc'[Len(pc')] \in Bases BY <1>1, <1>2 DEF StackInv
<1>4. ASSUME NEW i \in 1..Len(pc') - 1 PROVE pc'[i + 1] \in Callers(pc'[i])
  <2>1. pc'[i] = pc[i + 1] /\ pc'[i + 1] = pc[(i + 1) + 1] BY <1>1, <1>2
  <2>2. pc[(i + 1) + 1] \in Callers(pc[i + 1]) BY <1>1, <1>2 DEF StackInv
  <2> QED BY <2>1, <2>2
<1>5. Establishing' => Establishing BY <1>1, <1>2 DEF Establishing
<1> QED BY <1>1, <1>2, <1>3, <1>4, <1>5 DEF StackInv

LEMMA Calls ==
    ASSUME TypeOK, StackInv, NEW l \in Labels, Call(l), pc[1] \in Callers(l)
    PROVE  /\ pc' \in Seq(Labels) /\ pc' # <<>> /\ StackInv'
           /\ pc'[1] = l /\ pc'[2] = pc[1]
           /\ pc[1] # "block" => (Establishing' => Establishing)
<1>1. /\ pc \in Seq(Labels) /\ Len(pc) \in Nat \ {0}
      /\ Len(pc) > 1 \/ Len(pc) = 1
    BY StackTop
<1> DEFINE s == pc'
<1>2. /\ s \in Seq(Labels) /\ Len(s) = Len(pc) + 1 /\ s[1] = l
      /\ \A i \in 1..Len(pc) : s[i + 1] = pc[i]
    BY <1>1 DEF Call
<1>3. s[Len(s)] \in Bases BY <1>1, <1>2 DEF StackInv
<1>4. ASSUME NEW i \in 1..Len(s) - 1 PROVE s[i + 1] \in Callers(s[i])
  <2>1. CASE i = 1 BY <1>1, <1>2, <2>1
  <2>2. CASE i > 1
    <3>1. PICK j \in 1..Len(pc) - 1 : i = j + 1 BY <1>1, <1>2, <2>2
    <3>2. pc[j + 1] \in Callers(pc[j]) BY DEF StackInv
    <3> QED BY <1>1, <1>2, <3>1, <3>2
  <2> QED BY <2>1, <2>2
<1>5. pc[1] # "block" => (Establishing' => Establishing)
  <2>1. s[Len(s)] = pc[Len(pc)] BY <1>1, <1>2
  <2>2. CASE Len(pc) > 1 BY <2>1, <2>2 DEF Establishing
  <2>3. CASE Len(pc) = 1
    <3>1. pc'[Len(pc')] = pc[1] BY <2>1, <2>3
    <3> QED BY <3>1, Zenon DEF Establishing
  <2> QED BY <1>1, <2>2, <2>3
<1> QED BY <1>1, <1>2, <1>3, <1>4, <1>5 DEF StackInv

LEMMA Gotos ==
    ASSUME TypeOK, StackInv, NEW l \in Labels, Goto(l),
           \/ pc[1] \in Bases /\ l \in Bases
           \/ pc[1] = "callback" /\ l = "mask"
    PROVE  /\ pc' \in Seq(Labels) /\ pc' # <<>> /\ StackInv' /\ pc'[1] = l
           /\ Establishing' => Establishing
<1>1. /\ pc \in Seq(Labels) /\ Len(pc) \in Nat \ {0}
      /\ pc[1] \notin Bases => Len(pc) > 1 /\ pc[2] \in Callers(pc[1])
      /\ pc[1] \in Bases => Len(pc) = 1
    BY StackTop
<1>2. /\ pc' \in Seq(Labels) /\ Len(pc') = Len(pc) /\ pc'[1] = l
      /\ \A i \in 2..Len(pc) : pc'[i] = pc[i]
    BY <1>1 DEF Goto
<1>3. CASE pc[1] \in Bases /\ l \in Bases
    BY <1>1, <1>2, <1>3 DEF StackInv, Establishing
<1>4. CASE pc[1] = "callback" /\ l = "mask"
  <2>1. Len(pc) > 1 /\ Callers("mask") = Callers("callback")
      BY <1>1, <1>4 DEF Bases, Callers
  <2>2. ASSUME NEW i \in 1..Len(pc') - 1 PROVE pc'[i + 1] \in Callers(pc'[i])
    <3>1. pc[i + 1] \in Callers(pc[i]) BY <1>2 DEF StackInv
    <3> QED BY <1>1, <1>2, <1>4, <2>1, <3>1
  <2>3. pc'[Len(pc')] = pc[Len(pc)] BY <1>1, <1>2, <2>1
  <2>4. StackInv' BY <1>1, <1>2, <2>1, <2>2, <2>3 DEF StackInv
  <2> QED BY <1>2, <2>1, <2>3, <2>4 DEF Establishing
<1> QED BY <1>3, <1>4

-----------------------------------------------------------------------------
(* One lemma for each group of actions.                                    *)

(* The thread goes from one procedure to another, and touches nothing.     *)
LEMMA ControlKeeps ==
    ASSUME IInv, pc[1] # "writev", pc'[1] # "writev", newoutput' \in BOOLEAN,
           pc' \in Seq(Labels), pc' # <<>>, StackInv',
           pc'[1] = "close" <=> pc[1] = "close",
           pc[1] = "mask" => pc'[1] = "mask" \/ mask = {},
           Establishing' => Establishing \/ \E c \in Conns : status[c] = "unused",
           UNCHANGED <<clientVars, bufferVars, setVars, flagVars, mask, flush, closing,
                       peerVars, sent>>
    PROVE  IInv'
<1> USE DEF clientVars, bufferVars, setVars, flagVars, peerVars
<1>1. TypeOK' BY DEF IInv, TypeOK
<1>2. ThreadInv'
    BY DEF IInv, ThreadInv, Under, Connected
<1>3. FdInv' BY DEF IInv, FdInv, Connected
<1>4. UnusedInv' BY DEF IInv, UnusedInv
<1>5. EstablishInv' BY DEF IInv, EstablishInv
<1> QED BY <1>1, <1>2, <1>3, <1>4, <1>5 DEF IInv

LEMMA ControlInv ==
    ASSUME IInv,
           \/ FlushAllOutput \/ FlushEnds \/ EstablishNewConnections \/ AcceptFails
           \/ Wait \/ BlockHandler \/ SelectFails \/ Checked
    PROVE  IInv'
<1> USE DEF At
<1>1. /\ pc \in Seq(Labels) /\ pc[1] = Head(pc) /\ newoutput \in BOOLEAN
      /\ NewOutputPending \in BOOLEAN /\ TypeOK /\ StackInv
    BY StackTop DEF IInv, TypeOK
<1>2. CASE FlushAllOutput
  <2>1. pc[1] = "dispatch" /\ pc' = <<"callback">> \o pc /\ newoutput' \in BOOLEAN
      BY <1>1, <1>2 DEF FlushAllOutput, Call
  <2>2. /\ pc' \in Seq(Labels) /\ pc' # <<>> /\ StackInv' /\ pc'[1] = "callback"
        /\ Establishing' => Establishing
      BY <1>1, <2>1, Calls DEF Labels, Callers, Call
  <2> QED BY <1>2, <2>1, <2>2, ControlKeeps DEF FlushAllOutput
<1>3. CASE FlushEnds \/ AcceptFails
  <2>1. /\ pc[1] \in {"mask", "establish"} /\ Return /\ UNCHANGED newoutput
        /\ pc[1] = "mask" => mask = {}
      BY <1>1, <1>3 DEF FlushEnds, AcceptFails
  <2>2. /\ pc' \in Seq(Labels) /\ pc' # <<>> /\ StackInv'
        /\ pc'[1] \in {"dispatch", "select", "block"}
        /\ Establishing' => Establishing
      BY <1>1, <2>1, Returns DEF Callers, Bases
  <2> QED BY <1>1, <1>3, <2>1, <2>2, ControlKeeps DEF FlushEnds, AcceptFails
<1>4. CASE EstablishNewConnections \/ BlockHandler
  <2>1. /\ pc[1] \in {"wait", "block"} /\ newoutput' \in BOOLEAN
        /\ \/ pc' = <<"establish", "block">>
           \/ pc' = <<"callback", "select">>
           \/ pc' = <<"select">>
      BY <1>1, <1>4 DEF EstablishNewConnections, BlockHandler
  <2>2. /\ pc' \in Seq(Labels) /\ pc' # <<>> /\ StackInv'
        /\ pc'[1] \in {"establish", "callback", "select"}
    <3>1. CASE pc' = <<"select">> BY <3>1 DEF Labels, StackInv, Bases
    <3>2. CASE pc' = <<"establish", "block">>
        BY <3>2 DEF Labels, StackInv, Bases, Callers
    <3>3. CASE pc' = <<"callback", "select">>
        BY <3>3 DEF Labels, StackInv, Bases, Callers
    <3> QED BY <2>1, <3>1, <3>2, <3>3
  <2>3. ASSUME Establishing' PROVE \E c \in Conns : status[c] = "unused"
    <3>1. pc' = <<"establish", "block">> BY <2>1, <2>3 DEF Establishing
    <3>2. CASE EstablishNewConnections BY <3>2 DEF EstablishNewConnections
    <3>3. CASE BlockHandler
      <4>1. pc'[1] # "establish" BY <3>3 DEF BlockHandler
      <4> QED BY <3>1, <4>1
    <3> QED BY <1>4, <3>2, <3>3
  <2> QED BY <1>4, <2>1, <2>2, <2>3, ControlKeeps DEF EstablishNewConnections, BlockHandler
<1>5. CASE Wait \/ SelectFails \/ Checked
  <2>1. /\ pc[1] \in {"dispatch", "select", "check"} /\ UNCHANGED newoutput
        /\ Goto("wait") \/ Goto("check")
      BY <1>1, <1>5 DEF Wait, SelectFails, Checked
  <2>2. /\ pc' \in Seq(Labels) /\ pc' # <<>> /\ StackInv'
        /\ pc'[1] \in {"wait", "check"}
        /\ Establishing' => Establishing
      BY <1>1, <2>1, Gotos DEF Labels, Bases
  <2> QED BY <1>1, <1>5, <2>1, <2>2, ControlKeeps DEF Wait, SelectFails, Checked
<1> QED BY <1>2, <1>3, <1>4, <1>5

(* Peers, requests and the screen saver leave the thread where it is.      *)
LEMMA OutsideInv ==
    ASSUME IInv, NEW c \in Conns,
           \/ PeerReads(c) \/ PeerCloses(c) \/ ResetOsBuffers
           \/ \E more \in BOOLEAN : SetInput(c, more)
    PROVE  IInv'
<1> USE DEF clientVars, bufferVars, setVars, flagVars, threadVars, peerVars
<1>1. /\ UNCHANGED <<status, fdOf, trans, translation, output, threadVars, sent,
                     OutputPending, ClientsWriteBlocked>>
      /\ StackInv' /\ EstablishInv'
    BY DEF IInv, StackInv, EstablishInv, Establishing, PeerReads, PeerCloses, ResetOsBuffers, SetInput
<1>2. ThreadInv' BY <1>1 DEF IInv, ThreadInv, Under, Connected, Pending
<1>3. CASE PeerReads(c)
  <2>1. /\ sock[c] \in Seq(Values) /\ sock[c] # <<>> /\ received[c] \in Seq(Values)
        /\ sock \in [Conns -> Seq(Values)] /\ received \in [Conns -> Seq(Values)]
      BY <1>3 DEF PeerReads, IInv, TypeOK
  <2>2. Tail(sock[c]) \in Seq(Values) /\ Append(received[c], Head(sock[c])) \in Seq(Values)
      BY <2>1
  <2>3. sock' \in [Conns -> Seq(Values)] /\ received' \in [Conns -> Seq(Values)]
      BY <1>3, <2>1, <2>2 DEF PeerReads
  <2>4. TypeOK'
    <3>1. /\ TypeOK /\ UNCHANGED clientVars
          /\ UNCHANGED <<bufferVars, setVars, flagVars, threadVars, peer, sent>>
        BY <1>1, <1>3 DEF PeerReads, IInv
    <3>2. /\ output' \in [Conns -> [size : Nat, buf : Seq(Values)]] /\ freeOutputs' \in Seq(Nat)
          /\ OutputPending' \subseteq Fds /\ ClientsWithInput' \subseteq Fds
          /\ ClientsWriteBlocked' \subseteq Fds
        BY <3>1 DEF TypeOK
    <3>3. /\ NewOutputPending' \in BOOLEAN /\ AnyClientsWriteBlocked' \in BOOLEAN
          /\ newoutput' \in BOOLEAN /\ mask' \subseteq Fds
          /\ pc' \in Seq(Labels) /\ pc' # <<>> /\ closing' \in Conns \cup {NoConn}
        BY <3>1 DEF TypeOK
    <3>4. /\ flush' \in [who : Conns \cup {NoConn}, extra : Seq(Values), written : Nat, todo : Nat]
          /\ peer' \in [Conns -> {"up", "down"}] /\ sent' \in [Conns -> Seq(Values)]
        BY <3>1 DEF TypeOK
    <3> QED BY <2>3, <3>1, <3>2, <3>3, <3>4, ClientTypes, TypeFrom
  <2>5. status[c] # "unused" BY <2>1 DEF IInv, UnusedInv
  <2>6. UnusedInv' BY <1>1, <1>3, <2>1, <2>5 DEF PeerReads, IInv, UnusedInv
  <2>7. FdInv' BY <1>1, <1>3 DEF PeerReads, IInv, FdInv, Connected
  <2> QED BY <1>1, <1>2, <2>4, <2>6, <2>7 DEF IInv
<1>4. CASE PeerCloses(c) \/ ResetOsBuffers
  <2>1. TypeOK'
    <3>1. CASE PeerCloses(c)
      <4>1. /\ peer' = [peer EXCEPT ![c] = "down"]
            /\ UNCHANGED <<bufferVars, setVars, flagVars, sock, received>>
          BY <3>1 DEF PeerCloses
      <4>2. peer' \in [Conns -> {"up", "down"}] BY <4>1 DEF IInv, TypeOK
      <4> QED BY <1>1, <4>1, <4>2 DEF IInv, TypeOK
    <3>2. CASE ResetOsBuffers
      <4>1. freeOutputs' \in Seq(Nat) /\ UNCHANGED <<setVars, flagVars, peerVars>>
          BY <3>2 DEF ResetOsBuffers
      <4> QED BY <1>1, <4>1 DEF IInv, TypeOK
    <3> QED BY <1>4, <3>1, <3>2
  <2>2. FdInv' /\ UnusedInv'
      BY <1>1, <1>4 DEF PeerCloses, ResetOsBuffers, IInv, FdInv, UnusedInv, Connected
  <2> QED BY <1>1, <1>2, <2>1, <2>2 DEF IInv
<1>5. ASSUME NEW more \in BOOLEAN, SetInput(c, more)
      PROVE  IInv'
  <2>1. fdOf[c] \in Fds /\ translation[fdOf[c]] = c /\ c # NoConn
      BY <1>5 DEF SetInput, IInv, FdInv, Conns, NoConn
  <2>2. ClientsWithInput' \subseteq ClientsWithInput \cup {fdOf[c]} BY <1>5 DEF SetInput
  <2>3. TypeOK'
    <3>1. ClientsWithInput' \subseteq Fds BY <2>1, <2>2 DEF IInv, TypeOK
    <3>2. UNCHANGED <<freeOutputs, flagVars, peerVars>> BY <1>5 DEF SetInput
    <3> QED BY <1>1, <3>1, <3>2 DEF IInv, TypeOK
  <2>4. FdInv' BY <1>1, <2>1, <2>2 DEF IInv, FdInv, Connected
  <2>5. UnusedInv' BY <1>1, <1>5 DEF SetInput, IInv, UnusedInv
  <2> QED BY <1>1, <1>2, <2>3, <2>4, <2>5 DEF IInv
<1> QED BY <1>3, <1>4, <1>5

(* The client whose buffer is written, and what is left of it.             *)
LEMMA FlushFacts ==
    ASSUME IInv, pc[1] = "writev"
    PROVE  \E c \in Conns :
               /\ c = flush.who /\ Connected(c) /\ fdOf[c] \in Fds /\ translation[fdOf[c]] = c
               /\ output[c].size \in Nat /\ output[c].buf \in Seq(Values)
               /\ flush.extra \in Seq(Values)
               /\ Pending(c) \in Seq(Values)
               /\ Len(Pending(c)) = Len(output[c].buf) + Len(flush.extra) + Pad(Len(flush.extra))
               /\ flush.written \in Nat /\ flush.todo \in Nat
               /\ NotWritten = Len(Pending(c)) - flush.written
               /\ NotWritten \in Nat /\ flush.todo <= NotWritten
<1>1. PICK c \in Conns :
          /\ c = flush.who /\ Connected(c)
          /\ flush.written + flush.todo <= Len(Pending(c))
    BY DEF IInv, ThreadInv
<1>2. /\ flush \in [who : Conns \cup {NoConn}, extra : Seq(Values), written : Nat, todo : Nat]
      /\ output[c] \in [size : Nat, buf : Seq(Values)]
    BY DEF IInv, TypeOK
<1>3. /\ Pending(c) \in Seq(Values)
      /\ Len(Pending(c)) = Len(output[c].buf) + Len(flush.extra) + Pad(Len(flush.extra))
    BY PendingIs DEF IInv
<1>4. Len(Pending(c)) \in Nat BY <1>3, LenProperties
<1>5. NotWritten = Len(Pending(c)) - flush.written BY <1>1 DEF NotWritten
<1>6. NotWritten \in Nat /\ flush.todo <= NotWritten
  <2>1. flush.written \in Nat /\ flush.todo \in Nat BY <1>2
  <2>2. flush.written + flush.todo <= Len(Pending(c)) BY <1>1
  <2>3. \A m, w, t, n \in Nat : w + t <= m => m - w \in Nat /\ t <= m - w OBVIOUS
  <2> QED BY <1>4, <1>5, <2>1, <2>2, <2>3
<1>7. fdOf[c] \in Fds /\ translation[fdOf[c]] = c BY <1>1 DEF IInv, FdInv
<1> QED BY <1>1, <1>2, <1>3, <1>5, <1>6, <1>7

LEMMA InvFrom ==
    ASSUME TypeOK', StackInv', ThreadInv', FdInv', UnusedInv', EstablishInv'
    PROVE  IInv'
    BY DEF IInv

(* A write that is accepted in part, or refused as too long.               *)
LEMMA WritevInv ==
    ASSUME IInv, Writev \/ WritevTooLong
    PROVE  IInv'
<1> USE DEF clientVars, bufferVars, setVars, flagVars, peerVars
<1>1. pc[1] = "writev" BY StackTop DEF Writev, WritevTooLong, Writing, At, IInv
<1>2. PICK c \in Conns :
          /\ c = flush.who /\ Connected(c) /\ Pending(c) \in Seq(Values)
          /\ flush.written \in Nat /\ flush.todo \in Nat
          /\ NotWritten = Len(Pending(c)) - flush.written
          /\ NotWritten \in Nat /\ flush.todo <= NotWritten
    BY <1>1, FlushFacts
<1>3. /\ UNCHANGED <<clientVars, bufferVars, setVars, flagVars, pc, newoutput, mask,
                     closing, received, peer, sent>>
      /\ sock' \in [Conns -> Seq(Values)]
      /\ \A d \in Conns \ {c} : sock'[d] = sock[d]
      /\ \E w, t \in Nat : /\ flush' = [flush EXCEPT !.written = w, !.todo = t]
                           /\ w + t <= Len(Pending(c))
  <2>1. CASE Writev
    <3>1. PICK len \in 1..Lower(flush.todo, Space(c)) :
              /\ sock' = [sock EXCEPT ![c] =
                             @ \o SubSeq(Pending(c), flush.written + 1, flush.written + len)]
              /\ flush' = [flush EXCEPT !.written = @ + len, !.todo = NotWritten - len]
        BY <1>2, <2>1 DEF Writev
    <3>2. sock \in [Conns -> Seq(Values)] BY DEF IInv, TypeOK
    <3>3. len \in Nat /\ len <= flush.todo
      <4>1. Space(c) \in Int BY <3>2, NumbersAssumption DEF Space
      <4> QED BY <1>2, <4>1 DEF Lower
    <3>4. flush.written + len <= Len(Pending(c)) /\ Len(Pending(c)) \in Nat
        BY <1>2, <3>3
    <3>5. SubSeq(Pending(c), flush.written + 1, flush.written + len) \in Seq(Values)
        BY <1>2, <3>3, <3>4
    <3>6. sock[c] \o SubSeq(Pending(c), flush.written + 1, flush.written + len)
              \in Seq(Values)
        BY <3>2, <3>5
    <3>7. flush.written + len \in Nat /\ NotWritten - len \in Nat
        BY <1>2, <3>3
    <3>8. (flush.written + len) + (NotWritten - len) <= Len(Pending(c))
        BY <1>2, <3>3, <3>4
    <3>9. flush' = [flush EXCEPT !.written = flush.written + len,
                                 !.todo = NotWritten - len]
        BY <3>1
    <3>10. UNCHANGED <<clientVars, bufferVars, setVars, flagVars, pc, newoutput, mask,
                       closing, received, peer, sent>>
        BY <2>1 DEF Writev
    <3>11. sock' \in [Conns -> Seq(Values)] /\ \A d \in Conns \ {c} : sock'[d] = sock[d]
        BY <3>1, <3>2, <3>6
    <3> QED BY <3>7, <3>8, <3>9, <3>10, <3>11, Zenon
  <2>2. CASE WritevTooLong
    <3>1. /\ flush' = [flush EXCEPT !.written = flush.written, !.todo = flush.todo \div 2]
          /\ UNCHANGED <<clientVars, bufferVars, setVars, flagVars, pc, newoutput, mask,
                         closing, peerVars, sent>>
        BY <2>2 DEF WritevTooLong, IInv, TypeOK
    <3>2. flush.todo \div 2 \in Nat /\ flush.todo \div 2 <= flush.todo BY <1>2
    <3>3. flush.written + flush.todo \div 2 <= Len(Pending(c)) BY <1>2, <3>2
    <3> QED BY <1>2, <3>1, <3>2, <3>3 DEF IInv, TypeOK
  <2> QED BY <2>1, <2>2
<1>4. PICK w \in Nat, t \in Nat :
          flush' = [flush EXCEPT !.written = w, !.todo = t] /\ w + t <= Len(Pending(c))
    BY <1>3
<1>5. /\ flush' \in [who : Conns \cup {NoConn}, extra : Seq(Values), written : Nat, todo : Nat]
      /\ flush'.who = c /\ flush'.extra = flush.extra
      /\ flush'.written = w /\ flush'.todo = t
    BY <1>2, <1>4 DEF IInv, TypeOK
<1>6. Pending(c)' = Pending(c) BY <1>3, <1>5 DEF Pending
<1>7. TypeOK'
  <2>1. /\ TypeOK /\ UNCHANGED clientVars
        /\ UNCHANGED <<bufferVars, setVars, flagVars, pc, newoutput, mask, closing, received,
                       peer, sent>>
      BY <1>3 DEF IInv
  <2>2. /\ output' \in [Conns -> [size : Nat, buf : Seq(Values)]] /\ freeOutputs' \in Seq(Nat)
        /\ OutputPending' \subseteq Fds /\ ClientsWithInput' \subseteq Fds
        /\ ClientsWriteBlocked' \subseteq Fds
      BY <2>1 DEF TypeOK
  <2>3. /\ NewOutputPending' \in BOOLEAN /\ AnyClientsWriteBlocked' \in BOOLEAN
        /\ newoutput' \in BOOLEAN /\ mask' \subseteq Fds
        /\ pc' \in Seq(Labels) /\ pc' # <<>> /\ closing' \in Conns \cup {NoConn}
      BY <2>1 DEF TypeOK
  <2>4. /\ received' \in [Conns -> Seq(Values)] /\ sent' \in [Conns -> Seq(Values)]
        /\ peer' \in [Conns -> {"up", "down"}]
      BY <2>1 DEF TypeOK
  <2>5. sock' \in [Conns -> Seq(Values)] BY <1>3
  <2> QED BY <1>5, <2>1, <2>2, <2>3, <2>4, <2>5, ClientTypes, TypeFrom
<1>8. StackInv' BY <1>3 DEF IInv, StackInv
<1>9. Connected(c)' /\ \A d \in Conns : Connected(d)' <=> Connected(d)
    BY <1>2, <1>3 DEF Connected
<1>10. (flush.written + flush.todo <= Len(Pending(flush.who)))'
    BY <1>4, <1>5, <1>6
<1>11. ThreadInv'
  <2>1. Under("close")' = Under("close") /\ Under("mask")' = Under("mask") /\ pc' = pc
      BY <1>3 DEF Under
  <2>2. flush'.who \in Conns /\ Connected(flush.who)' BY <1>2, <1>3, <1>5 DEF Connected
  <2>3. IF Under("close")' THEN closing' \in Conns /\ Connected(closing)' ELSE closing' = NoConn
      BY <1>3, <2>1 DEF IInv, ThreadInv, Connected
  <2>4. ~Under("mask")' => mask' = {} BY <1>3, <2>1 DEF IInv, ThreadInv
  <2> QED BY <1>1, <1>10, <2>1, <2>2, <2>3, <2>4 DEF ThreadInv
<1>12. FdInv' BY <1>3 DEF IInv, FdInv, Connected
<1>13. UnusedInv'
  <2>1. status[c] # "unused" BY <1>2 DEF Connected
  <2> QED BY <1>3, <2>1 DEF IInv, UnusedInv
<1>14. EstablishInv' BY <1>3 DEF IInv, EstablishInv, Establishing
<1> QED BY <1>7, <1>8, <1>11, <1>12, <1>13, <1>14, InvFrom

(* FlushClient returns: the client may have been given up, its buffer      *)
(* changed and its descriptor entered among the blocked ones.              *)
SameClients ==
    /\ status' \in [Conns -> {"unused", "running", "exception", "gone"}]
    /\ trans' \in [Conns -> BOOLEAN]
    /\ \A d \in Conns : /\ Connected(d)' <=> Connected(d)
                        /\ status'[d] = "unused" <=> status[d] = "unused"
                        /\ trans'[d] => trans[d]
    /\ UNCHANGED <<fdOf, translation>>

LEMMA MarkKeeps ==
    ASSUME IInv, NEW c \in Conns, Connected(c), MarkClientException(c)
    PROVE  SameClients /\ ~trans'[c] /\ \A d \in Conns \ {c} : trans'[d] = trans[d]
    BY DEF IInv, TypeOK, Connected, MarkClientException, SameClients

LEMMA UnchangedClients ==
    ASSUME IInv, UNCHANGED clientVars
    PROVE  SameClients
    BY DEF IInv, TypeOK, Connected, SameClients, clientVars

LEMMA FlushReturns ==
    ASSUME IInv, pc[1] = "writev", NEW c \in Conns, c = flush.who, Connected(c),
           Return, flush' = NoFlush, SameClients,
           output' \in [Conns -> [size : Nat, buf : Seq(Values)]],
           \A d \in Conns \ {c} : output'[d] = output[d],
           ClientsWriteBlocked' \subseteq ClientsWriteBlocked \cup {fdOf[c]},
           AnyClientsWriteBlocked' \in BOOLEAN, freeOutputs' \in Seq(Nat),
           UNCHANGED <<OutputPending, ClientsWithInput, NewOutputPending, newoutput, mask,
                       closing, peerVars, sent>>
    PROVE  IInv'
<1> USE DEF peerVars, SameClients
<1>1. /\ pc' \in Seq(Labels) /\ pc' # <<>> /\ StackInv'
      /\ pc'[1] = pc[2] /\ pc'[1] \in {"dispatch", "callback", "establish", "mask", "close"}
      /\ Establishing' => Establishing
    BY Returns DEF IInv, Callers, Bases
<1>2. fdOf[c] \in Fds /\ translation[fdOf[c]] = c /\ c # NoConn
    BY DEF IInv, FdInv, Conns, NoConn
<1>3. flush' \in [who : Conns \cup {NoConn}, extra : Seq(Values), written : Nat, todo : Nat]
    BY DEF NoFlush
<1>4. TypeOK'
  <2>1. TypeOK BY DEF IInv
  <2>2. fdOf' \in [Conns -> Fds \cup {NoFd}] /\ translation' \in [Fds -> Conns \cup {NoConn}]
      BY <2>1 DEF TypeOK
  <2>3. /\ OutputPending' \subseteq Fds /\ ClientsWithInput' \subseteq Fds
        /\ ClientsWriteBlocked' \subseteq Fds /\ mask' \subseteq Fds
    <3>1. OutputPending \subseteq Fds /\ ClientsWithInput \subseteq Fds /\ mask \subseteq Fds
        BY <2>1 DEF TypeOK
    <3>2. ClientsWriteBlocked \subseteq Fds BY <2>1 DEF TypeOK
    <3>3. ClientsWriteBlocked' \subseteq Fds BY <1>2, <3>2
    <3> QED BY <3>1, <3>3
  <2>4. /\ NewOutputPending' \in BOOLEAN /\ newoutput' \in BOOLEAN
        /\ closing' \in Conns \cup {NoConn} /\ sent' \in [Conns -> Seq(Values)]
      BY <2>1 DEF TypeOK
  <2>5. /\ sock' \in [Conns -> Seq(Values)] /\ received' \in [Conns -> Seq(Values)]
        /\ peer' \in [Conns -> {"up", "down"}]
      BY <2>1, PeerTypes
  <2> QED BY <1>1, <1>3, <2>2, <2>3, <2>4, <2>5, TypeFrom
<1>5. ThreadInv'
  <2>1. (Under("close")' <=> Under("close")) /\ (Under("mask")' <=> Under("mask"))
      BY <1>1 DEF Under
  <2>2. IF Under("close")' THEN closing' \in Conns /\ Connected(closing)' ELSE closing' = NoConn
      BY <2>1 DEF IInv, ThreadInv
  <2>3. ~Under("mask")' => mask' = {} BY <2>1 DEF IInv, ThreadInv
  <2> QED BY <1>1, <2>2, <2>3 DEF ThreadInv
<1>6. FdInv'
  <2>1. \A f \in OutputPending' \cup ClientsWithInput' \cup ClientsWriteBlocked' :
            translation[f] # NoConn
      BY <1>2 DEF IInv, FdInv
  <2>2. \A f \in Fds : translation'[f] # NoConn =>
            translation'[f] \in Conns /\ Connected(translation[f])' /\ fdOf'[translation'[f]] = f
      BY DEF IInv, FdInv, TypeOK
  <2> QED BY <2>1, <2>2 DEF IInv, FdInv
<1>7. UnusedInv'
  <2>1. status[c] # "unused" BY DEF Connected
  <2> QED BY <2>1 DEF IInv, UnusedInv
<1>8. EstablishInv' BY <1>1 DEF IInv, EstablishInv
<1> QED BY <1>1, <1>4, <1>5, <1>6, <1>7, <1>8 DEF IInv

LEMMA FlushEndsInv ==
    ASSUME IInv, WritevBlocked \/ WritevFails \/ FlushedOut
    PROVE  IInv'
<1>1. pc[1] = "writev"
    BY StackTop DEF WritevBlocked, WritevFails, FlushedOut, Writing, At, IInv
<1>2. PICK c \in Conns :
          /\ c = flush.who /\ Connected(c)
          /\ output[c].size \in Nat /\ output[c].buf \in Seq(Values)
          /\ flush.extra \in Seq(Values) /\ flush.written \in Nat
          /\ Len(Pending(c)) = Len(output[c].buf) + Len(flush.extra) + Pad(Len(flush.extra))
          /\ NotWritten = Len(Pending(c)) - flush.written
          /\ NotWritten \in Nat
    BY <1>1, FlushFacts
<1>3. /\ output \in [Conns -> [size : Nat, buf : Seq(Values)]]
      /\ AnyClientsWriteBlocked \in BOOLEAN /\ freeOutputs \in Seq(Nat)
    BY DEF IInv, TypeOK
<1>4. <<>> \in Seq(Values) OBVIOUS
<1>5. CASE WritevBlocked
  <2>1. Rest(output[c]) \in Seq(Values) BY <1>2, RestIs
  <2>2. PICK size \in Nat :
            size = IF NotWritten > output[c].size THEN NotWritten + BUFSIZE
                   ELSE output[c].size
    <3>1. PICK n \in Nat : n = NotWritten BY <1>2
    <3>2. n + BUFSIZE \in Nat BY NumbersAssumption
    <3>3. NotWritten + BUFSIZE \in Nat BY <3>1, <3>2
    <3> QED BY <1>2, <3>3
  <2>3. /\ \/ /\ output' = [output EXCEPT ![c] = [size |-> size, buf |-> Rest(output[c])]]
              /\ UNCHANGED clientVars
           \/ MarkClientException(c) /\ output' = [output EXCEPT ![c].buf = <<>>]
        /\ ClientsWriteBlocked' = ClientsWriteBlocked \cup {fdOf[c]}
        /\ AnyClientsWriteBlocked' = TRUE /\ flush' = NoFlush /\ Return
        /\ UNCHANGED <<freeOutputs, OutputPending, ClientsWithInput, NewOutputPending,
                       newoutput, mask, closing, peerVars, sent>>
      BY <1>2, <1>5, <2>2 DEF WritevBlocked
  <2>4. SameClients BY <1>2, <2>3, MarkKeeps, UnchangedClients
  <2>5. /\ output' \in [Conns -> [size : Nat, buf : Seq(Values)]]
        /\ \A d \in Conns \ {c} : output'[d] = output[d]
    <3>1. [size |-> size, buf |-> Rest(output[c])] \in [size : Nat, buf : Seq(Values)]
        BY <2>1, <2>2
    <3> QED BY <1>3, <1>4, <2>3, <3>1
  <2> QED BY <1>1, <1>2, <1>3, <2>3, <2>4, <2>5, FlushReturns
<1>6. CASE WritevFails
  <2>1. /\ MarkClientException(c) /\ output' = [output EXCEPT ![c].buf = <<>>]
        /\ flush' = NoFlush /\ Return
        /\ UNCHANGED <<freeOutputs, setVars, flagVars, newoutput, mask, closing, peerVars, sent>>
      BY <1>2, <1>6 DEF WritevFails
  <2>2. /\ output' \in [Conns -> [size : Nat, buf : Seq(Values)]]
        /\ \A d \in Conns \ {c} : output'[d] = output[d]
      BY <1>3, <1>4, <2>1
  <2>3. SameClients BY <1>2, <2>1, MarkKeeps
  <2> QED BY <1>1, <1>2, <1>3, <2>1, <2>2, <2>3, FlushReturns DEF setVars, flagVars
<1>7. CASE FlushedOut
  <2>1. /\ output' = [output EXCEPT ![c] = NoOutput]
        /\ freeOutputs' = IF output[c].size > BUFWATERMARK THEN freeOutputs
                          ELSE <<output[c].size>> \o freeOutputs
        /\ \/ /\ ClientsWriteBlocked' = ClientsWriteBlocked \ {fdOf[c]}
              /\ AnyClientsWriteBlocked' = (ClientsWriteBlocked' # {})
           \/ UNCHANGED <<ClientsWriteBlocked, AnyClientsWriteBlocked>>
        /\ flush' = NoFlush /\ Return /\ UNCHANGED clientVars
        /\ UNCHANGED <<OutputPending, ClientsWithInput, NewOutputPending, newoutput, mask,
                       closing, peerVars, sent>>
      BY <1>2, <1>7 DEF FlushedOut
  <2>2. NoOutput \in [size : Nat, buf : Seq(Values)] BY DEF NoOutput
  <2>3. /\ output' \in [Conns -> [size : Nat, buf : Seq(Values)]]
        /\ \A d \in Conns \ {c} : output'[d] = output[d]
      BY <1>3, <2>1, <2>2
  <2>4. freeOutputs' \in Seq(Nat)
    <3>1. <<output[c].size>> \o freeOutputs \in Seq(Nat) BY <1>2, <1>3
    <3> QED BY <1>3, <2>1, <3>1
  <2>5. SameClients BY <2>1, UnchangedClients
  <2>6. /\ ClientsWriteBlocked' \subseteq ClientsWriteBlocked
        /\ AnyClientsWriteBlocked' \in BOOLEAN
      BY <1>3, <2>1
  <2> QED BY <1>1, <1>2, <2>1, <2>3, <2>4, <2>5, <2>6, FlushReturns
<1> QED BY <1>5, <1>6, <1>7

-----------------------------------------------------------------------------
(* WriteToClient.                                                          *)

LEMMA TakeIs ==
    ASSUME TypeOK, NEW c \in Conns
    PROVE  /\ TakeOutput(c).oco \in [size : Nat, buf : Seq(Values)]
           /\ TakeOutput(c).oco.buf = output[c].buf
           /\ TakeOutput(c).free \in Seq(Nat)
<1>1. /\ output[c] \in [size : Nat, buf : Seq(Values)] /\ freeOutputs \in Seq(Nat)
      /\ BUFSIZE \in Nat /\ <<>> \in Seq(Values) /\ <<>> \in Seq(Nat)
    BY NumbersAssumption DEF TypeOK
<1>2. CASE output[c] # NoOutput
    BY <1>1, <1>2 DEF TakeOutput
<1>3. CASE output[c] = NoOutput /\ freeOutputs # <<>>
  <2>1. Head(freeOutputs) \in Nat /\ Tail(freeOutputs) \in Seq(Nat) BY <1>1, <1>3
  <2>2. TakeOutput(c) = [oco |-> [size |-> Head(freeOutputs), buf |-> <<>>],
                         free |-> Tail(freeOutputs)]
      BY <1>3 DEF TakeOutput
  <2> QED BY <1>1, <1>3, <2>1, <2>2 DEF NoOutput
<1>4. CASE output[c] = NoOutput /\ freeOutputs = <<>>
  <2>1. TakeOutput(c) = [oco |-> Fresh, free |-> <<>>] BY <1>4 DEF TakeOutput
  <2> QED BY <1>1, <1>4, <2>1 DEF NoOutput, Fresh
<1> QED BY <1>2, <1>3, <1>4

(* The bytes handed over, and the two ways the call ends.                  *)
Overflows(c, oco, data, pads) ==
    /\ OutputPending' = OutputPending \ {fdOf[c]}
    /\ NewOutputPending' = StillPending(OutputPending')
    /\ output' = [output EXCEPT ![c] = oco]
    /\ flush' = [who |-> c, extra |-> data, written |-> 0,
                 todo |-> Len(oco.buf) + Len(data) + Len(pads)]
    /\ Call("writev")
Appends(c, oco, data, pads) ==
    /\ OutputPending' = OutputPending \cup {fdOf[c]} /\ NewOutputPending' = TRUE
    /\ output' = [output EXCEPT ![c] = [size |-> oco.size, buf |-> oco.buf \o data \o pads]]
    /\ UNCHANGED <<flush, pc>>

LEMMA WriteFacts ==
    ASSUME TypeOK, NEW c \in Conns, NEW n \in Counts, WriteToClient(c, n)
    PROVE  \E oco \in [size : Nat, buf : Seq(Values)], data, pads \in Seq(Values) :
               /\ oco.buf = output[c].buf /\ pads = Pads(Pad(Len(data)))
               /\ sent' = [sent EXCEPT ![c] = @ \o data \o pads]
               /\ Overflows(c, oco, data, pads) \/ Appends(c, oco, data, pads)
               /\ MayWrite /\ Connected(c) /\ freeOutputs' \in Seq(Nat)
               /\ UNCHANGED <<clientVars, ClientsWithInput, ClientsWriteBlocked,
                              AnyClientsWriteBlocked, newoutput, mask, closing, peerVars>>
<1>1. PICK oco, free : oco = TakeOutput(c).oco /\ free = TakeOutput(c).free OBVIOUS
<1>2. /\ oco \in [size : Nat, buf : Seq(Values)] /\ oco.buf = output[c].buf
      /\ free \in Seq(Nat)
    BY <1>1, TakeIs
<1>3. PICK old : old = Len(sent[c]) OBVIOUS
<1>4. old \in Nat /\ n \in Nat /\ Pad(n) \in Nat /\ old + n + Pad(n) <= MaxBytes
  <2>1. sent[c] \in Seq(Values) BY DEF TypeOK
  <2>2. n \in Nat BY NumbersAssumption
  <2>3. Pad(n) \in Nat BY <2>2, PadsAre
  <2> QED BY <1>3, <2>1, <2>2, <2>3, LenProperties DEF WriteToClient
<1>5. PICK data : data = [i \in 1..n |-> Byte(c, Len(sent[c]) + i)] OBVIOUS
<1>6. data \in Seq(Values) /\ Len(data) = n
  <2>1. old + n <= MaxBytes BY <1>4, NumbersAssumption
  <2>2. data = [i \in 1..n |-> Byte(c, old + i)] BY <1>3, <1>5
  <2> QED BY <1>4, <2>1, <2>2, BytesAre
<1>7. PICK pads : pads = Pads(Pad(n)) OBVIOUS
<1>8. pads \in Seq(Values) /\ Len(pads) = Pad(n) BY <1>4, <1>7, PadsAre
<1>9. sent' = [sent EXCEPT ![c] = @ \o data \o pads]
    BY <1>3, <1>5, <1>7 DEF WriteToClient
<1>10. Overflows(c, oco, data, pads) \/ Appends(c, oco, data, pads)
  <2>1. PICK full : full = (Len(oco.buf) + n + Pad(n) > oco.size) OBVIOUS
  <2>2. CASE full
    <3>1. /\ OutputPending' = OutputPending \ {fdOf[c]}
          /\ NewOutputPending' = StillPending(OutputPending')
          /\ output' = [output EXCEPT ![c] = oco]
          /\ Call("writev")
        BY <1>1, <2>1, <2>2 DEF WriteToClient
    <3>2. flush' = [who |-> c, extra |-> data, written |-> 0,
                    todo |-> Len(oco.buf) + n + Pad(n)]
        BY <1>1, <1>3, <1>5, <2>1, <2>2 DEF WriteToClient
    <3> QED BY <1>6, <1>8, <3>1, <3>2 DEF Overflows
  <2>3. CASE ~full
    <3>1. /\ NewOutputPending' = TRUE /\ OutputPending' = OutputPending \cup {fdOf[c]}
          /\ UNCHANGED <<flush, pc>>
        BY <1>1, <2>1, <2>3 DEF WriteToClient
    <3>2. output' = [output EXCEPT ![c] = [oco EXCEPT !.buf = @ \o data \o pads]]
        BY <1>1, <1>5, <1>7, <2>1, <2>3 DEF WriteToClient
    <3>3. PICK b : b = oco.buf \o data \o pads OBVIOUS
    <3>4. output' = [output EXCEPT ![c] = [oco EXCEPT !.buf = b]] BY <3>2, <3>3
    <3>5. [oco EXCEPT !.buf = b] = [size |-> oco.size, buf |-> b] BY <1>2
    <3> QED BY <3>1, <3>3, <3>4, <3>5 DEF Appends
  <2> QED BY <2>2, <2>3
<1>11. /\ MayWrite /\ Connected(c) /\ freeOutputs' \in Seq(Nat)
       /\ UNCHANGED <<clientVars, ClientsWithInput, ClientsWriteBlocked,
                      AnyClientsWriteBlocked, newoutput, mask, closing, peerVars>>
    BY <1>1, <1>2 DEF WriteToClient
<1>12. pads = Pads(Pad(Len(data))) BY <1>6, <1>7
<1> QED BY <1>2, <1>6, <1>8, <1>9, <1>10, <1>11, <1>12

(* FlushClient is called for c.                                            *)
LEMMA FlushCalled ==
    ASSUME IInv, TypeOK', StackInv', Establishing' => Establishing,
           pc[1] \in {"dispatch", "callback", "establish", "check", "mask"},
           NEW c \in Conns, Connected(c), flush'.who = c,
           flush'.written + flush'.todo <= Len(Pending(c))',
           pc'[1] = "writev",
           \/ pc'[2] = pc[1] /\ closing' = closing
           \/ pc'[2] = "close" /\ closing' = c,
           mask' = mask \/ pc'[2] = "mask", pc[1] = "mask" => pc'[2] = "mask",
           OutputPending' \subseteq OutputPending \cup {fdOf[c]},
           \A d \in Conns \ {c} : output'[d] = output[d] /\ sent'[d] = sent[d],
           UNCHANGED <<clientVars, ClientsWithInput, ClientsWriteBlocked, received, sock>>
    PROVE  IInv'
<1> USE DEF clientVars
<1>1. ~Under("close") /\ pc[1] # "writev" BY DEF Under
<1>2. ThreadInv'
  <2>1. closing = NoConn /\ (pc[1] # "mask" => mask = {})
      BY <1>1 DEF IInv, ThreadInv, Under
  <2>2. IF Under("close")' THEN closing' \in Conns /\ Connected(closing)' ELSE closing' = NoConn
      BY <2>1 DEF Under, Connected
  <2>3. ~Under("mask")' => mask' = {} BY <2>1 DEF Under
  <2>4. flush'.who \in Conns /\ Connected(flush.who)' BY DEF Connected
  <2>5. (flush.written + flush.todo <= Len(Pending(flush.who)))' OBVIOUS
  <2> QED BY <2>2, <2>3, <2>4, <2>5 DEF ThreadInv
<1>3. FdInv'
  <2>1. translation[fdOf[c]] = c /\ c # NoConn BY DEF IInv, FdInv, Conns, NoConn
  <2> QED BY <2>1 DEF IInv, FdInv, Connected
<1>4. UnusedInv'
  <2>1. status[c] # "unused" BY DEF Connected
  <2> QED BY <2>1 DEF IInv, UnusedInv
<1>5. EstablishInv' BY DEF IInv, EstablishInv
<1> QED BY <1>2, <1>3, <1>4, <1>5 DEF IInv

LEMMA WriteInv ==
    ASSUME IInv, NEW c \in Conns, NEW n \in Counts, WriteToClient(c, n)
    PROVE  IInv'
<1> USE DEF clientVars, peerVars
<1>1. PICK oco \in [size : Nat, buf : Seq(Values)], data, pads \in Seq(Values) :
          /\ oco.buf = output[c].buf /\ pads = Pads(Pad(Len(data)))
          /\ sent' = [sent EXCEPT ![c] = @ \o data \o pads]
          /\ Overflows(c, oco, data, pads) \/ Appends(c, oco, data, pads)
          /\ MayWrite /\ Connected(c) /\ freeOutputs' \in Seq(Nat)
          /\ UNCHANGED <<clientVars, ClientsWithInput, ClientsWriteBlocked,
                         AnyClientsWriteBlocked, newoutput, mask, closing, peerVars>>
    BY WriteFacts DEF IInv
<1>2. /\ fdOf[c] \in Fds /\ translation[fdOf[c]] = c /\ c # NoConn
      /\ status[c] # "unused"
    BY <1>1 DEF IInv, FdInv, Conns, NoConn, Connected
<1>3. /\ pc[1] \in {"dispatch", "callback", "establish"} /\ flush = NoFlush
      /\ TypeOK /\ StackInv
    BY <1>1 DEF IInv, MayWrite, ThreadInv
<1>4. /\ sent' \in [Conns -> Seq(Values)]
      /\ \A d \in Conns \ {c} : sent'[d] = sent[d]
  <2>1. sent \in [Conns -> Seq(Values)] BY <1>3 DEF TypeOK
  <2>2. PICK s : s = sent[c] \o data \o pads OBVIOUS
  <2>3. s \in Seq(Values) BY <1>1, <2>1, <2>2
  <2>4. sent' = [sent EXCEPT ![c] = s] BY <1>1, <2>2
  <2> QED BY <2>1, <2>3, <2>4
<1>5. CASE Overflows(c, oco, data, pads)
  <2>1. /\ pc' \in Seq(Labels) /\ pc' # <<>> /\ StackInv'
        /\ pc'[1] = "writev" /\ pc'[2] = pc[1] /\ (Establishing' => Establishing)
    <3>1. "writev" \in Labels /\ pc[1] \in Callers("writev") /\ pc[1] # "block"
        BY <1>3 DEF Labels, Callers
    <3>2. Call("writev") BY <1>5 DEF Overflows
    <3> QED BY <1>3, <3>1, <3>2, Calls
  <2>2. PICK todo \in Nat : todo = Len(oco.buf) + Len(data) + Len(pads)
    <3>1. /\ Len(oco.buf) \in Nat /\ Len(data) \in Nat /\ Len(pads) \in Nat
        BY <1>1, LenProperties
    <3> QED BY <3>1
  <2>3. /\ flush' = [who |-> c, extra |-> data, written |-> 0, todo |-> todo]
        /\ output' = [output EXCEPT ![c] = oco]
        /\ OutputPending' = OutputPending \ {fdOf[c]}
        /\ NewOutputPending' = StillPending(OutputPending')
      BY <1>5, <2>2 DEF Overflows
  <2>4. /\ output' \in [Conns -> [size : Nat, buf : Seq(Values)]] /\ output'[c] = oco
        /\ \A d \in Conns \ {c} : output'[d] = output[d]
      BY <1>3, <2>3 DEF TypeOK
  <2>5. NewOutputPending' \in BOOLEAN BY <1>3, <2>3 DEF TypeOK, StillPending
  <2>6. TypeOK'
    <3>1. flush' \in [who : Conns \cup {NoConn}, extra : Seq(Values), written : Nat, todo : Nat]
        BY <1>1, <2>2, <2>3
    <3>2. OutputPending' \subseteq Fds BY <1>3, <2>3 DEF TypeOK
    <3>3. UNCHANGED <<clientVars, ClientsWithInput, ClientsWriteBlocked,
                      AnyClientsWriteBlocked, newoutput, mask, closing, peerVars>>
        BY <1>1
    <3>4. freeOutputs' \in Seq(Nat) /\ sent' \in [Conns -> Seq(Values)] BY <1>1, <1>4
    <3>5. /\ ClientsWithInput' \subseteq Fds /\ ClientsWriteBlocked' \subseteq Fds
          /\ mask' \subseteq Fds /\ AnyClientsWriteBlocked' \in BOOLEAN
          /\ newoutput' \in BOOLEAN /\ closing' \in Conns \cup {NoConn}
        BY <1>3, <3>3 DEF TypeOK
    <3> QED BY <1>3, <2>1, <2>4, <2>5, <3>1, <3>2, <3>3, <3>4, <3>5,
               ClientTypes, PeerTypes, TypeFrom
  <2>7. Pending(c)' = oco.buf \o data \o pads
      BY <1>1, <2>3, <2>4 DEF Pending
  <2>8. Len(oco.buf \o data \o pads) = todo
    <3>1. PICK j : j = oco.buf \o data OBVIOUS
    <3>2. j \in Seq(Values) /\ Len(j) = Len(oco.buf) + Len(data) BY <1>1, <3>1, JoinIs
    <3>3. Len(j \o pads) = Len(j) + Len(pads) BY <1>1, <3>2, JoinIs
    <3> QED BY <2>2, <3>1, <3>2, <3>3
  <2>9. flush'.written + flush'.todo <= Len(Pending(c))'
    <3>1. flush'.written = 0 /\ flush'.todo = todo BY <2>3
    <3>2. Len(Pending(c))' = todo BY <2>7, <2>8
    <3> QED BY <2>2, <3>1, <3>2
  <2>10. flush'.who = c BY <2>3
  <2> QED BY <1>1, <1>3, <1>4, <2>1, <2>3, <2>4, <2>6, <2>9, <2>10, FlushCalled
<1>6. CASE Appends(c, oco, data, pads)
  <2>1. PICK b : b = oco.buf \o data \o pads OBVIOUS
  <2>2. b \in Seq(Values) BY <1>1, <2>1
  <2>3. /\ OutputPending' = OutputPending \cup {fdOf[c]} /\ NewOutputPending' = TRUE
        /\ output' = [output EXCEPT ![c] = [size |-> oco.size, buf |-> b]]
        /\ UNCHANGED <<flush, pc>>
      BY <1>6, <2>1 DEF Appends
  <2>4. /\ output' \in [Conns -> [size : Nat, buf : Seq(Values)]]
        /\ \A d \in Conns \ {c} : output'[d] = output[d]
    <3>1. [size |-> oco.size, buf |-> b] \in [size : Nat, buf : Seq(Values)] BY <1>1, <2>2
    <3> QED BY <1>3, <2>3, <3>1 DEF TypeOK
  <2>5. TypeOK'
    <3>1. OutputPending' \subseteq Fds BY <1>2, <1>3, <2>3 DEF TypeOK
    <3>2. UNCHANGED <<clientVars, ClientsWithInput, ClientsWriteBlocked,
                      AnyClientsWriteBlocked, newoutput, mask, closing, peerVars>>
        BY <1>1
    <3>3. freeOutputs' \in Seq(Nat) /\ sent' \in [Conns -> Seq(Values)] BY <1>1, <1>4
    <3>4. NewOutputPending' \in BOOLEAN /\ UNCHANGED <<flush, pc>> BY <2>3
    <3>5. /\ flush' \in [who : Conns \cup {NoConn}, extra : Seq(Values), written : Nat, todo : Nat]
          /\ pc' \in Seq(Labels) /\ pc' # <<>>
        BY <1>3, <3>4 DEF TypeOK
    <3>6. output' \in [Conns -> [size : Nat, buf : Seq(Values)]] BY <2>4
    <3>7. /\ ClientsWithInput' \subseteq Fds /\ ClientsWriteBlocked' \subseteq Fds
          /\ mask' \subseteq Fds /\ AnyClientsWriteBlocked' \in BOOLEAN
          /\ newoutput' \in BOOLEAN /\ closing' \in Conns \cup {NoConn}
        BY <1>3, <3>2 DEF TypeOK
    <3> QED BY <1>3, <3>1, <3>2, <3>3, <3>4, <3>5, <3>6, <3>7,
               ClientTypes, PeerTypes, TypeFrom
  <2>6. StackInv' /\ EstablishInv' 
      BY <1>1, <2>3 DEF IInv, StackInv, EstablishInv, Establishing
  <2>7. ThreadInv' BY <1>1, <1>3, <2>3 DEF IInv, ThreadInv, Under, Connected
  <2>8. FdInv' BY <1>1, <1>2, <2>3 DEF IInv, FdInv, Connected
  <2>9. UnusedInv' BY <1>1, <1>2, <1>4, <2>4 DEF IInv, UnusedInv
  <2> QED BY <2>5, <2>6, <2>7, <2>8, <2>9 DEF IInv
<1> QED BY <1>1, <1>5, <1>6

LEMMA SameFds ==
    ASSUME IInv, SameClients, UNCHANGED <<OutputPending, ClientsWithInput, ClientsWriteBlocked>>
    PROVE  FdInv'
<1>1. fdOf' = fdOf /\ translation' = translation BY DEF SameClients
<1>2. \A f \in Fds : translation[f] # NoConn => translation[f] \in Conns
    BY DEF IInv, TypeOK
<1>3. \A c \in Conns : Connected(c)' => fdOf'[c] \in Fds /\ translation'[fdOf'[c]] = c
    BY <1>1 DEF IInv, FdInv, SameClients
<1>4. ASSUME NEW f \in Fds, translation'[f] # NoConn
      PROVE  Connected(translation[f])' /\ fdOf'[translation'[f]] = f
  <2>1. PICK e : e = translation[f] OBVIOUS
  <2>2. e \in Conns /\ Connected(e) /\ fdOf[e] = f BY <1>1, <1>2, <1>4, <2>1 DEF IInv, FdInv
  <2>3. Connected(e)' BY <2>2 DEF SameClients
  <2>4. translation'[f] = e /\ fdOf'[e] = f BY <1>1, <2>1, <2>2
  <2> QED BY <2>3, <2>4 DEF Connected
<1>5. \A f \in OutputPending' \cup ClientsWithInput' \cup ClientsWriteBlocked' :
          translation'[f] # NoConn
    BY <1>1 DEF IInv, FdInv
<1>6. \A c \in Conns : trans'[c] => Connected(c)' BY DEF IInv, FdInv, SameClients
<1> QED BY <1>3, <1>4, <1>5, <1>6 DEF FdInv

(* No buffer for a client: it is given up where it stands.                 *)
LEMMA WithoutBufferInv ==
    ASSUME IInv, NEW c \in Conns, WriteWithoutBuffer(c)
    PROVE  IInv'
<1> USE DEF bufferVars, setVars, flagVars, threadVars, peerVars
<1>1. SameClients BY MarkKeeps DEF WriteWithoutBuffer
<1>2. UNCHANGED <<bufferVars, setVars, flagVars, threadVars, peerVars, sent>>
    BY DEF WriteWithoutBuffer
<1>3. TypeOK' BY <1>1, <1>2 DEF IInv, TypeOK, SameClients
<1>4. StackInv' BY <1>2 DEF IInv, StackInv
<1>5. ThreadInv'
  <2>1. \A d : Pending(d)' = Pending(d) BY <1>2 DEF Pending
  <2> QED BY <1>1, <1>2, <2>1 DEF IInv, ThreadInv, Under, SameClients
<1>6. FdInv' BY <1>1, <1>2, SameFds
<1>7. UnusedInv' BY <1>1, <1>2 DEF IInv, UnusedInv, SameClients
<1>8. EstablishInv' BY <1>1, <1>2 DEF IInv, EstablishInv, Establishing, SameClients
<1> QED BY <1>3, <1>4, <1>5, <1>6, <1>7, <1>8 DEF IInv

LEMMA FlushBodyInv ==
    ASSUME IInv, FlushBody
    PROVE  IInv'
<1> USE DEF clientVars, bufferVars, setVars, flagVars, peerVars
<1>1. /\ pc[1] = "callback" /\ TypeOK /\ StackInv /\ newoutput \in BOOLEAN
      /\ newoutput' = FALSE
      /\ UNCHANGED <<clientVars, bufferVars, ClientsWithInput, ClientsWriteBlocked,
                     AnyClientsWriteBlocked, flush, closing, peerVars, sent>>
    BY StackTop DEF IInv, TypeOK, FlushBody, At
<1>2. /\ pc' \in Seq(Labels) /\ pc' # <<>> /\ StackInv'
      /\ (Establishing' => Establishing)
      /\ NewOutputPending' \in BOOLEAN
      /\ \/ /\ pc'[1] = "mask" /\ mask' = OutputPending /\ OutputPending' = {}
         \/ /\ pc'[1] \in {"dispatch", "select"} /\ mask' = mask
            /\ OutputPending' = OutputPending
  <2>1. CASE newoutput
    <3>1. /\ NewOutputPending' = FALSE /\ Goto("mask")
          /\ mask' = OutputPending /\ OutputPending' = {}
        BY <2>1 DEF FlushBody
    <3>2. /\ pc' \in Seq(Labels) /\ pc' # <<>> /\ StackInv' /\ pc'[1] = "mask"
          /\ (Establishing' => Establishing)
        BY <1>1, <3>1, Gotos DEF Labels
    <3> QED BY <3>1, <3>2
  <2>2. CASE ~newoutput
    <3>1. Return /\ UNCHANGED <<NewOutputPending, mask, OutputPending>>
        BY <2>2 DEF FlushBody
    <3>2. /\ pc' \in Seq(Labels) /\ pc' # <<>> /\ StackInv'
          /\ pc'[1] \in {"dispatch", "select"}
          /\ (Establishing' => Establishing)
        BY <1>1, <3>1, Returns DEF Callers, Bases
    <3>3. NewOutputPending' \in BOOLEAN BY <1>1, <3>1 DEF TypeOK
    <3> QED BY <3>1, <3>2, <3>3
  <2> QED BY <2>1, <2>2
<1>3. TypeOK'
  <2>1. OutputPending' \subseteq Fds /\ mask' \subseteq Fds BY <1>1, <1>2 DEF TypeOK
  <2> QED BY <1>1, <1>2, <2>1 DEF TypeOK
<1>4. ThreadInv' BY <1>1, <1>2 DEF IInv, ThreadInv, Under
<1>5. FdInv' BY <1>1, <1>2 DEF IInv, FdInv, Connected
<1>6. UnusedInv' BY <1>1 DEF IInv, UnusedInv
<1>7. EstablishInv' BY <1>1, <1>2 DEF IInv, EstablishInv
<1> QED BY <1>2, <1>3, <1>4, <1>5, <1>6, <1>7 DEF IInv

(* Nothing is added to what is buffered.                                   *)
LEMMA OnlyBuffered ==
    ASSUME NEW c \in Conns, output'[c].buf \in Seq(Values), flush'.extra = <<>>
    PROVE  Pending(c)' = output'[c].buf
<1>1. Pads(Pad(0)) = <<>>
  <2>1. Pads(0) \in Seq(Values) /\ Len(Pads(0)) = 0 BY PadsAre
  <2>2. Pad(0) = 0 BY PadsAre
  <2> QED BY <2>1, <2>2
<1>2. Pending(c)' = output'[c].buf \o <<>> \o Pads(Pad(Len(<<>>))) BY DEF Pending
<1>3. Len(<<>>) = 0 OBVIOUS
<1>4. output'[c].buf \o <<>> = output'[c].buf BY ConcatEmptySeq
<1> QED BY <1>1, <1>2, <1>3, <1>4

FlushOf(c) == [who |-> c, extra |-> <<>>, written |-> 0, todo |-> Len(output[c].buf)]

LEMMA FlushOfIs ==
    ASSUME TypeOK, NEW c \in Conns, flush' = FlushOf(c), output' = output
    PROVE  /\ flush' \in [who : Conns \cup {NoConn}, extra : Seq(Values),
                          written : Nat, todo : Nat]
           /\ flush'.who = c /\ flush'.written = 0 /\ flush'.extra = <<>>
           /\ flush'.written + flush'.todo <= Len(Pending(c))'
           /\ Pending(c)' = output[c].buf
<1>1. output[c].buf \in Seq(Values) /\ <<>> \in Seq(Values) BY DEF TypeOK
<1>2. PICK len \in Nat : len = Len(output[c].buf) BY <1>1
<1>3. flush' = [who |-> c, extra |-> <<>>, written |-> 0, todo |-> len]
    BY <1>2 DEF FlushOf
<1>4. /\ flush' \in [who : Conns \cup {NoConn}, extra : Seq(Values),
                     written : Nat, todo : Nat]
      /\ flush'.who = c /\ flush'.written = 0 /\ flush'.todo = len
      /\ flush'.extra = <<>>
    BY <1>1, <1>3
<1>5. Pending(c)' = output[c].buf BY <1>1, <1>4, OnlyBuffered
<1>6. flush'.written + flush'.todo <= Len(Pending(c))' BY <1>2, <1>4, <1>5
<1> QED BY <1>4, <1>5, <1>6

(* The client a pending descriptor is registered for.                      *)
LEMMA FlushNextFacts ==
    ASSUME IInv, FlushNext
    PROVE  \E f \in mask :
               /\ pc[1] = "mask" /\ f \in Fds /\ mask' = mask \ {f}
               /\ \/ /\ translation[f] # NoConn /\ f \in ClientsWithInput
                     /\ OutputPending' = OutputPending \cup {f} /\ NewOutputPending' = TRUE
                     /\ UNCHANGED <<flush, pc>>
                  \/ /\ translation[f] \in Conns /\ f \notin ClientsWithInput
                     /\ flush' = FlushOf(translation[f]) /\ Call("writev")
                     /\ UNCHANGED <<OutputPending, NewOutputPending>>
                  \/ /\ \/ translation[f] = NoConn
                        \/ translation[f] \in Conns /\ output[translation[f]] = NoOutput
                     /\ UNCHANGED <<OutputPending, NewOutputPending, flush, pc>>
               /\ UNCHANGED <<clientVars, bufferVars, ClientsWithInput, ClientsWriteBlocked,
                              AnyClientsWriteBlocked, newoutput, closing, peerVars, sent>>
<1>1. pc[1] = "mask" BY StackTop DEF FlushNext, At, IInv
<1>2. mask \subseteq Nat /\ mask \subseteq Fds /\ mask # {}
  <2>1. mask \subseteq Fds /\ mask # {} BY DEF IInv, TypeOK, FlushNext
  <2>2. Fds \subseteq Nat BY NumbersAssumption DEF Fds
  <2> QED BY <2>1, <2>2
<1>3. PICK f : f = LeastOf(mask) OBVIOUS
<1>4. f \in mask BY <1>2, <1>3, LeastIsMember
<1>5. translation[f] \in Conns \cup {NoConn} /\ NoConn \notin Conns
    BY <1>2, <1>4 DEF IInv, TypeOK, Conns, NoConn
<1>6. /\ mask' = mask \ {f}
      /\ IF translation[f] # NoConn /\ f \in ClientsWithInput
         THEN OutputPending' = OutputPending \cup {f} /\ NewOutputPending' = TRUE
         ELSE UNCHANGED <<OutputPending, NewOutputPending>>
      /\ IF translation[f] # NoConn /\ f \notin ClientsWithInput
                /\ output[translation[f]] # NoOutput
         THEN flush' = FlushOf(translation[f]) /\ Call("writev")
         ELSE UNCHANGED <<flush, pc>>
      /\ UNCHANGED <<clientVars, bufferVars, ClientsWithInput, ClientsWriteBlocked,
                     AnyClientsWriteBlocked, newoutput, closing, peerVars, sent>>
    BY <1>3 DEF FlushNext, FlushOf
<1> QED BY <1>1, <1>2, <1>4, <1>5, <1>6

LEMMA FlushNextInv ==
    ASSUME IInv, FlushNext
    PROVE  IInv'
<1> USE DEF clientVars, bufferVars, peerVars
<1>1. PICK f \in mask :
          /\ pc[1] = "mask" /\ f \in Fds /\ mask' = mask \ {f}
          /\ \/ /\ translation[f] # NoConn
                /\ OutputPending' = OutputPending \cup {f} /\ NewOutputPending' = TRUE
                /\ UNCHANGED <<flush, pc>>
             \/ /\ translation[f] \in Conns
                /\ flush' = FlushOf(translation[f]) /\ Call("writev")
                /\ UNCHANGED <<OutputPending, NewOutputPending>>
             \/ UNCHANGED <<OutputPending, NewOutputPending, flush, pc>>
          /\ UNCHANGED <<clientVars, bufferVars, ClientsWithInput, ClientsWriteBlocked,
                         AnyClientsWriteBlocked, newoutput, closing, peerVars, sent>>
    BY FlushNextFacts
<1>2. TypeOK /\ StackInv BY DEF IInv
<1>3. /\ OutputPending' \subseteq OutputPending \cup {f} /\ mask' \subseteq Fds
      /\ NewOutputPending' \in BOOLEAN /\ OutputPending' \subseteq Fds
    BY <1>1, <1>2 DEF TypeOK
<1>4. CASE translation[f] \in Conns /\ flush' = FlushOf(translation[f]) /\ Call("writev")
           /\ UNCHANGED OutputPending
  <2>1. PICK c \in Conns : c = translation[f] BY <1>4
  <2>2. Connected(c) BY <1>1, <2>1 DEF IInv, FdInv, Conns, NoConn
  <2>3. /\ pc' \in Seq(Labels) /\ pc' # <<>> /\ StackInv'
        /\ pc'[1] = "writev" /\ pc'[2] = pc[1] /\ (Establishing' => Establishing)
      BY <1>1, <1>2, <1>4, Calls DEF Labels, Callers
  <2>4. /\ flush' \in [who : Conns \cup {NoConn}, extra : Seq(Values), written : Nat, todo : Nat]
        /\ flush'.who = c /\ flush'.written + flush'.todo <= Len(Pending(c))'
      BY <1>1, <1>2, <1>4, <2>1, FlushOfIs
  <2>5. TypeOK' BY <1>1, <1>2, <1>3, <2>3, <2>4 DEF TypeOK
  <2> QED BY <1>1, <1>4, <2>2, <2>3, <2>4, <2>5, FlushCalled
<1>5. CASE UNCHANGED <<flush, pc>> /\ (OutputPending' = OutputPending \/ translation[f] # NoConn)
  <2>1. TypeOK' BY <1>1, <1>2, <1>3, <1>5 DEF TypeOK
  <2>2. StackInv' /\ EstablishInv' /\ UnusedInv'
      BY <1>1, <1>5 DEF IInv, StackInv, EstablishInv, Establishing, UnusedInv
  <2>3. ThreadInv' BY <1>1, <1>5 DEF IInv, ThreadInv, Under, Connected
  <2>4. FdInv' BY <1>1, <1>3, <1>5 DEF IInv, FdInv, Connected
  <2> QED BY <2>1, <2>2, <2>3, <2>4 DEF IInv
<1> QED BY <1>1, <1>4, <1>5

-----------------------------------------------------------------------------
(* Clients are closed down, new ones accepted, blocked ones resumed.       *)

(* Two procedures are entered at once.                                     *)
LEMMA CallsTwo ==
    ASSUME TypeOK, StackInv, pc' = <<"writev", "close">> \o pc, pc[1] \in Callers("close")
    PROVE  /\ pc' \in Seq(Labels) /\ pc' # <<>> /\ StackInv'
           /\ pc'[1] = "writev" /\ pc'[2] = "close"
           /\ Establishing' => Establishing
<1>1. /\ pc \in Seq(Labels) /\ Len(pc) \in Nat \ {0}
      /\ Len(pc) > 1 \/ Len(pc) = 1
    BY StackTop
<1>2. PICK s : s = pc' OBVIOUS
<1>3. <<"writev", "close">> \in Seq(Labels) BY DEF Labels
<1>4. /\ s \in Seq(Labels) /\ Len(s) = Len(pc) + 2 /\ s[1] = "writev" /\ s[2] = "close"
      /\ \A i \in 1..Len(pc) : s[i + 2] = pc[i]
    BY <1>1, <1>2, <1>3
<1>5. s[Len(s)] = pc[Len(pc)] BY <1>1, <1>4
<1>6. s[Len(s)] \in Bases BY <1>5 DEF StackInv
<1>7. ASSUME NEW i \in 1..Len(s) - 1 PROVE s[i + 1] \in Callers(s[i])
  <2>1. CASE i = 1 BY <1>4, <2>1 DEF Callers
  <2>2. CASE i = 2
    <3>1. s[3] = pc[1] BY <1>1, <1>4
    <3> QED BY <1>4, <2>2, <3>1
  <2>3. CASE i > 2
    <3>1. PICK j \in 1..Len(pc) - 1 : i = j + 2 BY <1>1, <1>4, <2>3
    <3>2. pc[j + 1] \in Callers(pc[j]) BY DEF StackInv
    <3>3. s[i] = pc[j] /\ s[i + 1] = pc[j + 1] BY <1>1, <1>4, <3>1
    <3> QED BY <3>2, <3>3
  <2> QED BY <2>1, <2>2, <2>3
<1>8. StackInv' BY <1>2, <1>6, <1>7 DEF StackInv
<1>9. Establishing' => Establishing
  <2>1. CASE Len(pc) > 1 BY <1>2, <1>5, <2>1 DEF Establishing
  <2>2. CASE Len(pc) = 1
    <3>1. pc'[Len(pc')] = pc[1] BY <1>2, <1>5, <2>2
    <3>2. pc[1] # "block" BY DEF Callers
    <3> QED BY <3>1, <3>2, Zenon DEF Establishing
  <2> QED BY <1>1, <2>1, <2>2
<1> QED BY <1>2, <1>4, <1>8, <1>9

LEMMA CloseDownInv ==
    ASSUME IInv, NEW c \in Conns, CloseDownClient(c)
    PROVE  IInv'
<1> USE DEF clientVars, bufferVars, setVars, flagVars, peerVars
<1>1. /\ Connected(c) /\ pc[1] \in {"dispatch", "establish", "check"} /\ closing' = c
      /\ UNCHANGED <<clientVars, bufferVars, setVars, flagVars, newoutput, mask,
                     peerVars, sent>>
    BY DEF CloseDownClient
<1>2. TypeOK /\ StackInv /\ pc[1] \in Callers("close") /\ flush = NoFlush
    BY <1>1 DEF IInv, Callers, ThreadInv
<1>3. CASE output[c].buf # <<>>
  <2>1. flush' = FlushOf(c) /\ pc' = <<"writev", "close">> \o pc
      BY <1>3 DEF CloseDownClient, FlushOf
  <2>2. /\ pc' \in Seq(Labels) /\ pc' # <<>> /\ StackInv'
        /\ pc'[1] = "writev" /\ pc'[2] = "close" /\ (Establishing' => Establishing)
      BY <1>2, <2>1, CallsTwo
  <2>3. /\ flush' \in [who : Conns \cup {NoConn}, extra : Seq(Values), written : Nat, todo : Nat]
        /\ flush'.who = c /\ flush'.written + flush'.todo <= Len(Pending(c))'
      BY <1>1, <1>2, <2>1, FlushOfIs
  <2>4. TypeOK' BY <1>1, <1>2, <2>2, <2>3 DEF TypeOK
  <2> QED BY <1>1, <2>2, <2>3, <2>4, FlushCalled
<1>4. CASE output[c].buf = <<>>
  <2>1. Call("close") /\ UNCHANGED flush BY <1>4 DEF CloseDownClient
  <2>2. /\ pc' \in Seq(Labels) /\ pc' # <<>> /\ StackInv'
        /\ pc'[1] = "close" /\ (Establishing' => Establishing)
      BY <1>1, <1>2, <2>1, Calls DEF Labels
  <2>3. TypeOK' BY <1>1, <1>2, <2>1, <2>2 DEF TypeOK
  <2>4. ThreadInv'
    <3>1. mask' = {} /\ flush' = NoFlush /\ Connected(c)'
        BY <1>1, <1>2, <2>1 DEF IInv, ThreadInv, Under, Connected
    <3> QED BY <1>1, <2>2, <3>1 DEF ThreadInv, Under
  <2>5. FdInv' /\ UnusedInv' BY <1>1 DEF IInv, FdInv, UnusedInv, Connected
  <2>6. EstablishInv' BY <1>1, <2>2 DEF IInv, EstablishInv
  <2> QED BY <2>2, <2>3, <2>4, <2>5, <2>6 DEF IInv
<1> QED BY <1>3, <1>4

LEMMA CloseFdInv ==
    ASSUME IInv, CloseDownFileDescriptor
    PROVE  IInv'
<1> USE DEF bufferVars, flagVars, peerVars
<1>1. /\ pc[1] = "close" /\ TypeOK /\ StackInv /\ Return
      /\ UNCHANGED <<fdOf, newoutput, mask, flush, peerVars, sent>>
    BY StackTop DEF IInv, CloseDownFileDescriptor, At
<1>2. PICK c \in Conns :
          /\ c = closing /\ Connected(c) /\ fdOf[c] \in Fds /\ translation[fdOf[c]] = c
    BY <1>1 DEF IInv, ThreadInv, Under, FdInv
<1>3. PICK f \in Fds : f = fdOf[c] BY <1>2
<1>4. /\ status' = [status EXCEPT ![c] = "gone"] /\ trans' = [trans EXCEPT ![c] = FALSE]
      /\ translation' = [translation EXCEPT ![f] = NoConn]
      /\ ClientsWithInput' = ClientsWithInput \ {f}
      /\ ClientsWriteBlocked' = ClientsWriteBlocked \ {f}
      /\ OutputPending' = OutputPending \ {f}
      /\ output' = [output EXCEPT ![c] = NoOutput]
      /\ closing' = NoConn /\ UNCHANGED NewOutputPending
    BY <1>2, <1>3 DEF CloseDownFileDescriptor, ForgetFd, FreeOsBuffers
<1>5. AnyClientsWriteBlocked' \in BOOLEAN /\ freeOutputs' \in Seq(Nat)
  <2>1. AnyClientsWriteBlocked' = (AnyClientsWriteBlocked /\ ClientsWriteBlocked' # {})
      BY DEF CloseDownFileDescriptor, ForgetFd
  <2>2. output[c].size \in Nat /\ freeOutputs \in Seq(Nat) BY <1>1 DEF TypeOK
  <2>3. freeOutputs' = <<output[c].size>> \/ freeOutputs' = freeOutputs
      BY <1>2 DEF CloseDownFileDescriptor, FreeOsBuffers
  <2>4. <<output[c].size>> \in Seq(Nat) BY <2>2
  <2> QED BY <2>1, <2>2, <2>3, <2>4
<1>6. /\ pc' \in Seq(Labels) /\ pc' # <<>> /\ StackInv'
      /\ pc'[1] \in {"dispatch", "establish", "check"}
      /\ (Establishing' => Establishing)
    BY <1>1, Returns DEF Callers, Bases
<1>7. /\ status' \in [Conns -> {"unused", "running", "exception", "gone"}]
      /\ trans' \in [Conns -> BOOLEAN] /\ translation' \in [Fds -> Conns \cup {NoConn}]
      /\ output' \in [Conns -> [size : Nat, buf : Seq(Values)]]
      /\ ~trans'[c] /\ status'[c] = "gone" /\ translation'[f] = NoConn
      /\ \A d \in Conns \ {c} : /\ status'[d] = status[d] /\ trans'[d] = trans[d]
                                /\ output'[d] = output[d]
      /\ \A g \in Fds \ {f} : translation'[g] = translation[g]
  <2>1. NoOutput \in [size : Nat, buf : Seq(Values)] BY DEF NoOutput
  <2> QED BY <1>1, <1>4, <2>1 DEF TypeOK
<1>8. TypeOK'
  <2>1. OutputPending' \subseteq Fds /\ ClientsWithInput' \subseteq Fds
        /\ ClientsWriteBlocked' \subseteq Fds /\ closing' = NoConn
        /\ UNCHANGED NewOutputPending
      BY <1>1, <1>4 DEF TypeOK
  <2> QED BY <1>1, <1>5, <1>6, <1>7, <2>1 DEF TypeOK
<1>9. ThreadInv'
  <2>1. flush' = NoFlush /\ mask' = {} /\ closing' = NoConn
      BY <1>1, <1>4 DEF IInv, ThreadInv, Under
  <2> QED BY <1>6, <2>1 DEF ThreadInv, Under
<1>10. FdInv'
  <2>1. ASSUME NEW d \in Conns, Connected(d)' PROVE fdOf'[d] \in Fds /\ translation'[fdOf'[d]] = d
    <3>1. d # c /\ Connected(d) BY <1>7, <2>1 DEF Connected
    <3>2. fdOf[d] \in Fds /\ translation[fdOf[d]] = d BY <3>1 DEF IInv, FdInv
    <3>3. fdOf[d] # f BY <1>2, <1>3, <3>1, <3>2
    <3> QED BY <1>1, <1>7, <3>2, <3>3
  <2>2. ASSUME NEW g \in Fds, translation'[g] # NoConn
        PROVE  Connected(translation[g])' /\ fdOf'[translation'[g]] = g
    <3>1. g # f /\ translation'[g] = translation[g] BY <1>7, <2>2
    <3>2. translation[g] \in Conns /\ Connected(translation[g]) /\ fdOf[translation[g]] = g
        BY <1>1, <2>2, <3>1 DEF IInv, FdInv, TypeOK
    <3>3. translation[g] # c BY <1>3, <3>1, <3>2
    <3> QED BY <1>1, <1>7, <3>1, <3>2, <3>3 DEF Connected
  <2>3. ASSUME NEW g \in OutputPending' \cup ClientsWithInput' \cup ClientsWriteBlocked'
        PROVE  translation'[g] # NoConn
    <3>1. g # f /\ g \in Fds /\ translation[g] # NoConn
        BY <1>1, <1>4, <2>3 DEF IInv, FdInv, TypeOK
    <3> QED BY <1>7, <3>1
  <2>4. \A d \in Conns : trans'[d] => Connected(d)'
      BY <1>7 DEF IInv, FdInv, Connected
  <2> QED BY <2>1, <2>2, <2>3, <2>4 DEF FdInv
<1>11. UnusedInv' BY <1>1, <1>7 DEF IInv, UnusedInv
<1>12. EstablishInv'
  <2>1. \A d \in Conns : status[d] = "unused" => status'[d] = "unused"
      BY <1>2, <1>7 DEF Connected
  <2> QED BY <1>6, <2>1 DEF IInv, EstablishInv
<1> QED BY <1>6, <1>8, <1>9, <1>10, <1>11, <1>12 DEF IInv

(* Where EstablishNewConnections runs there is a connection to be made.    *)
LEMMA Establish ==
    ASSUME IInv, pc[1] = "establish"
    PROVE  Len(pc) = 2 /\ \E c \in Conns : status[c] = "unused"
<1>1. /\ pc \in Seq(Labels) /\ Len(pc) \in Nat \ {0} /\ Len(pc) > 1 /\ StackInv
      /\ pc[2] \in Callers("establish")
    BY StackTop DEF IInv, Bases
<1>2. pc[2] = "block" BY <1>1 DEF Callers
<1>3. Len(pc) = 2
  <2>1. ASSUME Len(pc) > 2 PROVE FALSE
    <3>1. pc[3] \in Callers(pc[2]) BY <1>1, <2>1 DEF StackInv
    <3> QED BY <1>2, <3>1 DEF Callers
  <2>2. PICK m \in Nat : m = Len(pc) BY <1>1
  <2>3. m > 1 /\ ~(m > 2) BY <1>1, <2>1, <2>2
  <2>4. m = 2 BY <2>3
  <2> QED BY <2>2, <2>4
<1>4. Establishing BY <1>2, <1>3 DEF Establishing
<1> QED BY <1>3, <1>4 DEF IInv, EstablishInv

LEMMA FreeFdIs ==
    ASSUME Fds \ OpenFds # {}
    PROVE  LeastOf(Fds \ OpenFds) \in Fds /\ LeastOf(Fds \ OpenFds) \notin OpenFds
<1>1. Fds \ OpenFds \subseteq Nat BY NumbersAssumption DEF Fds
<1>2. LeastOf(Fds \ OpenFds) \in Fds \ OpenFds BY <1>1, LeastIsMember
<1> QED BY <1>2

LEMMA AcceptFacts ==
    ASSUME IInv, Accept
    PROVE  \E f \in Fds, c \in Conns :
               /\ pc[1] = "establish" /\ Return /\ translation[f] = NoConn
               /\ status[c] = "unused" /\ f \notin OpenFds
               /\ status' = [status EXCEPT ![c] = "running"]
               /\ fdOf' = [fdOf EXCEPT ![c] = f]
               /\ trans' = [trans EXCEPT ![c] = TRUE]
               /\ translation' = [translation EXCEPT ![f] = c]
<1>1. pc[1] = "establish" BY StackTop DEF Accept, At, IInv
<1>2. PICK f : f = LeastOf(Fds \ OpenFds) OBVIOUS
<1>3. f \in Fds /\ f \notin OpenFds BY <1>2, FreeFdIs DEF Accept
<1>4. PICK c : c = NextConn OBVIOUS
<1>5. c \in Conns /\ status[c] = "unused"
  <2>1. PICK S : S = {d \in Conns : status[d] = "unused"} OBVIOUS
  <2>2. S # {} BY <1>1, <2>1, Establish
  <2>3. Conns \subseteq Nat BY NumbersAssumption DEF Conns
  <2>4. LeastOf(S) \in S BY <2>1, <2>2, <2>3, LeastIsMember
  <2> QED BY <1>4, <2>1, <2>4 DEF NextConn
<1> QED BY <1>1, <1>2, <1>3, <1>4, <1>5 DEF Accept

LEMMA AcceptInv ==
    ASSUME IInv, Accept
    PROVE  IInv'
<1> USE DEF bufferVars, setVars, flagVars, peerVars
<1>1. PICK f \in Fds, c \in Conns :
          /\ pc[1] = "establish" /\ Return /\ translation[f] = NoConn
          /\ status[c] = "unused"
          /\ status' = [status EXCEPT ![c] = "running"]
          /\ fdOf' = [fdOf EXCEPT ![c] = f]
          /\ trans' = [trans EXCEPT ![c] = TRUE]
          /\ translation' = [translation EXCEPT ![f] = c]
    BY AcceptFacts
<1>2. /\ TypeOK /\ StackInv
      /\ UNCHANGED <<bufferVars, setVars, flagVars, newoutput, mask, flush, closing,
                     peerVars, sent>>
    BY DEF IInv, Accept
<1>3. /\ pc' \in Seq(Labels) /\ pc' # <<>> /\ StackInv' /\ pc'[1] = "block"
    BY <1>1, <1>2, Returns DEF Callers, Bases
<1>4. EstablishInv'
  <2>1. Len(pc) = 2 /\ pc \in Seq(Labels) BY <1>1, <1>2, Establish DEF TypeOK
  <2>2. Len(pc') = Len(pc) - 1 BY <1>1, <1>2, <2>1 DEF Return, TypeOK
  <2>3. Len(pc') = 1 BY <2>1, <2>2
  <2> QED BY <2>3 DEF EstablishInv, Establishing
<1>5. /\ status' \in [Conns -> {"unused", "running", "exception", "gone"}]
      /\ trans' \in [Conns -> BOOLEAN] /\ translation' \in [Fds -> Conns \cup {NoConn}]
      /\ fdOf' \in [Conns -> Fds \cup {NoFd}]
      /\ trans'[c] /\ status'[c] = "running" /\ translation'[f] = c /\ fdOf'[c] = f
      /\ \A d \in Conns \ {c} : /\ status'[d] = status[d] /\ trans'[d] = trans[d]
                                /\ fdOf'[d] = fdOf[d]
      /\ \A g \in Fds \ {f} : translation'[g] = translation[g]
    BY <1>1, <1>2 DEF TypeOK
<1>6. TypeOK' BY <1>2, <1>3, <1>5 DEF TypeOK
<1>7. ThreadInv' BY <1>1, <1>2, <1>3 DEF IInv, ThreadInv, Under
<1>8. FdInv'
  <2>1. c # NoConn BY DEF Conns, NoConn
  <2>2. ASSUME NEW d \in Conns, Connected(d)' PROVE fdOf'[d] \in Fds /\ translation'[fdOf'[d]] = d
    <3>1. CASE d = c BY <1>5, <3>1
    <3>2. CASE d # c
      <4>1. Connected(d) BY <1>5, <2>2, <3>2 DEF Connected
      <4>2. fdOf[d] \in Fds /\ translation[fdOf[d]] = d BY <4>1 DEF IInv, FdInv
      <4>3. fdOf[d] # f BY <1>1, <4>2 DEF Conns, NoConn
      <4> QED BY <1>5, <3>2, <4>2, <4>3
    <3> QED BY <3>1, <3>2
  <2>3. ASSUME NEW g \in Fds, translation'[g] # NoConn
        PROVE  Connected(translation[g])' /\ fdOf'[translation'[g]] = g
    <3>1. CASE g = f BY <1>5, <3>1 DEF Connected
    <3>2. CASE g # f
      <4>1. translation'[g] = translation[g] BY <1>5, <3>2
      <4>2. translation[g] \in Conns /\ Connected(translation[g]) /\ fdOf[translation[g]] = g
          BY <1>2, <2>3, <4>1 DEF IInv, FdInv, TypeOK
      <4>3. translation[g] # c BY <1>1, <4>2 DEF Connected
      <4> QED BY <1>5, <4>1, <4>2, <4>3 DEF Connected
    <3> QED BY <3>1, <3>2
  <2>4. ASSUME NEW g \in OutputPending' \cup ClientsWithInput' \cup ClientsWriteBlocked'
        PROVE  translation'[g] # NoConn
    <3>1. g \in Fds /\ translation[g] # NoConn
        BY <1>2, <2>4 DEF IInv, FdInv, TypeOK
    <3> QED BY <1>5, <2>1, <3>1
  <2>5. \A d \in Conns : trans'[d] => Connected(d)'
      BY <1>5 DEF IInv, FdInv, Connected
  <2> QED BY <2>2, <2>3, <2>4, <2>5 DEF FdInv
<1>9. UnusedInv' BY <1>2, <1>5 DEF IInv, UnusedInv
<1> QED BY <1>3, <1>4, <1>6, <1>7, <1>8, <1>9 DEF IInv

LEMMA CloseReusedInv ==
    ASSUME IInv, CloseReused
    PROVE  IInv'
<1>1. PICK f : f = LeastOf(Fds \ OpenFds) OBVIOUS
<1>2. f \in Fds BY <1>1, FreeFdIs DEF CloseReused
<1>3. translation[f] # NoConn /\ CloseDownClient(translation[f]) BY <1>1 DEF CloseReused
<1>4. translation[f] \in Conns BY <1>2, <1>3 DEF IInv, TypeOK
<1> QED BY <1>3, <1>4, CloseDownInv

LEMMA SelectInv ==
    ASSUME IInv, Select
    PROVE  IInv'
<1> USE DEF clientVars, bufferVars, peerVars
<1>1. /\ pc[1] = "select" /\ TypeOK /\ StackInv
      /\ UNCHANGED <<clientVars, bufferVars, ClientsWithInput,
                     newoutput, mask, flush, closing, peerVars, sent>>
    BY StackTop DEF IInv, Select, At
<1>2. /\ Goto("wait") \/ Goto("dispatch")
      /\ OutputPending' \subseteq OutputPending \cup ClientsWriteBlocked
      /\ ClientsWriteBlocked' \subseteq ClientsWriteBlocked
      /\ NewOutputPending' \in BOOLEAN /\ AnyClientsWriteBlocked' \in BOOLEAN
  <2>1. CASE AnyClientsWriteBlocked /\ Writable # {}
    <3>1. /\ OutputPending' = OutputPending \cup Writable /\ NewOutputPending' = TRUE
          /\ ClientsWriteBlocked' = ClientsWriteBlocked \ Writable
          /\ AnyClientsWriteBlocked' = (ClientsWriteBlocked' # {})
          /\ Goto("wait") \/ Goto("dispatch")
        BY <2>1 DEF Select, Resume
    <3>2. Writable \subseteq ClientsWriteBlocked BY DEF Writable
    <3> QED BY <3>1, <3>2
  <2>2. CASE ~(AnyClientsWriteBlocked /\ Writable # {})
    <3>1. /\ UNCHANGED <<NewOutputPending, OutputPending, ClientsWriteBlocked,
                         AnyClientsWriteBlocked>>
          /\ Goto("dispatch")
        BY <2>2 DEF Select
    <3> QED BY <1>1, <3>1 DEF TypeOK
  <2> QED BY <2>1, <2>2
<1>3. /\ pc' \in Seq(Labels) /\ pc' # <<>> /\ StackInv'
      /\ pc'[1] \in {"wait", "dispatch"} /\ (Establishing' => Establishing)
    BY <1>1, <1>2, Gotos DEF Labels, Bases
<1>4. TypeOK'
  <2>1. OutputPending' \subseteq Fds /\ ClientsWriteBlocked' \subseteq Fds
      BY <1>1, <1>2 DEF TypeOK
  <2> QED BY <1>1, <1>2, <1>3, <2>1 DEF TypeOK
<1>5. ThreadInv' BY <1>1, <1>3 DEF IInv, ThreadInv, Under
<1>6. FdInv' BY <1>1, <1>2 DEF IInv, FdInv, Connected
<1>7. UnusedInv' BY <1>1 DEF IInv, UnusedInv
<1>8. EstablishInv' BY <1>1, <1>3 DEF IInv, EstablishInv
<1> QED BY <1>3, <1>4, <1>5, <1>6, <1>7, <1>8 DEF IInv

LEMMA InitInv == Init => IInv
<1> SUFFICES ASSUME Init PROVE IInv OBVIOUS
<1> USE DEF Init
<1>1. <<>> \in Seq(Values) /\ <<>> \in Seq(Nat) OBVIOUS
<1>2. NoOutput \in [size : Nat, buf : Seq(Values)] BY DEF NoOutput
<1>3. NoFlush \in [who : Conns \cup {NoConn}, extra : Seq(Values), written : Nat, todo : Nat]
    BY DEF NoFlush
<1>4. pc \in Seq(Labels) /\ pc # <<>> /\ pc[1] = "dispatch" /\ Len(pc) = 1 BY DEF Labels
<1>5. TypeOK
  <2>1. /\ status \in [Conns -> {"unused", "running", "exception", "gone"}]
        /\ fdOf \in [Conns -> Fds \cup {NoFd}] /\ trans \in [Conns -> BOOLEAN]
        /\ translation \in [Fds -> Conns \cup {NoConn}]
      OBVIOUS
  <2>2. /\ output \in [Conns -> [size : Nat, buf : Seq(Values)]]
        /\ {sock, received, sent} \subseteq [Conns -> Seq(Values)]
        /\ peer \in [Conns -> {"up", "down"}]
      BY <1>1, <1>2
  <2>3. /\ freeOutputs \in Seq(Nat) /\ OutputPending \subseteq Fds
        /\ ClientsWithInput \subseteq Fds /\ ClientsWriteBlocked \subseteq Fds
        /\ mask \subseteq Fds /\ closing \in Conns \cup {NoConn}
        /\ {NewOutputPending, AnyClientsWriteBlocked, newoutput} \subseteq BOOLEAN
      BY <1>1
  <2>4. flush \in [who : Conns \cup {NoConn}, extra : Seq(Values), written : Nat, todo : Nat]
      BY <1>3
  <2> HIDE DEF Init
  <2> QED BY <1>4, <2>1, <2>2, <2>3, <2>4, Zenon DEF TypeOK
<1>6. StackInv /\ EstablishInv BY <1>4 DEF StackInv, Bases, EstablishInv, Establishing
<1>7. ThreadInv BY <1>4 DEF ThreadInv, Under
<1>8. FdInv BY DEF FdInv, Connected
<1>9. UnusedInv BY DEF UnusedInv
<1> QED BY <1>5, <1>6, <1>7, <1>8, <1>9 DEF IInv

LEMMA StepInv == IInv /\ [Next]_vars => IInv'
<1> SUFFICES ASSUME IInv, [Next]_vars PROVE IInv' OBVIOUS
<1>1. CASE UNCHANGED vars
  <2> USE <1>1 DEF vars, clientVars, bufferVars, setVars, flagVars, threadVars, peerVars
  <2>1. TypeOK' /\ StackInv' /\ EstablishInv'
      BY DEF IInv, TypeOK, StackInv, EstablishInv, Establishing
  <2>2. ThreadInv' BY DEF IInv, ThreadInv, Under, Connected, Pending
  <2>3. FdInv' /\ UnusedInv' BY DEF IInv, FdInv, UnusedInv, Connected
  <2> QED BY <2>1, <2>2, <2>3 DEF IInv
<1>2. ASSUME NEW c \in Conns,
             \/ \E n \in Counts : WriteToClient(c, n)
             \/ WriteWithoutBuffer(c) \/ CloseDownClient(c)
             \/ (\E more \in BOOLEAN : SetInput(c, more)) \/ PeerReads(c) \/ PeerCloses(c)
      PROVE  IInv'
    BY <1>2, WriteInv, WithoutBufferInv, CloseDownInv, OutsideInv
<1>3. CASE ResetOsBuffers
  <2>1. 1 \in Conns BY NumbersAssumption DEF Conns
  <2> QED BY <1>3, <2>1, OutsideInv
<1>4. CASE FlushAllOutput \/ Wait \/ Flushing
    BY <1>4, ControlInv, FlushBodyInv, FlushNextInv, WritevInv, FlushEndsInv
       DEF Flushing, FlushClient
<1>5. CASE CloseDownFileDescriptor \/ Sleeping \/ Connecting
    BY <1>5, ControlInv, CloseFdInv, SelectInv, CloseReusedInv, AcceptInv
       DEF Sleeping, Connecting
<1> QED BY <1>1, <1>2, <1>3, <1>4, <1>5, Zenon DEF Next

LEMMA Invariant == Spec => []IInv
BY InitInv, StepInv, PTL DEF Spec

(* A descriptor number stands for one client, and one that is registered   *)
(* for nobody is in no set, whatever the kernel reuses: CloseDownClient    *)
(* takes a closed descriptor out of every set before Accept gets it again. *)
THEOREM FdsBelongCorrect == Spec => []FdsBelong
<1>1. IInv => FdsBelong
  <2> SUFFICES ASSUME IInv PROVE FdsBelong OBVIOUS
  <2>1. ASSUME NEW c \in Conns
        PROVE  Connected(c) <=> (fdOf[c] # NoFd /\ status[c] # "gone"
                                  /\ translation[fdOf[c]] = c)
    <3>1. c # NoConn BY DEF Conns, NoConn
    <3>2. ASSUME Connected(c)
          PROVE  fdOf[c] # NoFd /\ status[c] # "gone" /\ translation[fdOf[c]] = c
      <4>1. NoFd \notin Fds BY DEF Fds, NoFd
      <4> QED BY <3>2, <4>1 DEF IInv, FdInv, Connected
    <3>3. ASSUME fdOf[c] # NoFd, translation[fdOf[c]] = c PROVE Connected(c)
      <4>1. fdOf[c] \in Fds BY <3>3 DEF IInv, TypeOK
      <4> QED BY <3>1, <3>3, <4>1 DEF IInv, FdInv
    <3> QED BY <3>2, <3>3
  <2>2. \A f \in Fds : translation[f] = NoConn =>
            f \notin OutputPending \cup ClientsWithInput \cup ClientsWriteBlocked
      BY DEF IInv, FdInv
  <2> QED BY <2>1, <2>2 DEF FdsBelong
<1> QED BY <1>1, Invariant, PTL

-----------------------------------------------------------------------------
(* A buffered byte has something that will write it.                       *)

LEMMA Apart ==
    ASSUME IInv, NEW c \in Conns, NEW d \in Conns, Connected(c), Connected(d), c # d
    PROVE  fdOf[c] # fdOf[d]
BY DEF IInv, FdInv

(* Nothing changes of what the flush relies on.                            *)
LEMMA ScheduleKept ==
    ASSUME OutputScheduled,
           UNCHANGED <<trans, fdOf, output, OutputPending, ClientsWriteBlocked, flagVars,
                       mask, closing>>,
           flush'.who = flush.who
    PROVE  OutputScheduled'
BY DEF OutputScheduled, Scheduled, flagVars

LEMMA WriteScheduled ==
    ASSUME IInv, OutputScheduled, NEW c \in Conns, NEW n \in Counts, WriteToClient(c, n)
    PROVE  OutputScheduled'
<1> USE DEF clientVars
<1>1. PICK oco \in [size : Nat, buf : Seq(Values)], data, pads \in Seq(Values) :
          /\ Overflows(c, oco, data, pads) \/ Appends(c, oco, data, pads)
          /\ MayWrite /\ Connected(c)
          /\ UNCHANGED <<clientVars, ClientsWriteBlocked, AnyClientsWriteBlocked, mask, closing>>
    BY WriteFacts DEF IInv
<1>2. flush.who = NoConn /\ output \in [Conns -> [size : Nat, buf : Seq(Values)]]
  <2>1. pc[1] # "writev" BY <1>1 DEF MayWrite
  <2>2. flush = NoFlush BY <2>1 DEF IInv, ThreadInv
  <2>3. flush.who = NoConn BY <2>2 DEF NoFlush
  <2> QED BY <2>3 DEF IInv, TypeOK
<1>3. SUFFICES ASSUME NEW d \in Conns, trans'[d], output'[d].buf # <<>>
               PROVE  Scheduled(d)'
    BY DEF OutputScheduled
<1>4. trans[d] /\ fdOf'[d] = fdOf[d] /\ d # NoConn BY <1>1, <1>3 DEF Conns, NoConn
<1>5. CASE d = c
  <2>1. CASE Overflows(c, oco, data, pads) BY <1>5, <2>1 DEF Overflows, Scheduled
  <2>2. CASE Appends(c, oco, data, pads) BY <1>4, <1>5, <2>2 DEF Appends, Scheduled
  <2> QED BY <1>1, <2>1, <2>2
<1>6. CASE d # c
  <2>1. fdOf[d] # fdOf[c]
    <3>1. Connected(d) BY <1>4 DEF IInv, FdInv
    <3> QED BY <1>1, <1>6, <3>1, Apart
  <2>2. output'[d] = output[d] BY <1>1, <1>2, <1>6 DEF Overflows, Appends
  <2>3. Scheduled(d) BY <1>3, <1>4, <2>2 DEF OutputScheduled
  <2>4. CASE fdOf[d] \in OutputPending /\ NewOutputPending
    <3>1. fdOf[d] \in OutputPending' /\ NewOutputPending'
        BY <1>1, <2>1, <2>4 DEF Overflows, Appends, StillPending
    <3> QED BY <1>4, <3>1 DEF Scheduled
  <2>5. CASE ~(fdOf[d] \in OutputPending /\ NewOutputPending)
      BY <1>1, <1>2, <1>4, <2>3, <2>5 DEF Scheduled
  <2> QED BY <2>4, <2>5
<1> QED BY <1>5, <1>6

LEMMA FlushEndsScheduled ==
    ASSUME IInv, OutputScheduled, WritevBlocked \/ WritevFails \/ FlushedOut
    PROVE  OutputScheduled'
<1> USE DEF clientVars, setVars, flagVars
<1>1. pc[1] = "writev"
    BY StackTop DEF WritevBlocked, WritevFails, FlushedOut, Writing, At, IInv
<1>2. PICK c \in Conns : c = flush.who /\ Connected(c)
    BY <1>1, FlushFacts
<1>3. output \in [Conns -> [size : Nat, buf : Seq(Values)]] /\ trans \in [Conns -> BOOLEAN]
    BY DEF IInv, TypeOK
<1>4. /\ UNCHANGED <<fdOf, OutputPending, NewOutputPending, mask, closing>>
      /\ \A d \in Conns \ {c} : output'[d] = output[d] /\ trans'[d] = trans[d]
    BY <1>2, <1>3 DEF WritevBlocked, WritevFails, FlushedOut, MarkClientException
<1>5. \/ ~trans'[c] \/ output'[c].buf = <<>>
      \/ fdOf[c] \in ClientsWriteBlocked' /\ AnyClientsWriteBlocked'
  <2>1. CASE WritevBlocked BY <1>2, <2>1 DEF WritevBlocked
  <2>2. CASE WritevFails BY <1>2, <1>3, <2>2 DEF WritevFails, MarkClientException
  <2>3. CASE FlushedOut BY <1>2, <1>3, <2>3 DEF FlushedOut, NoOutput
  <2> QED BY <2>1, <2>2, <2>3
<1>6. ASSUME NEW g \in ClientsWriteBlocked \ {fdOf[c]}, AnyClientsWriteBlocked
      PROVE  g \in ClientsWriteBlocked' /\ AnyClientsWriteBlocked'
  <2>1. CASE WritevBlocked BY <1>6, <2>1 DEF WritevBlocked
  <2>2. CASE WritevFails BY <1>6, <2>2 DEF WritevFails
  <2>3. CASE FlushedOut BY <1>2, <1>6, <2>3 DEF FlushedOut
  <2> QED BY <2>1, <2>2, <2>3
<1>7. SUFFICES ASSUME NEW d \in Conns, trans'[d], output'[d].buf # <<>>
               PROVE  Scheduled(d)'
    BY DEF OutputScheduled
<1>8. CASE d = c BY <1>4, <1>5, <1>7, <1>8 DEF Scheduled
<1>9. CASE d # c
  <2>1. trans[d] /\ output[d].buf # <<>> BY <1>4, <1>7, <1>9
  <2>2. fdOf[d] # fdOf[c]
    <3>1. Connected(d) BY <2>1 DEF IInv, FdInv
    <3> QED BY <1>2, <1>9, <3>1, Apart
  <2>3. Scheduled(d) /\ flush.who # d BY <1>2, <1>9, <2>1 DEF OutputScheduled
  <2> QED BY <1>4, <1>6, <2>2, <2>3 DEF Scheduled
<1> QED BY <1>8, <1>9

LEMMA FlushScheduled ==
    ASSUME IInv, OutputScheduled, FlushBody \/ FlushNext
    PROVE  OutputScheduled'
<1> USE DEF clientVars, bufferVars
<1>1. CASE FlushBody
  <2>1. pc[1] = "callback" /\ mask = {}
      BY <1>1, StackTop DEF IInv, FlushBody, At, ThreadInv, Under
  <2>2. UNCHANGED <<trans, fdOf, output, ClientsWriteBlocked, AnyClientsWriteBlocked,
                    flush, closing>>
      BY <1>1 DEF FlushBody
  <2>3. \/ mask' = OutputPending
        \/ UNCHANGED <<NewOutputPending, mask, OutputPending>>
      BY <1>1 DEF FlushBody
  <2> QED BY <2>1, <2>2, <2>3 DEF OutputScheduled, Scheduled
<1>2. CASE FlushNext
  <2>1. PICK f \in mask :
            /\ pc[1] = "mask" /\ f \in Fds /\ mask' = mask \ {f}
            /\ \/ /\ translation[f] # NoConn /\ f \in ClientsWithInput
                  /\ OutputPending' = OutputPending \cup {f} /\ NewOutputPending' = TRUE
                  /\ UNCHANGED flush
               \/ /\ translation[f] \in Conns
                  /\ flush' = FlushOf(translation[f])
                  /\ UNCHANGED <<OutputPending, NewOutputPending>>
               \/ /\ \/ translation[f] = NoConn
                     \/ translation[f] \in Conns /\ output[translation[f]] = NoOutput
                  /\ UNCHANGED <<OutputPending, NewOutputPending, flush>>
            /\ UNCHANGED <<trans, fdOf, output, ClientsWriteBlocked, AnyClientsWriteBlocked,
                           closing>>
      BY <1>2, FlushNextFacts
  <2>2. flush.who = NoConn BY <2>1 DEF IInv, ThreadInv, NoFlush
  <2>3. SUFFICES ASSUME NEW d \in Conns, trans'[d], output'[d].buf # <<>>
                 PROVE  Scheduled(d)'
      BY DEF OutputScheduled
  <2>4. d # NoConn /\ trans[d] /\ output[d].buf # <<>> /\ fdOf'[d] = fdOf[d]
      BY <2>1, <2>3 DEF Conns, NoConn
  <2>5. Scheduled(d) BY <2>4 DEF OutputScheduled
  <2>6. CASE fdOf[d] = f
    <3>1. translation[f] = d BY <2>4, <2>6 DEF IInv, FdInv
    <3>2. output[d] # NoOutput BY <2>4 DEF NoOutput
    <3>3. \/ f \in OutputPending' /\ NewOutputPending'
          \/ flush' = FlushOf(d)
        BY <2>1, <2>4, <3>1, <3>2
    <3> QED BY <2>4, <2>6, <3>3 DEF Scheduled, FlushOf
  <2>7. CASE fdOf[d] # f
    <3>1. \/ fdOf[d] \in OutputPending' /\ NewOutputPending'
          \/ fdOf[d] \in ClientsWriteBlocked' /\ AnyClientsWriteBlocked'
          \/ fdOf[d] \in mask' \/ closing' = d
        BY <2>1, <2>2, <2>4, <2>5, <2>7 DEF Scheduled
    <3> QED BY <2>4, <3>1 DEF Scheduled
  <2> QED BY <2>6, <2>7
<1> QED BY <1>1, <1>2

LEMMA CloseScheduled ==
    ASSUME IInv, OutputScheduled, NEW c \in Conns, CloseDownClient(c)
    PROVE  OutputScheduled'
<1> USE DEF clientVars, bufferVars, setVars, flagVars
<1>1. /\ pc[1] \in {"dispatch", "establish", "check"} /\ closing' = c
      /\ UNCHANGED <<trans, fdOf, output, OutputPending, ClientsWriteBlocked,
                     NewOutputPending, AnyClientsWriteBlocked, mask>>
    BY DEF CloseDownClient
<1>2. flush.who = NoConn /\ closing = NoConn
    BY <1>1 DEF IInv, ThreadInv, NoFlush, Under
<1> QED BY <1>1, <1>2 DEF OutputScheduled, Scheduled, Conns, NoConn

LEMMA CloseFdScheduled ==
    ASSUME IInv, OutputScheduled, CloseDownFileDescriptor
    PROVE  OutputScheduled'
<1>1. pc[1] = "close" BY StackTop DEF IInv, CloseDownFileDescriptor, At
<1>2. PICK c \in Conns : c = closing /\ Connected(c)
    BY <1>1 DEF IInv, ThreadInv, Under
<1>3. /\ trans' = [trans EXCEPT ![c] = FALSE]
      /\ ClientsWriteBlocked' = ClientsWriteBlocked \ {fdOf[c]}
      /\ AnyClientsWriteBlocked' = (AnyClientsWriteBlocked /\ ClientsWriteBlocked' # {})
      /\ OutputPending' = OutputPending \ {fdOf[c]}
      /\ output' = [output EXCEPT ![c] = NoOutput]
      /\ UNCHANGED <<NewOutputPending, fdOf, mask, flush>>
    BY <1>2 DEF CloseDownFileDescriptor, ForgetFd, FreeOsBuffers
<1>4. SUFFICES ASSUME NEW d \in Conns, trans'[d], output'[d].buf # <<>>
               PROVE  Scheduled(d)'
    BY DEF OutputScheduled
<1>5. d # c /\ trans[d] /\ output[d].buf # <<>> BY <1>3, <1>4 DEF IInv, TypeOK
<1>6. fdOf[d] # fdOf[c]
  <2>1. Connected(d) BY <1>5 DEF IInv, FdInv
  <2> QED BY <1>2, <1>5, <2>1, Apart
<1>7. Scheduled(d) /\ closing # d BY <1>2, <1>5 DEF OutputScheduled
<1> QED BY <1>3, <1>6, <1>7 DEF Scheduled

LEMMA AcceptScheduled ==
    ASSUME IInv, OutputScheduled, Accept
    PROVE  OutputScheduled'
<1> USE DEF bufferVars, setVars, flagVars
<1>1. PICK f \in Fds, c \in Conns :
          /\ status[c] = "unused" /\ fdOf' = [fdOf EXCEPT ![c] = f]
          /\ trans' = [trans EXCEPT ![c] = TRUE]
    BY AcceptFacts
<1>2. /\ output' = output
      /\ UNCHANGED <<OutputPending, ClientsWriteBlocked, NewOutputPending,
                     AnyClientsWriteBlocked, mask, flush, closing>>
    BY DEF Accept
<1>3. output'[c].buf = <<>> BY <1>1, <1>2 DEF IInv, UnusedInv, NoOutput
<1>4. \A d \in Conns \ {c} : trans'[d] = trans[d] /\ fdOf'[d] = fdOf[d]
    BY <1>1 DEF IInv, TypeOK
<1> QED BY <1>2, <1>3, <1>4 DEF OutputScheduled, Scheduled

LEMMA SelectScheduled ==
    ASSUME IInv, OutputScheduled, Select
    PROVE  OutputScheduled'
<1> USE DEF clientVars, bufferVars
<1>1. UNCHANGED <<trans, fdOf, output, mask, flush, closing>> BY DEF Select
<1>2. CASE AnyClientsWriteBlocked /\ Writable # {}
  <2>1. /\ OutputPending' = OutputPending \cup Writable /\ NewOutputPending' = TRUE
        /\ ClientsWriteBlocked' = ClientsWriteBlocked \ Writable
        /\ AnyClientsWriteBlocked' = (ClientsWriteBlocked' # {})
      BY <1>2 DEF Select, Resume
  <2> QED BY <1>1, <2>1 DEF OutputScheduled, Scheduled
<1>3. CASE ~(AnyClientsWriteBlocked /\ Writable # {})
  <2>1. UNCHANGED <<NewOutputPending, OutputPending, ClientsWriteBlocked,
                    AnyClientsWriteBlocked>>
      BY <1>3 DEF Select
  <2> QED BY <1>1, <2>1 DEF OutputScheduled, Scheduled
<1> QED BY <1>2, <1>3

(* The steps that leave the buffers and what is registered for them.       *)
LEMMA OthersScheduled ==
    ASSUME IInv, OutputScheduled, NEW c \in Conns,
           \/ WriteWithoutBuffer(c) \/ PeerReads(c) \/ PeerCloses(c)
           \/ (\E more \in BOOLEAN : SetInput(c, more))
           \/ FlushAllOutput \/ ResetOsBuffers \/ Wait \/ FlushEnds \/ Writev \/ WritevTooLong
           \/ BlockHandler \/ SelectFails \/ Checked
           \/ EstablishNewConnections \/ AcceptFails \/ UNCHANGED vars
    PROVE  OutputScheduled'
<1> USE DEF vars, clientVars, bufferVars, setVars, flagVars, threadVars, peerVars
<1>1. CASE WriteWithoutBuffer(c)
  <2>1. \A d \in Conns : trans'[d] => trans[d]
      BY <1>1 DEF WriteWithoutBuffer, MarkClientException, IInv, TypeOK
  <2>2. UNCHANGED <<fdOf, output, OutputPending, ClientsWriteBlocked, NewOutputPending,
                    AnyClientsWriteBlocked, mask, flush, closing>>
    <3>1. UNCHANGED fdOf BY <1>1, Zenon DEF WriteWithoutBuffer, MarkClientException
    <3>2. UNCHANGED <<bufferVars, setVars, flagVars, threadVars>>
        BY <1>1, Zenon DEF WriteWithoutBuffer
    <3> QED BY <3>1, <3>2
  <2>3. ASSUME NEW d \in Conns, trans'[d], output'[d].buf # <<>> PROVE Scheduled(d)'
    <3>1. Scheduled(d) BY <2>1, <2>2, <2>3 DEF OutputScheduled
    <3> QED BY <2>2, <3>1 DEF Scheduled
  <2> QED BY <2>3 DEF OutputScheduled
<1>2. CASE Writev \/ WritevTooLong
  <2>1. flush'.who = flush.who
    <3>1. flush \in [who : Conns \cup {NoConn}, extra : Seq(Values), written : Nat, todo : Nat]
        BY DEF IInv, TypeOK
    <3> QED BY <1>2, <3>1 DEF Writev, WritevTooLong
  <2>2. UNCHANGED <<clientVars, bufferVars, setVars, flagVars, mask, closing>>
      BY <1>2, Zenon DEF Writev, WritevTooLong
  <2> QED BY <2>1, <2>2, ScheduleKept
<1>3. CASE PeerReads(c) \/ PeerCloses(c) \/ ResetOsBuffers \/ UNCHANGED vars
  <2>1. UNCHANGED <<clientVars, output, setVars, flagVars, threadVars>>
      BY <1>3, Zenon DEF PeerReads, PeerCloses, ResetOsBuffers
  <2> QED BY <2>1, ScheduleKept
<1>4. ASSUME NEW more \in BOOLEAN, SetInput(c, more) PROVE OutputScheduled'
    BY <1>4, ScheduleKept DEF SetInput
<1>5. CASE FlushAllOutput \/ Wait \/ FlushEnds \/ BlockHandler
    BY <1>5, ScheduleKept DEF FlushAllOutput, Wait, FlushEnds, BlockHandler
<1>6. CASE SelectFails \/ Checked \/ EstablishNewConnections \/ AcceptFails
    BY <1>6, ScheduleKept DEF SelectFails, Checked, EstablishNewConnections, AcceptFails
<1> QED BY <1>1, <1>2, <1>3, <1>4, <1>5, <1>6

(* Whatever is buffered for an open connection is in OutputPending with    *)
(* its flag, among the blocked descriptors with theirs, or still to be     *)
(* reached by the flush under way: the flags are cleared only by who takes *)
(* the last descriptor out, and the set only by who has copied it.         *)
THEOREM OutputScheduledCorrect == Spec => []OutputScheduled
<1>1. Init => OutputScheduled BY DEF Init, OutputScheduled
<1>2. IInv /\ OutputScheduled /\ [Next]_vars => OutputScheduled'
  <2> SUFFICES ASSUME IInv, OutputScheduled, [Next]_vars PROVE OutputScheduled' OBVIOUS
  <2>0. PICK one \in Conns : one = 1 BY NumbersAssumption DEF Conns
  <2>1. CASE UNCHANGED vars BY <2>0, <2>1, OthersScheduled
  <2>2. ASSUME NEW c \in Conns,
               \/ \E n \in Counts : WriteToClient(c, n)
               \/ WriteWithoutBuffer(c) \/ CloseDownClient(c)
               \/ (\E more \in BOOLEAN : SetInput(c, more)) \/ PeerReads(c) \/ PeerCloses(c)
        PROVE  OutputScheduled'
      BY <2>2, WriteScheduled, CloseScheduled, OthersScheduled
  <2>3. CASE FlushAllOutput \/ ResetOsBuffers \/ Wait \/ Flushing
      BY <2>0, <2>3, OthersScheduled, FlushScheduled, FlushEndsScheduled DEF Flushing, FlushClient
  <2>4. CASE CloseDownFileDescriptor \/ Sleeping
      BY <2>0, <2>4, OthersScheduled, CloseFdScheduled, SelectScheduled DEF Sleeping
  <2>5. CASE Connecting
    <3>1. CASE CloseReused
      <4>1. PICK f : f = LeastOf(Fds \ OpenFds) OBVIOUS
      <4>2. f \in Fds BY <3>1, <4>1, FreeFdIs DEF CloseReused
      <4>3. translation[f] # NoConn /\ CloseDownClient(translation[f])
          BY <3>1, <4>1 DEF CloseReused
      <4>4. translation[f] \in Conns BY <4>2, <4>3 DEF IInv, TypeOK
      <4> QED BY <4>3, <4>4, CloseScheduled
    <3>2. CASE ~CloseReused
        BY <2>0, <2>5, <3>2, OthersScheduled, AcceptScheduled DEF Connecting
    <3> QED BY <3>1, <3>2
  <2> QED BY <2>1, <2>2, <2>3, <2>4, <2>5, Zenon DEF Next
<1> QED BY <1>1, <1>2, Invariant, PTL DEF Spec

-----------------------------------------------------------------------------
(* What the peer gets is what was written.                                 *)

LEMMA ConcatMoves ==
    ASSUME NEW a \in Seq(Values), NEW b \in Seq(Values), NEW d \in Seq(Values),
           NEW p \in Seq(Values)
    PROVE  a \o ((b \o d) \o p) = ((a \o b) \o d) \o p
<1>1. PICK bd, ab : bd = b \o d /\ ab = a \o b OBVIOUS
<1>2. bd \in Seq(Values) /\ ab \in Seq(Values) BY <1>1, JoinIs
<1>3. Associates(a, bd, p) BY <1>2, ConcatAssociates, Zenon
<1>4. Associates(a, b, d) BY ConcatAssociates, Zenon
<1> QED BY <1>1, <1>3, <1>4 DEF Associates

LEMMA DropNone ==
    ASSUME NEW S, NEW s \in Seq(S)
    PROVE  Drop(s, 0) = s
<1>1. SubSeq(s, 1, Len(s)) = s BY SubSeqFull
<1> QED BY <1>1 DEF Drop

LEMMA DropAll ==
    ASSUME NEW S, NEW s \in Seq(S), NEW w \in Nat, w = Len(s)
    PROVE  Drop(s, w) = <<>>
<1>1. w \in Int /\ w + 1 \in Int /\ w < w + 1 OBVIOUS
<1>2. SubSeq(s, w + 1, w) = <<>> BY <1>1, SubSeqEmpty
<1> QED BY <1>2 DEF Drop

(* What is accepted and what is left are what was left before.             *)
LEMMA DropSplit ==
    ASSUME NEW S, NEW s \in Seq(S), NEW w \in Nat, NEW l \in Nat, w + l <= Len(s)
    PROVE  SubSeq(s, w + 1, w + l) \in Seq(S)
           /\ SubSeq(s, w + 1, w + l) \o Drop(s, w + l) = Drop(s, w)
<1>1. PICK n \in Nat : n = Len(s)
  <2>1. Len(s) \in Nat BY LenProperties
  <2> QED BY <2>1
<1>2. PICK m \in Nat, k \in Nat : m = w + 1 /\ k = w + l OBVIOUS
<1>3. m \in 1..n + 1 /\ k \in m - 1..n /\ n \in k..n BY <1>1, <1>2
<1>4. m \in 1..Len(s) + 1 /\ k \in m - 1..Len(s) /\ n \in k..Len(s) BY <1>1, <1>3
<1>5. SubSeq(s, m, k) \o SubSeq(s, k + 1, n) = SubSeq(s, m, n)
    BY <1>4, ConcatAdjacentSubSeq
<1>6. SubSeq(s, m, k) \in Seq(S) BY <1>1, <1>2
<1> QED BY <1>1, <1>2, <1>5, <1>6 DEF Drop

LEMMA ReadMoves ==
    ASSUME NEW S, NEW r \in Seq(S), NEW s \in Seq(S), s # <<>>
    PROVE  Append(r, Head(s)) \o Tail(s) = r \o s
<1>1. Head(s) \in S /\ Tail(s) \in Seq(S) BY HeadTailProperties
<1>2. Append(r, Head(s)) = r \o <<Head(s)>> BY <1>1, AppendIsConcat
<1>3. <<Head(s)>> \in Seq(S) BY <1>1
<1>4. (r \o <<Head(s)>>) \o Tail(s) = r \o (<<Head(s)>> \o Tail(s))
    BY <1>1, <1>3, ConcatAssociative
<1>5. <<Head(s)>> \o Tail(s) = s OBVIOUS
<1> QED BY <1>2, <1>4, <1>5

Stream == \A c \in Conns : trans[c] => received[c] \o sock[c] \o Unwritten(c) = sent[c]

LEMMA UnwrittenNow ==
    ASSUME TypeOK, NEW c \in Conns
    PROVE  /\ pc[1] # "writev" \/ flush.who # c => Unwritten(c) = output[c].buf
           /\ pc[1] = "writev" /\ flush.who = c =>
                  Unwritten(c) = Drop(Pending(c), flush.written)
<1>1. Head(pc) = pc[1] BY DEF TypeOK
<1> QED BY <1>1 DEF Unwritten, At, Drop

LEMMA UnwrittenNext ==
    ASSUME TypeOK', NEW c \in Conns
    PROVE  /\ pc'[1] # "writev" \/ flush'.who # c => Unwritten(c)' = output'[c].buf
           /\ pc'[1] = "writev" /\ flush'.who = c =>
                  Unwritten(c)' = Drop(Pending(c)', flush'.written)
<1>1. Head(pc') = pc'[1] BY DEF TypeOK
<1> QED BY <1>1 DEF Unwritten, At, Drop

(* What c still has to be sent, and that of the others, stays as it is.    *)
LEMMA StreamKept ==
    ASSUME IInv, IInv', Stream, UNCHANGED <<received, sock, sent>>,
           \A c \in Conns : trans'[c] => trans[c] /\ output'[c].buf = output[c].buf,
           pc[1] # "writev",
           pc'[1] = "writev" =>
               /\ flush'.written = 0 /\ flush'.extra = <<>>
               /\ trans'[flush'.who] => trans[flush'.who]
    PROVE  Stream'
<1> SUFFICES ASSUME NEW c \in Conns, trans'[c]
             PROVE  Unwritten(c)' = output[c].buf
  <2>1. ASSUME NEW c \in Conns, trans'[c], Unwritten(c)' = output[c].buf
        PROVE  (received[c] \o sock[c] \o Unwritten(c) = sent[c])'
    <3>1. Unwritten(c) = output[c].buf BY UnwrittenNow DEF IInv
    <3>2. received[c] \o sock[c] \o output[c].buf = sent[c] BY <2>1, <3>1 DEF Stream
    <3>3. (received[c] \o sock[c])' = received[c] \o sock[c] /\ sent'[c] = sent[c] OBVIOUS
    <3> QED BY <2>1, <3>2, <3>3
  <2> QED BY <2>1 DEF Stream
<1>1. TypeOK' /\ output'[c].buf = output[c].buf BY DEF IInv
<1>2. CASE pc'[1] # "writev" \/ flush'.who # c
  <2>1. Unwritten(c)' = output'[c].buf BY <1>1, <1>2, UnwrittenNext
  <2> QED BY <1>1, <2>1
<1>3. CASE pc'[1] = "writev" /\ flush'.who = c
  <2>1. output'[c].buf \in Seq(Values) BY <1>1 DEF TypeOK
  <2>2. flush'.extra = <<>> /\ flush'.written = 0 BY <1>3
  <2>3. Pending(c)' = output'[c].buf BY <2>1, <2>2, OnlyBuffered
  <2>4. Unwritten(c)' = Drop(Pending(c)', flush'.written) BY <1>1, <1>3, UnwrittenNext
  <2>5. Drop(output'[c].buf, 0) = output'[c].buf BY <2>1, DropNone
  <2> QED BY <1>1, <2>2, <2>3, <2>4, <2>5
<1> QED BY <1>2, <1>3

LEMMA WriteStream ==
    ASSUME IInv, IInv', Stream, NEW c \in Conns, NEW n \in Counts, WriteToClient(c, n)
    PROVE  Stream'
<1> USE DEF clientVars, peerVars
<1>1. PICK oco \in [size : Nat, buf : Seq(Values)], data, pads \in Seq(Values) :
          /\ oco.buf = output[c].buf /\ pads = Pads(Pad(Len(data)))
          /\ sent' = [sent EXCEPT ![c] = @ \o data \o pads]
          /\ Overflows(c, oco, data, pads) \/ Appends(c, oco, data, pads)
          /\ MayWrite
          /\ UNCHANGED <<clientVars, peerVars>>
    BY WriteFacts DEF IInv
<1>2. /\ TypeOK /\ TypeOK' /\ pc[1] # "writev" BY <1>1 DEF IInv, MayWrite
<1>3. SUFFICES ASSUME NEW d \in Conns, trans'[d]
               PROVE  (received[d] \o sock[d] \o Unwritten(d) = sent[d])'
    BY DEF Stream
<1>4. received[d] \o sock[d] \o output[d].buf = sent[d]
  <2>1. Unwritten(d) = output[d].buf BY <1>2, UnwrittenNow
  <2> QED BY <1>1, <1>3, <2>1 DEF Stream
<1>5. output \in [Conns -> [size : Nat, buf : Seq(Values)]]
      /\ sent \in [Conns -> Seq(Values)]
    BY <1>2 DEF TypeOK
<1>6. CASE d = c
  <2>1. PICK b : b = oco.buf \o data \o pads OBVIOUS
  <2>2. b \in Seq(Values) BY <1>1, <2>1
  <2>3. Unwritten(c)' = b
    <3>1. CASE Overflows(c, oco, data, pads)
      <4>1. pc'[1] = "writev"
        <5>1. Call("writev") /\ pc \in Seq(Labels) BY <1>2, <3>1 DEF Overflows, TypeOK
        <5> QED BY <5>1 DEF Call
      <4>2. flush'.who = c /\ flush'.extra = data /\ flush'.written = 0 /\ output'[c] = oco
          BY <1>5, <3>1 DEF Overflows
      <4>3. Pending(c)' = b BY <1>1, <2>1, <4>2 DEF Pending
      <4>4. Unwritten(c)' = Drop(Pending(c)', flush'.written)
          BY <1>2, <4>1, <4>2, UnwrittenNext
      <4>5. Drop(b, 0) = b BY <2>2, DropNone
      <4> QED BY <4>2, <4>3, <4>4, <4>5
    <3>2. CASE Appends(c, oco, data, pads)
      <4>1. output'[c].buf = b
        <5>1. output' = [output EXCEPT ![c] = [size |-> oco.size, buf |-> b]]
            BY <2>1, <3>2 DEF Appends
        <5> QED BY <1>5, <5>1
      <4>2. pc'[1] # "writev" BY <1>2, <3>2 DEF Appends
      <4> QED BY <1>2, <4>1, <4>2, UnwrittenNext
    <3> QED BY <1>1, <3>1, <3>2
  <2>4. PICK r : r = received[c] \o sock[c] OBVIOUS
  <2>5. r \in Seq(Values) BY <1>2, <2>4 DEF TypeOK
  <2>6. r \o b = ((r \o oco.buf) \o data) \o pads
    <3>1. PICK o : o = oco.buf OBVIOUS
    <3>2. o \in Seq(Values) BY <1>1, <3>1
    <3>3. data \in Seq(Values) /\ pads \in Seq(Values) BY <1>1
    <3>4. PICK q : q = o \o data OBVIOUS
    <3>5. r \o ((o \o data) \o pads) = ((r \o o) \o data) \o pads
      <4>1. q \in Seq(Values) BY <3>2, <3>3, <3>4
      <4>2. Associates(r, q, pads) BY <2>5, <3>3, <4>1, ConcatAssociates, Zenon
      <4>3. Associates(r, o, data) BY <2>5, <3>2, <3>3, ConcatAssociates, Zenon
      <4> QED BY <3>4, <4>2, <4>3 DEF Associates
    <3>6. b = (o \o data) \o pads BY <2>1, <3>1
    <3> QED BY <3>1, <3>5, <3>6
  <2>7. sent'[c] = (sent[c] \o data) \o pads BY <1>1, <1>5
  <2>8. r \o oco.buf = sent[c] BY <1>1, <1>4, <1>6, <2>4
  <2>9. received'[c] \o sock'[c] = r BY <1>1, <2>4
  <2> QED BY <1>6, <2>3, <2>6, <2>7, <2>8, <2>9
<1>7. CASE d # c
  <2>1. output'[d] = output[d] /\ sent'[d] = sent[d]
      BY <1>1, <1>5, <1>7 DEF Overflows, Appends
  <2>2. pc'[1] # "writev" \/ flush'.who # d
      BY <1>1, <1>2, <1>7 DEF Overflows, Appends
  <2>3. Unwritten(d)' = output[d].buf BY <1>2, <2>1, <2>2, UnwrittenNext
  <2> QED BY <1>1, <1>4, <2>1, <2>3
<1> QED BY <1>6, <1>7

LEMMA WritevStream ==
    ASSUME IInv, IInv', Stream, Writev \/ WritevTooLong
    PROVE  Stream'
<1> USE DEF clientVars, bufferVars, peerVars
<1>1. /\ pc[1] = "writev" /\ TypeOK /\ TypeOK'
    BY StackTop DEF Writev, WritevTooLong, Writing, At, IInv
<1>2. PICK c \in Conns :
          /\ c = flush.who /\ Pending(c) \in Seq(Values)
          /\ flush.written \in Nat /\ flush.todo \in Nat
          /\ NotWritten = Len(Pending(c)) - flush.written
          /\ NotWritten \in Nat /\ flush.todo <= NotWritten
    BY <1>1, FlushFacts
<1>3. PICK len \in Nat :
          /\ flush.written + len <= Len(Pending(c))
          /\ \/ sock' = [sock EXCEPT ![c] =
                            @ \o SubSeq(Pending(c), flush.written + 1, flush.written + len)]
             \/ len = 0 /\ sock' = sock
          /\ flush'.written = flush.written + len
          /\ flush'.who = c /\ flush'.extra = flush.extra
          /\ UNCHANGED <<trans, output, pc, received, sent>>
  <2>1. flush \in [who : Conns \cup {NoConn}, extra : Seq(Values), written : Nat, todo : Nat]
      BY <1>1 DEF TypeOK
  <2>2. CASE Writev
    <3>1. PICK len \in 1..Lower(flush.todo, Space(c)) :
              /\ sock' = [sock EXCEPT ![c] =
                             @ \o SubSeq(Pending(c), flush.written + 1, flush.written + len)]
              /\ flush' = [flush EXCEPT !.written = @ + len, !.todo = NotWritten - len]
        BY <1>2, <2>2 DEF Writev
    <3>2. len \in Nat /\ len <= flush.todo
      <4>1. sock[c] \in Seq(Values) BY <1>1 DEF TypeOK
      <4>2. Space(c) \in Int BY <4>1, NumbersAssumption DEF Space
      <4> QED BY <1>2, <4>2 DEF Lower
    <3>3. Len(Pending(c)) \in Nat BY <1>2, LenProperties
    <3>4. flush.written + len <= Len(Pending(c)) BY <1>2, <3>2, <3>3
    <3>5. flush'.written = flush.written + len /\ flush'.who = c /\ flush'.extra = flush.extra
        BY <1>2, <2>1, <3>1
    <3>6. UNCHANGED <<trans, output, pc, received, sent>> BY <2>2 DEF Writev
    <3> QED BY <3>1, <3>2, <3>4, <3>5, <3>6
  <2>3. CASE WritevTooLong
    <3>1. flush' = [flush EXCEPT !.todo = @ \div 2]
          /\ UNCHANGED <<trans, output, pc, received, sent, sock>>
        BY <2>3 DEF WritevTooLong
    <3>2. flush'.written = flush.written + 0 /\ flush'.who = c /\ flush'.extra = flush.extra
        BY <1>2, <2>1, <3>1
    <3>3. flush.written + 0 <= Len(Pending(c))
      <4>1. Len(Pending(c)) \in Nat BY <1>2, LenProperties
      <4> QED BY <1>2, <4>1
    <3> QED BY <3>1, <3>2, <3>3
  <2> QED BY <2>2, <2>3
<1>4. PICK w \in Nat : w = flush.written BY <1>2
<1>5. PICK p : p = Pending(c) OBVIOUS
<1>6. p \in Seq(Values) /\ w + len <= Len(p) BY <1>2, <1>3, <1>4, <1>5
<1>7. PICK x : x = SubSeq(p, w + 1, w + len) OBVIOUS
<1>8. x \in Seq(Values) /\ x \o Drop(p, w + len) = Drop(p, w)
    BY <1>6, <1>7, DropSplit
<1>9. Pending(c)' = p BY <1>3, <1>5 DEF Pending
<1>10. sock'[c] = sock[c] \o x /\ \A d \in Conns \ {c} : sock'[d] = sock[d]
  <2>1. sock \in [Conns -> Seq(Values)] BY <1>1 DEF TypeOK
  <2>2. CASE sock' = [sock EXCEPT ![c] =
                         @ \o SubSeq(Pending(c), flush.written + 1, flush.written + len)]
      BY <1>4, <1>5, <1>7, <2>1, <2>2
  <2>3. CASE len = 0 /\ sock' = sock
    <3>1. x = <<>>
      <4>1. w \in Int /\ w + 1 \in Int /\ w < w + 1 OBVIOUS
      <4>2. SubSeq(p, w + 1, w) = <<>> BY <4>1, SubSeqEmpty
      <4> QED BY <1>7, <2>3, <4>2
    <3>2. sock[c] \o <<>> = sock[c] BY <2>1, ConcatEmptySeq
    <3> QED BY <2>3, <3>1, <3>2
  <2> QED BY <1>3, <2>2, <2>3
<1>11. SUFFICES ASSUME NEW d \in Conns, trans'[d]
                PROVE  (received[d] \o sock[d] \o Unwritten(d) = sent[d])'
    BY DEF Stream
<1>12. received[d] \o sock[d] \o Unwritten(d) = sent[d] BY <1>3, <1>11 DEF Stream
<1>13. CASE d = c
  <2>1. Unwritten(c) = Drop(p, w) BY <1>1, <1>2, <1>4, <1>5, UnwrittenNow
  <2>2. Unwritten(c)' = Drop(p, w + len)
    <3>1. Unwritten(c)' = Drop(Pending(c)', flush'.written)
        BY <1>1, <1>3, UnwrittenNext
    <3> QED BY <1>3, <1>4, <1>9, <3>1
  <2>3. PICK u : u = Drop(p, w + len) OBVIOUS
  <2>4. u \in Seq(Values)
    <3>1. w + len \in Nat OBVIOUS
    <3> QED BY <1>6, <2>3, <3>1, DropIs
  <2>5. PICK r, k : r = received[c] /\ k = sock[c] OBVIOUS
  <2>6. r \in Seq(Values) /\ k \in Seq(Values) BY <1>1, <2>5 DEF TypeOK
  <2>7. (r \o (k \o x)) \o u = (r \o k) \o (x \o u)
    <3>1. PICK rk : rk = r \o k OBVIOUS
    <3>2. rk \in Seq(Values) BY <2>6, <3>1
    <3>3. Associates(r, k, x) BY <1>8, <2>6, ConcatAssociates, Zenon
    <3>4. Associates(rk, x, u) BY <1>8, <2>4, <3>2, ConcatAssociates, Zenon
    <3> QED BY <3>1, <3>3, <3>4 DEF Associates
  <2>8. (r \o k) \o (x \o u) = sent[c] BY <1>8, <1>12, <1>13, <2>1, <2>3, <2>5
  <2> QED BY <1>3, <1>10, <1>13, <2>2, <2>3, <2>5, <2>7, <2>8
<1>14. CASE d # c
  <2>1. Unwritten(d) = output[d].buf BY <1>1, <1>2, <1>14, UnwrittenNow
  <2>2. Unwritten(d)' = output'[d].buf BY <1>1, <1>3, <1>14, UnwrittenNext
  <2> QED BY <1>3, <1>10, <1>12, <1>14, <2>1, <2>2
<1> QED BY <1>13, <1>14

LEMMA FlushEndsStream ==
    ASSUME IInv, IInv', Stream, WritevBlocked \/ WritevFails \/ FlushedOut
    PROVE  Stream'
<1> USE DEF clientVars, peerVars
<1>1. /\ pc[1] = "writev" /\ TypeOK /\ TypeOK' /\ StackInv
    BY StackTop DEF WritevBlocked, WritevFails, FlushedOut, Writing, At, IInv
<1>2. PICK c \in Conns :
          /\ c = flush.who /\ flush.written \in Nat
          /\ output[c].buf \in Seq(Values) /\ flush.extra \in Seq(Values)
          /\ Pending(c) \in Seq(Values)
          /\ NotWritten = Len(Pending(c)) - flush.written /\ NotWritten \in Nat
    BY <1>1, FlushFacts
<1>3. /\ output \in [Conns -> [size : Nat, buf : Seq(Values)]] /\ trans \in [Conns -> BOOLEAN]
      /\ Unwritten(c) = Drop(Pending(c), flush.written)
    BY <1>1, <1>2, UnwrittenNow DEF TypeOK
<1>4. /\ UNCHANGED <<received, sock, sent>> /\ Return
      /\ \A d \in Conns \ {c} : output'[d] = output[d] /\ trans'[d] = trans[d]
      /\ trans'[c] => trans[c]
    BY <1>2, <1>3 DEF WritevBlocked, WritevFails, FlushedOut, MarkClientException
<1>5. trans'[c] => output'[c].buf = Unwritten(c)
  <2>1. CASE WritevBlocked
    <3>1. Rest(output[c]) = Drop(Pending(c), flush.written) BY <1>2, RestIs
    <3>2. \/ \E size : output' = [output EXCEPT ![c] =
                                     [size |-> size, buf |-> Rest(output[c])]]
          \/ trans' = [trans EXCEPT ![c] = FALSE]
        BY <1>2, <2>1 DEF WritevBlocked, MarkClientException
    <3> QED BY <1>3, <3>1, <3>2
  <2>2. CASE WritevFails BY <1>2, <1>3, <2>2 DEF WritevFails, MarkClientException
  <2>3. CASE FlushedOut
    <3>1. NotWritten = 0 /\ output' = [output EXCEPT ![c] = NoOutput]
        BY <1>2, <2>3 DEF FlushedOut
    <3>2. output'[c].buf = <<>> BY <1>3, <3>1 DEF NoOutput
    <3>3. flush.written = Len(Pending(c))
      <4>1. Len(Pending(c)) \in Nat BY <1>2, LenProperties
      <4> QED BY <1>2, <3>1, <4>1
    <3>4. Drop(Pending(c), flush.written) = <<>> BY <1>2, <3>3, DropAll
    <3> QED BY <1>3, <3>2, <3>4
  <2> QED BY <2>1, <2>2, <2>3
<1>6. pc'[1] # "writev" BY <1>1, <1>4, Returns DEF Callers, Bases
<1>7. SUFFICES ASSUME NEW d \in Conns, trans'[d]
               PROVE  (received[d] \o sock[d] \o Unwritten(d) = sent[d])'
    BY DEF Stream
<1>8. Unwritten(d)' = output'[d].buf BY <1>1, <1>6, UnwrittenNext
<1>9. Unwritten(d) = output'[d].buf
  <2>1. CASE d = c BY <1>5, <1>7, <2>1
  <2>2. CASE d # c
    <3>1. Unwritten(d) = output[d].buf BY <1>1, <1>2, <2>2, UnwrittenNow
    <3> QED BY <1>4, <2>2, <3>1
  <2> QED BY <2>1, <2>2
<1>10. trans[d]
  <2>1. CASE d = c BY <1>4, <1>7, <2>1
  <2>2. CASE d # c BY <1>4, <1>7, <2>2
  <2> QED BY <2>1, <2>2
<1> QED BY <1>4, <1>8, <1>9, <1>10 DEF Stream

LEMMA PeerReadsStream ==
    ASSUME IInv, IInv', Stream, NEW c \in Conns, PeerReads(c)
    PROVE  Stream'
<1> USE DEF clientVars, bufferVars, threadVars
<1>1. /\ received' = [received EXCEPT ![c] = Append(@, Head(sock[c]))]
      /\ sock' = [sock EXCEPT ![c] = Tail(@)] /\ sock[c] # <<>>
      /\ UNCHANGED <<trans, output, pc, flush, sent>>
    BY DEF PeerReads
<1>2. received \in [Conns -> Seq(Values)] /\ sock \in [Conns -> Seq(Values)]
    BY DEF IInv, TypeOK
<1>3. SUFFICES ASSUME NEW d \in Conns, trans'[d]
               PROVE  (received[d] \o sock[d] \o Unwritten(d) = sent[d])'
    BY DEF Stream
<1>4. received[d] \o sock[d] \o Unwritten(d) = sent[d] BY <1>1, <1>3 DEF Stream
<1>5. Unwritten(d)' = Unwritten(d) BY <1>1 DEF Unwritten, At, Pending
<1>6. received'[d] \o sock'[d] = received[d] \o sock[d]
  <2>1. CASE d = c
    <3>1. received'[c] = Append(received[c], Head(sock[c])) /\ sock'[c] = Tail(sock[c])
        BY <1>1, <1>2
    <3>2. received[c] \in Seq(Values) /\ sock[c] \in Seq(Values) BY <1>2
    <3>3. Append(received[c], Head(sock[c])) \o Tail(sock[c]) = received[c] \o sock[c]
        BY <1>1, <3>2, ReadMoves
    <3> QED BY <2>1, <3>1, <3>3
  <2>2. CASE d # c BY <1>1, <1>2, <2>2
  <2> QED BY <2>1, <2>2
<1> QED BY <1>1, <1>4, <1>5, <1>6

(* Nothing changes of a connection that stays open.                        *)
LEMMA StreamUntouched ==
    ASSUME Stream, UNCHANGED <<received, sock, sent, output, pc, flush>>,
           \A c \in Conns : trans'[c] => trans[c]
    PROVE  Stream'
<1>1. \A c : Unwritten(c)' = Unwritten(c) BY DEF Unwritten, At, Pending
<1> QED BY <1>1 DEF Stream

LEMMA OutsideStream ==
    ASSUME IInv, Stream, NEW c \in Conns,
           \/ WriteWithoutBuffer(c) \/ PeerCloses(c) \/ ResetOsBuffers
           \/ (\E more \in BOOLEAN : SetInput(c, more)) \/ UNCHANGED vars
    PROVE  Stream'
<1> USE DEF vars, clientVars, bufferVars, setVars, flagVars, threadVars, peerVars
<1>1. CASE WriteWithoutBuffer(c)
  <2>1. \A d \in Conns : trans'[d] => trans[d]
      BY <1>1 DEF WriteWithoutBuffer, MarkClientException, IInv, TypeOK
  <2>2. UNCHANGED <<received, sock, sent, output, pc, flush>> BY <1>1 DEF WriteWithoutBuffer
  <2> QED BY <2>1, <2>2, StreamUntouched
<1>2. CASE PeerCloses(c) \/ ResetOsBuffers \/ UNCHANGED vars
    BY <1>2, StreamUntouched DEF PeerCloses, ResetOsBuffers
<1>3. ASSUME NEW more \in BOOLEAN, SetInput(c, more) PROVE Stream'
    BY <1>3, StreamUntouched DEF SetInput
<1> QED BY <1>1, <1>2, <1>3

LEMMA ControlStream ==
    ASSUME IInv, IInv', Stream,
           \/ FlushAllOutput \/ FlushEnds \/ EstablishNewConnections \/ AcceptFails
           \/ Wait \/ BlockHandler \/ SelectFails \/ Checked \/ FlushBody \/ Select
    PROVE  Stream'
<1> USE DEF clientVars, bufferVars, setVars, flagVars, peerVars
<1>1. /\ UNCHANGED <<received, sock, sent, trans, output, flush>>
    BY DEF FlushAllOutput, FlushEnds, EstablishNewConnections, AcceptFails, Wait,
           BlockHandler, SelectFails, Checked, FlushBody, Select
<1>2. pc[1] = Head(pc) /\ pc \in Seq(Labels) /\ TypeOK /\ StackInv
    BY StackTop DEF IInv
<1>3. /\ pc[1] # "writev"
      /\ \/ Call("callback") \/ Return \/ Goto("wait") \/ Goto("check") \/ Goto("dispatch")
         \/ Goto("mask")
         \/ pc' \in {<<"establish", "block">>, <<"callback", "select">>, <<"select">>}
  <2>1. CASE FlushAllOutput BY <1>2, <2>1 DEF FlushAllOutput, At
  <2>2. CASE FlushEnds \/ AcceptFails BY <1>2, <2>2 DEF FlushEnds, AcceptFails, At
  <2>3. CASE EstablishNewConnections \/ BlockHandler
      BY <1>2, <2>3 DEF EstablishNewConnections, BlockHandler, At
  <2>4. CASE Wait \/ SelectFails \/ Checked \/ Select
      BY <1>2, <2>4 DEF Wait, SelectFails, Checked, Select, At
  <2>5. CASE FlushBody BY <1>2, <2>5 DEF FlushBody, At
  <2> QED BY <2>1, <2>2, <2>3, <2>4, <2>5
<1>4. flush = NoFlush BY <1>3 DEF IInv, ThreadInv
<1>5. pc'[1] = "writev" => FALSE
  <2>1. ASSUME pc'[1] = "writev" PROVE FALSE
    <3>1. flush'.who = NoConn BY <1>1, <1>4 DEF NoFlush
    <3>2. flush'.who \in Conns BY <2>1 DEF IInv, ThreadInv
    <3> QED BY <3>1, <3>2 DEF Conns, NoConn
  <2> QED BY <2>1
<1> QED BY <1>1, <1>3, <1>5, StreamKept

LEMMA FlushNextStream ==
    ASSUME IInv, IInv', Stream, FlushNext
    PROVE  Stream'
<1> USE DEF clientVars, bufferVars, peerVars
<1>1. PICK f \in mask :
          /\ pc[1] = "mask"
          /\ \/ UNCHANGED pc
             \/ translation[f] \in Conns /\ flush' = FlushOf(translation[f])
          /\ UNCHANGED <<trans, output, received, sock, sent>>
    BY FlushNextFacts
<1>2. CASE UNCHANGED pc
  <2>1. pc'[1] # "writev" BY <1>1, <1>2
  <2> QED BY <1>1, <2>1, StreamKept
<1>3. CASE flush' = FlushOf(translation[f])
  <2>1. flush'.written = 0 /\ flush'.extra = <<>> BY <1>3 DEF FlushOf
  <2> QED BY <1>1, <2>1, StreamKept
<1> QED BY <1>1, <1>2, <1>3

LEMMA CloseStream ==
    ASSUME IInv, IInv', Stream, NEW c \in Conns, CloseDownClient(c)
    PROVE  Stream'
<1> USE DEF clientVars, bufferVars, peerVars
<1>1. /\ pc[1] \in {"dispatch", "establish", "check"}
      /\ UNCHANGED <<trans, output, received, sock, sent>>
    BY DEF CloseDownClient
<1>2. pc'[1] = "writev" => flush'.written = 0 /\ flush'.extra = <<>>
  <2>1. CASE output[c].buf # <<>>
    <3>1. flush' = FlushOf(c) BY <2>1 DEF CloseDownClient, FlushOf
    <3> QED BY <3>1 DEF FlushOf
  <2>2. CASE output[c].buf = <<>>
    <3>1. UNCHANGED flush BY <2>2 DEF CloseDownClient
    <3>2. flush' = NoFlush BY <1>1, <3>1 DEF IInv, ThreadInv
    <3> QED BY <3>2 DEF NoFlush
  <2> QED BY <2>1, <2>2
<1> QED BY <1>1, <1>2, StreamKept

LEMMA CloseFdStream ==
    ASSUME IInv, IInv', Stream, CloseDownFileDescriptor
    PROVE  Stream'
<1> USE DEF peerVars
<1>1. pc[1] = "close" /\ TypeOK /\ StackInv
    BY StackTop DEF IInv, CloseDownFileDescriptor, At
<1>2. PICK c \in Conns : c = closing BY <1>1 DEF IInv, ThreadInv, Under
<1>3. /\ trans' = [trans EXCEPT ![c] = FALSE] /\ output' = [output EXCEPT ![c] = NoOutput]
      /\ UNCHANGED <<received, sock, sent>> /\ Return
    BY <1>2 DEF CloseDownFileDescriptor, FreeOsBuffers
<1>4. pc'[1] # "writev" BY <1>1, <1>3, Returns DEF Callers, Bases
<1>5. \A d \in Conns : trans'[d] => trans[d] /\ output'[d].buf = output[d].buf
    BY <1>1, <1>3 DEF TypeOK
<1> QED BY <1>1, <1>3, <1>4, <1>5, StreamKept

LEMMA AcceptStream ==
    ASSUME IInv, IInv', Stream, Accept
    PROVE  Stream'
<1> USE DEF bufferVars, peerVars
<1>1. PICK f \in Fds, c \in Conns :
          /\ pc[1] = "establish" /\ Return /\ status[c] = "unused"
          /\ trans' = [trans EXCEPT ![c] = TRUE]
    BY AcceptFacts
<1>2. /\ TypeOK /\ TypeOK' /\ StackInv
      /\ UNCHANGED <<received, sock, sent, output>>
    BY DEF IInv, Accept
<1>3. pc'[1] # "writev" /\ pc[1] # "writev" BY <1>1, <1>2, Returns DEF Callers, Bases
<1>4. SUFFICES ASSUME NEW d \in Conns, trans'[d]
               PROVE  (received[d] \o sock[d] \o Unwritten(d) = sent[d])'
    BY DEF Stream
<1>5. Unwritten(d)' = output[d].buf BY <1>2, <1>3, UnwrittenNext
<1>6. CASE d = c
  <2>1. received[c] = <<>> /\ sock[c] = <<>> /\ sent[c] = <<>> /\ output[c].buf = <<>>
      BY <1>1 DEF IInv, UnusedInv, NoOutput
  <2>2. <<>> \o <<>> = <<>> OBVIOUS
  <2> QED BY <1>2, <1>5, <1>6, <2>1, <2>2
<1>7. CASE d # c
  <2>1. trans[d] BY <1>1, <1>2, <1>4, <1>7 DEF TypeOK
  <2>2. Unwritten(d) = output[d].buf BY <1>2, <1>3, UnwrittenNow
  <2> QED BY <1>2, <1>5, <2>1, <2>2 DEF Stream
<1> QED BY <1>6, <1>7

(* A peer that keeps its connection gets every byte handed to              *)
(* WriteToClient, pads included, once and in order, wherever writev        *)
(* stopped: in the buffer, in the caller's data or in its pads.            *)
THEOREM StreamCorrect == Spec => []StreamInv
<1>1. Init => Stream
  <2>1. <<>> \o <<>> \o <<>> = <<>> OBVIOUS
  <2> QED BY <2>1 DEF Init, Stream
<1>2. IInv /\ IInv' /\ Stream /\ [Next]_vars => Stream'
  <2> SUFFICES ASSUME IInv, IInv', Stream, [Next]_vars PROVE Stream' OBVIOUS
  <2>0. PICK one \in Conns : one = 1 BY NumbersAssumption DEF Conns
  <2>1. CASE UNCHANGED vars BY <2>0, <2>1, OutsideStream
  <2>2. ASSUME NEW c \in Conns,
               \/ \E n \in Counts : WriteToClient(c, n)
               \/ WriteWithoutBuffer(c) \/ CloseDownClient(c)
               \/ (\E more \in BOOLEAN : SetInput(c, more)) \/ PeerReads(c) \/ PeerCloses(c)
        PROVE  Stream'
      BY <2>2, WriteStream, CloseStream, OutsideStream, PeerReadsStream
  <2>3. CASE FlushAllOutput \/ ResetOsBuffers \/ Wait \/ Flushing
      BY <2>0, <2>3, OutsideStream, ControlStream, FlushNextStream, WritevStream,
         FlushEndsStream DEF Flushing, FlushClient
  <2>4. CASE CloseDownFileDescriptor \/ Sleeping
      BY <2>4, ControlStream, CloseFdStream DEF Sleeping
  <2>5. CASE Connecting
    <3>1. CASE CloseReused
      <4>1. PICK f : f = LeastOf(Fds \ OpenFds) OBVIOUS
      <4>2. f \in Fds BY <3>1, <4>1, FreeFdIs DEF CloseReused
      <4>3. translation[f] # NoConn /\ CloseDownClient(translation[f])
          BY <3>1, <4>1 DEF CloseReused
      <4>4. translation[f] \in Conns BY <4>2, <4>3 DEF IInv, TypeOK
      <4> QED BY <4>3, <4>4, CloseStream
    <3>2. CASE ~CloseReused
        BY <2>5, <3>2, ControlStream, AcceptStream DEF Connecting
    <3> QED BY <3>1, <3>2
  <2> QED BY <2>1, <2>2, <2>3, <2>4, <2>5, Zenon DEF Next
<1>3. IInv /\ Stream => StreamInv BY DEF IInv, Stream, StreamInv
<1> QED BY <1>1, <1>2, <1>3, Invariant, PTL DEF Spec

=============================================================================
