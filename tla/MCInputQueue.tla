----------------------------- MODULE MCInputQueue -----------------------------
(***************************************************************************)
(* The input queue for TLC, and the refinement of the abstract FIFO.       *)
(***************************************************************************)
EXTENDS InputQueue

(* The k-th queued slot, counted from the head.                            *)
Nth(k) == IF head + k - 1 < QUEUE_SIZE THEN head + k - 1 ELSE head + k - 1 - QUEUE_SIZE

(* The events still in the ring, oldest first.                             *)
Waiting ==
    [k \in 1 .. Dist(tail) |-> [motion |-> slots[Nth(k)].ev.motion, ids |-> runs[Nth(k)]]]

FIFO == INSTANCE InputFIFO WITH
    Capacity <- QUEUE_SIZE - 1,
    made <- Len(log),
    pending <- Waiting,
    taken <- last.fst.id

(* The ring with its reader and its interrupt handler is the coalescing    *)
(* bounded FIFO: same order, same joining, tossing only when full, and the *)
(* reader takes whatever is pending.                                       *)
ImplementsFIFO == FIFO!Safety

(* And it is a fair reader: the loop is entered, and goes on, until the    *)
(* ring is empty, also when the indices have wrapped; and so every key or  *)
(* button in the ring is taken out of it in the end.                       *)
KeepsTaking == FIFO!ReaderComes /\ KeysTaken

=============================================================================
