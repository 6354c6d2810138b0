------------------------------- MODULE InputFIFO -------------------------------
(***************************************************************************)
(* What the hardware event queue promises, without ring, indices or        *)
(* threads: a bounded first-in first-out queue.  A motion that arrives     *)
(* behind a motion joins it, anything else takes a place of its own, or is *)
(* tossed when all places are taken.  The reader gets one event out of     *)
(* each place: not always the newest, as the joining may come while the    *)
(* reader has its copy already.                                            *)
(***************************************************************************)
EXTENDS Integers, Sequences, SequencesExt

CONSTANT Capacity

VARIABLES
    made,      \* number of events generated so far; an event is its number
    pending,   \* the places in use, oldest first
    taken      \* the event most recently taken by the reader, 0 for none

vars == <<made, pending, taken>>

Place(motion, ids) == [motion |-> motion, ids |-> ids]

Joins(motion) == motion /\ pending # <<>> /\ Last(pending).motion

Init == made = 0 /\ pending = <<>> /\ taken = 0

Join ==
    /\ Joins(TRUE)
    /\ made' = made + 1
    /\ pending' = Append(Front(pending), Place(TRUE, Last(pending).ids \cup {made'}))
    /\ UNCHANGED taken

Accept(motion) ==
    /\ ~Joins(motion) /\ Len(pending) < Capacity
    /\ made' = made + 1
    /\ pending' = Append(pending, Place(motion, {made'}))
    /\ UNCHANGED taken

Toss(motion) ==
    /\ ~Joins(motion) /\ Len(pending) = Capacity
    /\ made' = made + 1
    /\ UNCHANGED <<pending, taken>>

Take ==
    /\ pending # <<>>
    /\ taken' \in Head(pending).ids
    /\ pending' = Tail(pending)
    /\ UNCHANGED made

Next ==
    \/ Join
    \/ \E motion \in BOOLEAN : Accept(motion) \/ Toss(motion)
    \/ Take

Safety == Init /\ [][Next]_vars

(* What waits is taken: the reader comes back as long as there is any.     *)
ReaderComes == WF_vars(Take)

Spec == Safety /\ ReaderComes
=============================================================================
