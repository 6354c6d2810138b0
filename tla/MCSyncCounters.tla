--------------------------- MODULE MCSyncCounters ---------------------------
(***************************************************************************)
(* The instance of SyncCounters that is model-checked.                     *)
(***************************************************************************)
EXTENDS SyncCounters

CONSTANTS c1, c2, a1, k1

On(k, test, v) == [counter |-> k, relative |-> FALSE, wait |-> v, test |-> test]
After1(k, test, v) == [counter |-> k, relative |-> TRUE, wait |-> v, test |-> test]

MCValues == {0, 3}
MCMinValue == -1
MCAwaitLists ==
    {<<On(k1, "PositiveComparison", 1)>>,
     <<On(k1, "NegativeTransition", 1)>>,
     <<After1(SERVERTIME, "PositiveComparison", 1)>>,
     <<On(SERVERTIME, "PositiveComparison", 2), On(k1, "PositiveTransition", 2)>>}

Delta(x, d) == [delta |-> d] @@ x
MCAlarmSettings ==
    {Delta(On(k1, "PositiveComparison", 1), 1),
     Delta(On(k1, "NegativeTransition", 1), -1),
     Delta(After1(k1, "PositiveComparison", 3), 0),
     Delta(On(k1, "PositiveTransition", 2), 0),
     Delta(On(k1, "PositiveComparison", 2), -1),
     Delta(On(SERVERTIME, "PositiveComparison", 2), 1),
     Delta(On(SERVERTIME, "PositiveTransition", 1), 1),
     Delta(On(None, "PositiveComparison", 0), 1)}

\* The same for SERVERTIME alone.
MCTimeLists == {<<After1(SERVERTIME, "PositiveComparison", 1)>>}
MCTimeSettings == {Delta(On(SERVERTIME, "PositiveComparison", 2), 1)}
=============================================================================
