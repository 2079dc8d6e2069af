--------------------------- MODULE MCTwoCorrections ---------------------------
(* One trade and two duplicated entry-and-exit pairs, one after the other.    *)
EXTENDS UnrecordedFill

CONSTANTS e, x, d1, y1, d2, y2

McTimeline == <<e, d1, y1, x, d2, y2>>
McSideOf   == [o \in AllOrders |-> IF o \in {e, d1, d2} THEN "entry" ELSE "exit"]
McWorlds   == {[style |-> "trade", client_ids |-> TRUE, record |-> "opened", marker |-> FALSE,
                estimate |-> FALSE, origin |-> [o \in Orders |-> "duplicate"]]}
=============================================================================
