-------------------------- MODULE MCObservationWatch --------------------------
(***************************************************************************)
(* One check at a time: any check without a memory, the sheet tab of one   *)
(* strategy, the two streaks, and the stops of a long and a short trade.   *)
(***************************************************************************)
EXTENDS ObservationWatch, TLC

CONSTANTS r1, k1, k2, s1, t1, t2

McFacts == {<<"waiting", {}>>, <<"observed", {k1}>>, <<"observed", {k2}>>, <<"failed", {k1}>>}

McSideOf == t1 :> "short" @@ t2 :> "long"

McMaxFaults == [k \in Kinds |-> IF k = "event" THEN 3 ELSE IF k \in Streaks THEN 1 ELSE 0]
=============================================================================
