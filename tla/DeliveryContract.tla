--------------------------- MODULE DeliveryContract ---------------------------
(***************************************************************************)
(* What the projection outbox promises its strategy, without the file, the *)
(* lock or the dispatchers: a projection once accepted waits until it is   *)
(* delivered or refused, a delivery is final, and only a refused projection*)
(* can be put back (src/src/trade_alerts/projection_outbox.py).            *)
(***************************************************************************)
CONSTANT Projections

VARIABLE status  \* status[p]: how far projection p has come

States == {"unknown", "waiting", "delivered", "refused"}

\* The life of one projection.
Move == {<<"unknown", "waiting">>, <<"waiting", "delivered">>,
         <<"waiting", "refused">>, <<"refused", "waiting">>}

Init == status = [p \in Projections |-> "unknown"]

\* One projection at a time moves on.
Advance(p) == \E s \in States :
                /\ <<status[p], s>> \in Move
                /\ status' = [status EXCEPT ![p] = s]

Next == \E p \in Projections : Advance(p)

Spec == Init /\ [][Next]_status
=============================================================================
