-------------------------- MODULE MCGoogleProjection --------------------------
(* Instances of GoogleProjection for TLC: one futures trade from its open to  *)
(* its correction, one dispatcher (the lock admits one anyway).               *)
EXTENDS GoogleProjection

CONSTANTS w1, e1, tA, openA, closeA, correctA

McActionOf == [p \in Projections |-> CASE p = openA -> "append_open_v2"
                                       [] p = closeA -> "update_close_v2"
                                       [] p = correctA -> "correct_close_v2"]
McTradeOf  == [p \in Projections |-> tA]
McBaseOf   == [p \in Projections |-> IF p = correctA THEN closeA ELSE Nothing]

McEarlier == [p \in Projections |-> CASE p = openA -> {}
                                      [] p = closeA -> {openA}
                                      [] p = correctA -> {openA, closeA}]
=============================================================================
