------------------------- MODULE MCProjectionOutbox -------------------------
(* Instances of ProjectionOutbox for TLC: one futures trade with its open,   *)
(* close and correction.                                                     *)
EXTENDS ProjectionOutbox, TLC

CONSTANTS w1, w2, tA, openA, closeA, correctA

McActionOf == [p \in Projections |-> CASE p = openA -> "append_open_v2"
                                       [] p = closeA -> "update_close_v2"
                                       [] p = correctA -> "correct_close_v2"]
McTradeOf  == [p \in Projections |-> tA]

\* A trade is opened, closed, then corrected.
McEarlier == [p \in Projections |-> CASE p = openA -> {}
                                      [] p = closeA -> {openA} \cap Projections
                                      [] p = correctA -> Projections \ {correctA}]

Retry(codes) == {<<"TRANSPORT_FAILED", c>> : c \in codes}
Done == <<"CONFIRMED", "none">>

\* Everything the delivery client hands back for an action (the unreachable
\* receiver included).
AllAnswers ==
  [a \in Actions |->
     {Done} \cup
     CASE a \in RowActions -> Retry({"trade_id_conflict", "transport_failed"})
       [] a = "update_close_v2" -> Retry({"trade_id_not_found", "transport_failed"})
       [] OTHER -> Retry({"trade_id_not_found", "close_not_confirmed", "transport_failed"})
                   \cup {<<"REJECTED", "correction_base_mismatch">>}]

Symmetry == Permutations(Workers)
=============================================================================
