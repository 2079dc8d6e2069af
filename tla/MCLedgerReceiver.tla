--------------------------- MODULE MCLedgerReceiver ---------------------------
(* Instances of Reconciliation for TLC: a futures trade tA with its open,      *)
(* close and two successive corrections, and a spot fill tB.                   *)
EXTENDS Reconciliation, TLC

CONSTANTS e1, e2, tA, tB, openA, otherOpenA, closeA, correctA, againA, fillB, wrongA

McActionOf == [p \in Projections |->
  CASE p \in {openA, otherOpenA}          -> "append_open_v2"
    [] p = fillB                          -> "append_fill_v2"
    [] p = closeA                         -> "update_close_v2"
    [] p \in {correctA, againA, wrongA}   -> "correct_close_v2"]

McTradeOf == [p \in Projections |-> IF p = fillB THEN tB ELSE tA]

\* againA corrects the correction.
McBaseOf == [p \in Projections |-> CASE p = correctA -> closeA
                                     [] p = againA   -> correctA
                                     [] OTHER        -> Nothing]

Symmetry == Permutations(Execs)
=============================================================================
