---------------------------- MODULE MCRepairRunner ----------------------------
(* Orphaned trades of two symbols, in the order of the symbols: t2 and t3   *)
(* have the same one.                                                       *)
EXTENDS RepairRunner

CONSTANTS t1, t2, t3, r1

McSymbol == [t \in Trades |-> IF t = t1 THEN "A" ELSE "B"]
McOrder  == SelectSeq(<<t1, t2, t3>>, LAMBDA t : t \in Trades)
=============================================================================
