---------------------------- MODULE TradeCorrection ----------------------------
(***************************************************************************)
(* Corrections of a closed trade in an append-only ledger                  *)
(* (src/src/trade_alerts/trade_correction.py).                             *)
(*                                                                         *)
(* The figures of a close are the exchange orders they were computed from; *)
(* figures nobody computed from fills (an estimate) are the empty set.     *)
(* Every order has the same quantity. The ledger holds one trade's rows.   *)
(***************************************************************************)
EXTENDS Naturals, Sequences, FiniteSets, SequencesExt, FiniteSetsExt

CONSTANTS
  AllOrders,   \* the exchange orders of the trade
  Timeline,    \* ... in the order in which the exchange filled them
  SideOf       \* "entry" or "exit", for each of them

ASSUME OrdersAssumption == /\ SideOf \in [AllOrders -> {"entry", "exit"}]
                           /\ Timeline \in Seq(AllOrders)

LineTypes == {"trade_open", "position_recovered", "trade_close", "trade_correction",
              "spot_fill", "position_reconciliation_pending", "position_reconciled_closed"}
Figures == SUBSET AllOrders
Line == [type      : LineTypes,
         by        : {"strategy", "human", "handler"},
         at        : Nat,               \* the orders filled by then
         ids       : SUBSET AllOrders,  \* order_id, or exchange_order_ids
         previous  : Figures,           \* of a correction
         corrected : Figures]           \* of a correction; of a close, what it recorded

OfType(lines, types) == SelectSeq(lines, LAMBDA l : l.type \in types)
Opens(lines)  == OfType(lines, {"trade_open"})
Closes(lines) == OfType(lines, {"trade_close"})
Corrections(lines) == OfType(lines, {"trade_correction"})
IsCorrection(l) == l.type = "trade_correction"

\* correction_order_ids
CorrectionIds(lines) == UNION {lines[n].ids : n \in {m \in DOMAIN lines : IsCorrection(lines[m])}}

\* The order_id of every other row.
RowIds(lines) == UNION {lines[n].ids : n \in {m \in DOMAIN lines : ~IsCorrection(lines[m])}}

Leg(figures, side) == {o \in figures : SideOf[o] = side}
Flat(figures) == /\ Leg(figures, "entry") # {}
                 /\ Cardinality(Leg(figures, "entry")) = Cardinality(Leg(figures, "exit"))

\* What the k-th correction finds in force: the figures of the first close, or
\* those of the correction before it.
InForce(lines, k) == IF k = 1 THEN Closes(lines)[1].corrected
                              ELSE Corrections(lines)[k - 1].corrected

\* apply_trade_corrections does not raise ...
Applies(lines) ==
  \A k \in DOMAIN Corrections(lines) :
    /\ Flat(Corrections(lines)[k].corrected)
    /\ Closes(lines) # <<>>
    /\ Corrections(lines)[k].previous = InForce(lines, k)

\* ... and returns a close that shows these figures.
View(lines) == InForce(lines, Len(Corrections(lines)) + 1)

\* order_id of that close: the last exit the figures stand for.
ExitId(lines) ==
  IF View(lines) = {} THEN Closes(lines)[1].ids
  ELSE {Last(SelectSeq(Timeline, LAMBDA o : o \in Leg(View(lines), "exit")))}

\* build_trade_correction: what it raises on these fills, if anything.
BuildError(lines, fills) ==
  CASE ~Applies(lines) \/ Opens(lines) = <<>> \/ Closes(lines) = <<>> -> "refused"
    [] OTHER -> CASE ~(RowIds(Opens(lines)) \cup ExitId(lines) \subseteq fills) -> "refused"
                  [] ~Flat(fills) -> "not_flat"
                  [] fills = View(lines) -> "refused"
                  [] OTHER -> "none"

\* The row it returns, in the hands of whoever appends it.
Correction(lines, fills, by, at) ==
  [type |-> "trade_correction", by |-> by, at |-> at, ids |-> fills,
   previous |-> View(lines), corrected |-> fills]
=============================================================================
