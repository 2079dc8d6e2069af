----------------------------- MODULE LedgerCompare -----------------------------
(***************************************************************************)
(* The ledger against the exchange                                         *)
(* (src/src/trade_alerts/ledger_reconcile.py, exchange_ledger_compare).    *)
(*                                                                         *)
(* A snapshot holds the position at the exchange, the filled orders past   *)
(* the grace for being recorded, and the length the ledger had. The        *)
(* comparison reads the ledger later.                                      *)
(***************************************************************************)
EXTENDS TradeCorrection, Integers

Verdicts == {"RECONCILED", "PENDING", "DIVERGED", "UNKNOWN"}
Snapshot == [complete : BOOLEAN, position : Int, listed : SUBSET AllOrders, lines : Nat]

\* Mutant of RecordedIds: spot rows that the strategy did not write are left out.
OwnIds(lines) == CorrectionIds(lines) \cup RowIds(SelectSeq(lines, LAMBDA l : l.by = "strategy"))

\* recorded_order_ids
RecordedIds(lines) == RowIds(lines) \cup CorrectionIds(lines)

\* _adoption_twin_positions: an adopted position that a trade_open records too.
IsTwin(lines, l) == /\ l.type = "position_recovered" /\ l.ids # {}
                    /\ \E o \in ToSet(Opens(lines)) : o.ids = l.ids

\* _ledger_positions, over the rows at or before the snapshot.
LedgerPosition(lines) ==
  FoldLeft(LAMBDA held, l :
             CASE l.type = "trade_open" \/ (l.type = "position_recovered" /\ ~IsTwin(lines, l)) -> held + 1
               [] l.type = "trade_close" -> held - 1
               [] l.type = "position_reconciled_closed" -> 0
               [] OTHER -> held,
           0, lines)

ExchangePosition(filled) == Cardinality(Leg(filled, "entry")) - Cardinality(Leg(filled, "exit"))

\* match_fills_to_adopted_events: the rows without an order id, in the order of
\* time, and for each the earliest fill left that it can stand for.
Adoptions(lines) == {n \in DOMAIN lines : /\ lines[n].ids = {}
                                         /\ lines[n].type \in {"position_recovered", "trade_close"}}

StandsFor(l, o) == /\ SideOf[o] = IF l.type = "trade_close" THEN "exit" ELSE "entry"
                   /\ o \in ToSet(SubSeq(Timeline, 1, l.at))

\* What is first in a set of orders.
First(o, S) == \E i \in DOMAIN Timeline : /\ Timeline[i] = o /\ o \in S
                                          /\ \A j \in 1 .. i - 1 : Timeline[j] \notin S

\* The fill that row n explains, once the rows before it have explained some.
ExplainedAt(n, left, lines) ==
  LET alike == {o \in left : StandsFor(lines[n], o)}
  IN  IF n \in Adoptions(lines) THEN {o \in alike : First(o, alike)} ELSE {}

\* Mutant of Explained: one row explains every fill that looks like it.
ExplainedByAny(fills, lines) == {o \in fills : \E n \in Adoptions(lines) : StandsFor(lines[n], o)}

Explained(fills, lines) ==
  LET upTo[n \in 0 .. Len(lines)] ==
        IF n = 0 THEN {} ELSE upTo[n - 1] \cup ExplainedAt(n, fills \ upTo[n - 1], lines)
  IN  upTo[Len(lines)]

Unmatched(snap, lines) ==
  LET fills == snap.listed \ RecordedIds(lines)
  IN  fills \ Explained(fills, lines)

\* unsettled_pending_markers: a marker that no close or settlement follows.
HasMarker(lines) == /\ OfType(lines, {"position_reconciliation_pending"}) # <<>>
                    /\ OfType(lines, {"trade_close", "position_reconciled_closed"}) = <<>>

Differs(snap, lines) == \/ LedgerPosition(SubSeq(lines, 1, snap.lines)) # snap.position
                        \/ Unmatched(snap, lines) # {}

\* Mutant of Verdict: a marker holds the verdict however long it has waited.
VerdictWaitsForEver(snap, lines, expired) ==
  CASE ~snap.complete \/ lines = <<>> -> "UNKNOWN"
    [] snap.complete /\ lines # <<>> /\ Differs(snap, lines) -> "DIVERGED"
    [] OTHER -> IF Len(lines) > snap.lines \/ HasMarker(lines) THEN "PENDING" ELSE "RECONCILED"

\* exchange_ledger_compare; expired: the marker has waited longer than its limit.
Verdict(snap, lines, expired) ==
  CASE ~snap.complete \/ lines = <<>> -> "UNKNOWN"
    [] snap.complete /\ lines # <<>> /\ Differs(snap, lines) -> "DIVERGED"
    [] OTHER -> IF Len(lines) > snap.lines \/ (HasMarker(lines) /\ ~expired)
                  THEN "PENDING" ELSE "RECONCILED"
=============================================================================
