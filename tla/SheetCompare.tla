---------------------------- MODULE SheetCompare ----------------------------
(***************************************************************************)
(* The comparison of the ledger with the Google sheet                      *)
(* (src/src/trade_alerts/ledger_reconcile.py: fold_ledger_trades and       *)
(* sheet_ledger_compare), for rows older than the grace a projection is    *)
(* given and figures the ledger did not estimate.  events is the ledger:   *)
(* the facts the projections were made from, by their position in the file.*)
(***************************************************************************)
EXTENDS LedgerReceiver

\* Where the facts of one trade stand, by the action that projects them.
FactsOf(events, t, actions) ==
  {k \in DOMAIN events : TradeOf[events[k]] = t /\ ActionOf[events[k]] \in actions}

\* Mutant of Effective: corrections are not applied to the close.
EffectiveUncorrected(events, t) ==
  LET closes == FactsOf(events, t, {"update_close_v2"})
  IN  IF closes = {} THEN Nothing ELSE events[Min(closes)]

\* The first close, as the corrections behind it restate it.
Effective(events, t) ==
  LET closes      == FactsOf(events, t, {"update_close_v2"})
      corrections == FactsOf(events, t, {"correct_close_v2"})
  IN  IF closes = {} THEN Nothing
      ELSE IF corrections # {} THEN events[Max(corrections)] ELSE events[Min(closes)]

\* The fold: the trades that were opened or closed, and what each was closed with.
Folded(events) ==
  [t \in {u \in Trades : FactsOf(events, u, RowActions \cup {"update_close_v2"}) # {}}
     |-> Effective(events, t)]

\* A trade is matched by its id, or else by the order of its entry.
MatchedRows(events, t) ==
  IF RowsOf(t) # {} THEN {CHOOSE n \in RowsOf(t) : \A m \in RowsOf(t) : n <= m}
  ELSE {n \in DOMAIN rows : \E k \in DOMAIN events :
          rows[n].open = events[k] /\ TradeOf[events[k]] = t}

\* Missing row, missing or unexpected close, or figures that differ.
TradeDiverges(events, t, closing) ==
  \/ MatchedRows(events, t) = {}
  \/ \E n \in MatchedRows(events, t) :
       rows[n].close # closing /\ (rows[n].close = Torn => closing = Nothing)

\* Half of an exit may agree or not, depending on which cells are there.
MayDiverge(events, t, closing) ==
  \/ TradeDiverges(events, t, closing)
  \/ \E n \in MatchedRows(events, t) : rows[n].close = Torn

\* A row of a trade the ledger does not know.
UnknownRow(trades) == \E n \in DOMAIN rows : rows[n].trade \notin DOMAIN trades \cup {Nothing}

\* What the comparison may say of the sheet as it is.
SheetVerdicts(events) ==
  LET trades == Folded(events)
  IN  IF DOMAIN trades = {} THEN {"UNKNOWN"}
      ELSE {v \in {"RECONCILED", "DIVERGED"} :
              IF v = "DIVERGED"
                THEN UnknownRow(trades) \/ \E t \in DOMAIN trades : MayDiverge(events, t, trades[t])
                ELSE ~UnknownRow(trades) /\ \A t \in DOMAIN trades : ~TradeDiverges(events, t, trades[t])}
=============================================================================
