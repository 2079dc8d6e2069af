---------------------------- MODULE Reconciliation ----------------------------
(***************************************************************************)
(* The read-only audit of the sheet against the ledger                     *)
(* (src/src/trade_alerts/google_ledger_reconciliation.py): the receiver's  *)
(* inventory of rows and audit lines, classified per local projection.     *)
(***************************************************************************)
EXTENDS LedgerReceiver, FiniteSets

\* receiver_rejected: some request of this trade and event type was refused.
SourceRejected(p) ==
  \E q \in refused : TradeOf[q] = TradeOf[p] /\ ActionOf[q] = ActionOf[p]

\* comparison_for on the confirmed lines of the trade and event type.
Comparison(p, confirmed) ==
  CASE SourceRejected(p)  -> "SOURCE_REJECTED"
    [] ~SourceRejected(p) /\ confirmed = {} -> "PENDING_SYNC"
    [] ~SourceRejected(p) /\ Cardinality(confirmed) > 1 -> "DUPLICATE_GOOGLE_TRADE_ID"
    [] OTHER -> IF OnlyLine(confirmed, p) THEN "MATCHED" ELSE "DIGEST_MISMATCH"

\* classify_projection_inventory for one local projection.
Classification(p) ==
  IF Cardinality(RowsOf(TradeOf[p])) > 1 THEN "DUPLICATE_GOOGLE_TRADE_ID"
  ELSE Comparison(p, AuditOf(TradeOf[p], ActionOf[p]))

\* MATCHED is sound: an entry so classified is what the only row of its trade shows,
\* and a close so classified has reached the exit columns, whatever was killed,
\* answered with an error or retried before.
MatchedIsShown ==
  \A p \in Projections :
    Classification(p) = "MATCHED" =>
      \E n \in RowsOf(TradeOf[p]) :
        /\ RowsOf(TradeOf[p]) = {n}
        /\ ActionOf[p] \in RowActions => rows[n].open = p
        /\ ActionOf[p] \in CloseActions => rows[n].close # Nothing
=============================================================================
