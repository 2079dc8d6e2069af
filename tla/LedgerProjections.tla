-------------------------- MODULE LedgerProjections --------------------------
(***************************************************************************)
(* What the outbox and the receiver both know of a strategy's ledger: its  *)
(* immutable projections, one per ledger event and sheet, and the trade and*)
(* write action of each (src/src/trade_alerts/projection_outbox.py).       *)
(***************************************************************************)
CONSTANTS
  Projections,  \* signed payloads, one per ledger event and payload digest
  ActionOf,     \* [Projections -> Actions]
  Trades,
  TradeOf       \* [Projections -> Trades]

RowActions   == {"append_open_v2", "append_fill_v2"}
CloseActions == {"update_close_v2", "correct_close_v2"}
Actions      == RowActions \cup CloseActions

ASSUME LedgerAssumption == /\ ActionOf \in [Projections -> Actions]
                           /\ TradeOf \in [Projections -> Trades]
=============================================================================
