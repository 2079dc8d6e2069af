---------------------------- MODULE LedgerReceiver ----------------------------
(***************************************************************************)
(* The Google Apps Script receiver of ledger projections                   *)
(* (src/apps_script/google_ledger_receiver.gs, the signed v2 handlers).    *)
(*                                                                         *)
(* Every request runs in a server execution of its own.  An execution looks*)
(* the trade up in column A, reads the audit sheet, writes its cells one by*)
(* one and appends its audit line last; there is no lock, the platform may *)
(* kill it between two writes, and a service error becomes the answer      *)
(* malformed_request.  With one execution (Cardinality(Execs) = 1) requests*)
(* are served one after the other; with two, a retry overlaps the execution*)
(* its client gave up on.                                                  *)
(***************************************************************************)
EXTENDS Naturals, Sequences, FiniteSetsExt, LedgerProjections

CONSTANTS
  BaseOf,       \* BaseOf[c]: the projection a correction names by digest
  Invalid,      \* projections whose fields or provenance the handlers refuse
  Execs,        \* server executions that may run at the same time
  Nothing,      \* an empty cell
  MaxRows       \* bound: no row is appended beyond this many

\* Cells in the middle of a write: some of the columns are the new ones.
Torn == "torn"

Errors == {"duplicate_trade_id", "trade_id_conflict", "trade_id_not_found",
           "trade_close_conflict", "close_not_confirmed",
           "correction_base_mismatch", "projection_invalid",
           "request_refused", "malformed_request"}

ASSUME ReceiverAssumption ==
  /\ BaseOf \in [Projections -> Projections \cup {Nothing}]
  /\ Nothing \notin Trades \cup Projections
  /\ Torn \notin Projections /\ Nothing # Torn
  /\ Invalid \subseteq Projections
  /\ MaxRows \in Nat

VARIABLES
  rows,     \* the trading tab below its header, one record per row
  audit,    \* the CONFIRMED lines of the audit sheet, oldest first
  refused,  \* the projections with a REJECTED line there
  exec      \* exec[e]: the execution e is running, if any

receiverVars == <<rows, audit, refused, exec>>

\* A row's trade_id cell, the columns only its entry writes, and the columns of
\* its exit (with the entry price, volume and fee that a close restates).
Row == [trade : Trades \cup {Nothing},
        open  : Projections \cup {Nothing},
        close : Projections \cup {Nothing, Torn}]

EmptyRow == [trade |-> Nothing, open |-> Nothing, close |-> Nothing]

\* pc: arrived -> looked -> (writing -> torn -> written ->) answered.
Exec == [pc     : {"idle", "arrived", "looked", "writing", "torn", "written", "answered"},
         proj   : Projections \cup {Nothing},
         found  : SUBSET Nat,         \* the rows findTradeRows returned
         row    : Nat,                \* the row it will write
         answer : Errors \cup {"ok", "none"}]

IdleExec == [pc |-> "idle", proj |-> Nothing, found |-> {}, row |-> 0, answer |-> "none"]

-----------------------------------------------------------------------------
\* Mutant of RowsOf: the first data row is taken for a header.
RowsBelowFirst(t) == {n \in DOMAIN rows : n > 1 /\ rows[n].trade = t}

RowsOf(t) == {n \in DOMAIN rows : rows[n].trade = t}

\* confirmedAuditByTradeId: the CONFIRMED lines of one trade and event type.
AuditOf(t, a) == {k \in DOMAIN audit : TradeOf[audit[k]] = t /\ ActionOf[audit[k]] = a}

\* There is one such line, and it is of p.
OnlyLine(lines, p) == \E k \in lines : lines = {k} /\ audit[k] = p

\* The version the exit columns should show after the first n audit lines: the last
\* confirmed correction, or else the confirmed close.
InForceAfter(n, t) ==
  LET corrections == {k \in AuditOf(t, "correct_close_v2") : k <= n}
      closes      == {k \in AuditOf(t, "update_close_v2") : k <= n}
  IN  IF corrections # {} THEN audit[Max(corrections)]
      ELSE IF closes # {} THEN audit[Min(closes)] ELSE Nothing

InForce(t) == InForceAfter(Len(audit), t)

\* Mutants of DecideRow: the audit sheet alone decides, or the row alone does.
DecideRowByAudit(p, found) ==
  LET prior == AuditOf(TradeOf[p], ActionOf[p])
  IN  CASE prior = {}         -> "write"
        [] OnlyLine(prior, p) -> "ok"
        [] OTHER              -> "trade_id_conflict"
DecideRowByRow(p, found) == IF found = {} THEN "write" ELSE "ok"

\* What the handler of p decides from the rows it found: an error, "ok" for an
\* idempotent resend, or "write".
DecideRow(p, found) ==
  LET prior == AuditOf(TradeOf[p], ActionOf[p])
  IN  IF found = {} THEN "write"
      ELSE IF \E m, n \in found : m # n THEN "duplicate_trade_id"
      ELSE IF OnlyLine(prior, p) THEN "ok" ELSE "trade_id_conflict"

\* Mutant of DecideClose: a resend is written again.
DecideCloseAgain(p) == "write"

DecideClose(p) ==
  LET prior == AuditOf(TradeOf[p], "update_close_v2")
  IN  CASE OnlyLine(prior, p) -> "ok"
        [] prior = {}         -> "write"
        [] OTHER              -> "trade_close_conflict"

\* Mutant of DecideCorrection: the corrected version is not compared.
DecideAnyBase(p) ==
  IF Cardinality(AuditOf(TradeOf[p], "update_close_v2")) # 1 THEN "close_not_confirmed"
  ELSE IF \E k \in DOMAIN audit : audit[k] = p THEN "ok" ELSE "write"

DecideCorrection(p) ==
  LET corrections == AuditOf(TradeOf[p], "correct_close_v2")
      closes      == AuditOf(TradeOf[p], "update_close_v2")
  IN  IF \E k \in corrections : audit[k] = p THEN "ok"
      ELSE IF Cardinality(closes) # 1 THEN "close_not_confirmed"
      ELSE IF BaseOf[p] # InForce(TradeOf[p]) THEN "correction_base_mismatch"
      ELSE "write"

Decision(p, found) ==
  IF ActionOf[p] \in RowActions THEN DecideRow(p, found)
  ELSE IF found = {} THEN "trade_id_not_found"
  ELSE IF \E m, n \in found : m # n THEN "duplicate_trade_id"
  ELSE IF ActionOf[p] = "update_close_v2" THEN DecideClose(p)
  ELSE DecideCorrection(p)

\* Cells set one by one, the first and then the rest.  An open row starts with its
\* trade_id, a fill row with its source column.  Rewriting what is there already
\* does not tear it.
FirstCells(r, p) ==
  CASE ActionOf[p] = "append_open_v2" ->
         [r EXCEPT !.trade = TradeOf[p], !.open = IF @ = p THEN p ELSE Nothing]
    [] ActionOf[p] = "append_fill_v2" -> [r EXCEPT !.open = IF @ = p THEN p ELSE Nothing]
    [] OTHER                          -> [r EXCEPT !.close = IF @ = p THEN p ELSE Torn]

AllCells(r, p) ==
  IF ActionOf[p] \in RowActions THEN [r EXCEPT !.trade = TradeOf[p], !.open = p]
  ELSE [r EXCEPT !.close = p]

\* setValue on row n of the sheet, which may be the one below the last.
WithRow(n, r) == [m \in 1 .. (IF n > Len(rows) THEN n ELSE Len(rows)) |->
                    IF m = n THEN r ELSE IF m \in DOMAIN rows THEN rows[m] ELSE EmptyRow]
CellsAt(n) == IF n \in DOMAIN rows THEN rows[n] ELSE EmptyRow

-----------------------------------------------------------------------------
ReceiverInit == /\ rows = <<>>
                /\ audit = <<>>
                /\ refused = {}
                /\ exec = [e \in Execs |-> IdleExec]

\* A request with a valid signature and provenance reaches an execution.
Arrive(e, p) ==
  /\ exec[e].pc = "idle"
  /\ exec' = [exec EXCEPT ![e] = [IdleExec EXCEPT !.pc = "arrived", !.proj = p]]
  /\ UNCHANGED <<rows, audit, refused>>

\* Admission: schema, source, signature, age, action, sheet.  Any of them refuses
\* the request before anything is read, and without an audit line.
TurnAway(e) ==
  /\ exec[e].pc = "arrived"
  /\ exec' = [exec EXCEPT ![e].pc = "answered", ![e].answer = "request_refused"]
  /\ UNCHANGED <<rows, audit, refused>>

\* Field validation of the projection, audited as REJECTED.
Invalidate(e) ==
  /\ exec[e].pc = "arrived"
  /\ exec[e].proj \in Invalid
  /\ exec' = [exec EXCEPT ![e].pc = "answered", ![e].answer = "projection_invalid"]
  /\ refused' = refused \cup {exec[e].proj}
  /\ UNCHANGED <<rows, audit>>

\* findTradeRows
Look(e) ==
  /\ exec[e].pc = "arrived"
  /\ exec[e].proj \notin Invalid
  /\ exec' = [exec EXCEPT ![e].pc = "looked", ![e].found = RowsOf(TradeOf[exec[e].proj])]
  /\ UNCHANGED <<rows, audit, refused>>

\* The audit sheet is read, and for a new row getLastRow.
Decide(e) ==
  /\ exec[e].pc = "looked"
  /\ LET p == exec[e].proj
         decision == Decision(p, exec[e].found)
     IN  \/ /\ decision = "write"
            /\ ActionOf[p] \in RowActions => Len(rows) < MaxRows
            /\ exec' = [exec EXCEPT ![e].pc = "writing",
                          ![e].row = IF ActionOf[p] \in RowActions THEN Len(rows) + 1
                                     ELSE CHOOSE n \in exec[e].found : TRUE]
            /\ UNCHANGED refused
         \/ /\ decision = "ok"
            /\ exec' = [exec EXCEPT ![e].pc = "answered", ![e].answer = "ok"]
            /\ UNCHANGED refused
         \/ /\ decision \in Errors
            /\ exec' = [exec EXCEPT ![e].pc = "answered", ![e].answer = decision]
            /\ refused' = refused \cup {p}
  /\ UNCHANGED <<rows, audit>>

\* writeProjection, in two parts.
WriteFirst(e) ==
  /\ exec[e].pc = "writing"
  /\ rows' = WithRow(exec[e].row, FirstCells(CellsAt(exec[e].row), exec[e].proj))
  /\ exec' = [exec EXCEPT ![e].pc = "torn"]
  /\ UNCHANGED <<audit, refused>>

WriteRest(e) ==
  /\ exec[e].pc = "torn"
  /\ rows' = WithRow(exec[e].row, AllCells(CellsAt(exec[e].row), exec[e].proj))
  /\ exec' = [exec EXCEPT ![e].pc = "written"]
  /\ UNCHANGED <<audit, refused>>

\* Mutant of Confirm: the audit line does not wait for the last cell.
ConfirmEarly(e) ==
  /\ exec[e].pc \in {"torn", "written"}
  /\ audit' = Append(audit, exec[e].proj)
  /\ exec' = [exec EXCEPT ![e].pc = "answered", ![e].answer = "ok"]
  /\ UNCHANGED <<rows, refused>>

\* writeAudit(CONFIRMED), then the answer.
Confirm(e) ==
  /\ exec[e].pc = "written"
  /\ audit' = Append(audit, exec[e].proj)
  /\ exec' = [exec EXCEPT ![e].pc = "answered", ![e].answer = "ok"]
  /\ UNCHANGED <<rows, refused>>

Running(e) == exec[e].pc \notin {"idle", "answered"}

\* A spreadsheet service call throws: doPost answers malformed_request.
Throw(e) ==
  /\ Running(e)
  /\ exec' = [exec EXCEPT ![e].pc = "answered", ![e].answer = "malformed_request"]
  /\ UNCHANGED <<rows, audit, refused>>

\* The platform kills the execution; there is no answer.
Kill(e) ==
  /\ Running(e)
  /\ exec' = [exec EXCEPT ![e] = IdleExec]
  /\ UNCHANGED <<rows, audit, refused>>

\* The answer leaves the execution, read by the client or not.
Finish(e) ==
  /\ exec[e].pc = "answered"
  /\ exec' = [exec EXCEPT ![e] = IdleExec]
  /\ UNCHANGED <<rows, audit, refused>>

Serve(e) == TurnAway(e) \/ Invalidate(e) \/ Look(e) \/ Decide(e) \/ WriteFirst(e) \/ WriteRest(e) \/ Confirm(e)

ReceiverNext ==
  \E e \in Execs : \/ \E p \in Projections : Arrive(e, p)
                   \/ Serve(e) \/ Throw(e) \/ Kill(e) \/ Finish(e)

ReceiverSpec == ReceiverInit /\ [][ReceiverNext]_receiverVars

-----------------------------------------------------------------------------
(* Properties of the receiver alone, whatever requests arrive.             *)

ReceiverTypeOK ==
  /\ rows \in Seq(Row)
  /\ audit \in Seq(Projections)
  /\ refused \subseteq Projections
  /\ exec \in [Execs -> Exec]

\* A trade has one row: a resend after any lost answer, error or kill never
\* writes a second one.
OneRowPerTrade ==
  \A m, n \in DOMAIN rows : (rows[m].trade = rows[n].trade /\ rows[m].trade # Nothing) => m = n

\* The audit sheet tells the truth: a confirmed row projection is what the row of
\* its trade shows, in full.
AuditedRowIsShown ==
  \A k \in DOMAIN audit :
    ActionOf[audit[k]] \in RowActions =>
      \E n \in RowsOf(TradeOf[audit[k]]) : rows[n].open = audit[k]

\* No projection is confirmed twice, and a trade's entry and its close once each:
\* a second line would turn every later resend and correction into a conflict.
ConfirmedOnce ==
  \A k, l \in DOMAIN audit :
    (/\ TradeOf[audit[k]] = TradeOf[audit[l]]
     /\ \/ audit[k] = audit[l]
        \/ ActionOf[audit[k]] = ActionOf[audit[l]] /\ ActionOf[audit[k]] # "correct_close_v2")
      => k = l

\* The confirmed corrections of a trade form a chain from its confirmed close:
\* each names the version that was in force when it was written.
CorrectionChain ==
  \A k \in DOMAIN audit :
    ActionOf[audit[k]] = "correct_close_v2" =>
      /\ BaseOf[audit[k]] = InForceAfter(k - 1, TradeOf[audit[k]])
      /\ BaseOf[audit[k]] # Nothing

\* The exit columns never show a version that was superseded: what they show in
\* full is in force or has no audit line yet.
NoSupersededCells ==
  \A n \in DOMAIN rows :
    (\E k \in DOMAIN audit : audit[k] = rows[n].close)
      => rows[n].close = InForce(rows[n].trade)
=============================================================================
