------------------------- MODULE LedgerReceiverProofs -------------------------
(***************************************************************************)
(* Proofs about LedgerReceiver: while executions do not overlap, a trade   *)
(* has one row and the audit sheet is right about it, for any requests,    *)
(* trades and payloads, with executions killed or failing at any point.    *)
(***************************************************************************)
EXTENDS Reconciliation, SequenceTheorems, FiniteSetTheorems, WellFoundedInduction, TLAPS

\* At most one execution at a time: what a lock in the handlers would ensure.  They take
\* none, so this is assumed by each theorem; without it receiver_overlap.cfg has two rows.
Serial == \A e, f \in Execs : e = f

\* What the execution has read and written so far still holds of the sheet.
ExecInv(e) ==
  LET x == exec[e]
      t == TradeOf[x.proj]
      isRow == ActionOf[x.proj] \in RowActions
  IN  /\ x.pc # "idle" => x.proj \in Projections
      /\ x.pc = "looked" => x.found = RowsOf(t)
      /\ x.pc = "writing" => /\ isRow => RowsOf(t) = {} /\ x.row = Len(rows) + 1
                             /\ ~isRow => x.row \in DOMAIN rows
      /\ x.pc \in {"torn", "written"} => x.row \in DOMAIN rows
      /\ (x.pc = "torn" /\ isRow) => /\ rows[x.row].open = Nothing
                                     /\ RowsOf(t) \subseteq {x.row}
                                     /\ rows[x.row].trade \in {t, Nothing}
      /\ (x.pc = "written" /\ isRow) => /\ rows[x.row].open = x.proj
                                        /\ rows[x.row].trade = t

ReceiverInv == /\ ReceiverTypeOK /\ OneRowPerTrade /\ AuditedRowIsShown
               /\ \A e \in Execs : ExecInv(e)

-----------------------------------------------------------------------------
\* A write to a row of the sheet, or to the one below the last.
LEMMA WithRowShape ==
  ASSUME rows \in Seq(Row), NEW n \in 1 .. Len(rows) + 1, NEW r \in Row
  PROVE  /\ WithRow(n, r) \in Seq(Row)
         /\ DOMAIN WithRow(n, r) = DOMAIN rows \cup {n}
         /\ WithRow(n, r)[n] = r
         /\ \A m \in DOMAIN rows : m # n => WithRow(n, r)[m] = rows[m]
<1> DEFINE k == IF n > Len(rows) THEN n ELSE Len(rows)
<1>1. k \in Nat /\ Len(rows) \in Nat /\ DOMAIN rows = 1 .. Len(rows)
  BY LenProperties
<1>2. 1 .. k = DOMAIN rows \cup {n}
  BY <1>1
<1>3. \A m \in 1 .. k : m = n \/ m \in DOMAIN rows
  BY <1>2
<1>4. \A m \in DOMAIN rows : rows[m] \in Row
  BY ElementOfSeq, <1>1
<1> HIDE DEF k
<1>5. WithRow(n, r) = [m \in 1 .. k |-> IF m = n THEN r
                                      ELSE IF m \in DOMAIN rows THEN rows[m] ELSE EmptyRow]
  BY DEF WithRow, k
<1>6. WithRow(n, r) \in [1 .. k -> Row]
  BY <1>3, <1>4, <1>5
<1>7. WithRow(n, r) \in Seq(Row)
  BY <1>1, <1>6, IsASeq
<1> QED
  BY <1>2, <1>5, <1>7

LEMMA CellTypes ==
  ASSUME ReceiverTypeOK, NEW n \in Nat, NEW p \in Projections
  PROVE  /\ CellsAt(n) \in Row
         /\ \A r \in Row : FirstCells(r, p) \in Row /\ AllCells(r, p) \in Row
<1>1. EmptyRow \in Row
  BY DEF EmptyRow, Row
<1>2. n \in DOMAIN rows => rows[n] \in Row
  BY ElementOfSeq, LenProperties DEF ReceiverTypeOK
<1>3. TradeOf[p] \in Trades
  BY LedgerAssumption
<1>4. ASSUME NEW r \in Row PROVE FirstCells(r, p) \in Row
  <2>1. r.open \in Projections \cup {Nothing} /\ r.close \in Projections \cup {Nothing, Torn}
    BY DEF Row
  <2>2. CASE ActionOf[p] = "append_open_v2"
    BY <1>3, <2>1, <2>2 DEF FirstCells, Row
  <2>3. CASE ActionOf[p] = "append_fill_v2"
    BY <2>1, <2>3 DEF FirstCells, Row
  <2>4. CASE ActionOf[p] \notin {"append_open_v2", "append_fill_v2"}
    BY <2>1, <2>4 DEF FirstCells, Row
  <2> QED
    BY <2>2, <2>3, <2>4
<1>5. ASSUME NEW r \in Row PROVE AllCells(r, p) \in Row
  BY <1>3 DEF AllCells, Row
<1> QED
  BY <1>1, <1>2, <1>4, <1>5 DEF CellsAt

\* What a decision to write says about the rows that were found.
LEMMA WriteDecision ==
  ASSUME NEW p \in Projections, NEW found, Decision(p, found) = "write"
  PROVE  /\ ActionOf[p] \in RowActions => found = {}
         /\ ActionOf[p] \notin RowActions => found # {}
<1>1. CASE ActionOf[p] \in RowActions
  BY <1>1 DEF Decision, DecideRow
<1>2. CASE ActionOf[p] \notin RowActions
  BY <1>2 DEF Decision
<1> QED
  BY <1>1, <1>2

\* A step that leaves the sheet and its audit lines alone, and an execution's next
\* state right, keeps the invariant.
LEMMA SheetUntouched ==
  ASSUME Serial, ReceiverInv, NEW e \in Execs, NEW x \in Exec,
         exec' = [exec EXCEPT ![e] = x], UNCHANGED <<rows, audit>>,
         refused' \subseteq Projections,
         ExecInv(e)'
  PROVE  ReceiverInv'
<1>1. ReceiverTypeOK'
  BY DEF ReceiverInv, ReceiverTypeOK
<1>2. OneRowPerTrade' /\ AuditedRowIsShown'
  BY DEF ReceiverInv, OneRowPerTrade, AuditedRowIsShown, RowsOf
<1>3. \A f \in Execs : ExecInv(f)'
  BY DEF Serial
<1> QED
  BY <1>1, <1>2, <1>3 DEF ReceiverInv

\* The fields of an execution that runs.
LEMMA ExecTypes ==
  ASSUME ReceiverInv, NEW e \in Execs
  PROVE  /\ exec[e] \in Exec
         /\ exec[e] = [pc |-> exec[e].pc, proj |-> exec[e].proj, found |-> exec[e].found,
                       row |-> exec[e].row, answer |-> exec[e].answer]
         /\ exec[e].pc # "idle" => exec[e].proj \in Projections
         /\ ExecInv(e)
<1>1. exec[e] \in Exec /\ ExecInv(e)
  BY DEF ReceiverInv, ReceiverTypeOK
<1> QED
  BY <1>1 DEF Exec, ExecInv

LEMMA IdleFacts == IdleExec \in Exec /\ IdleExec.pc = "idle"
  BY DEF IdleExec, Exec

LEMMA ArriveKeeps ==
  ASSUME Serial, ReceiverInv, NEW e \in Execs, NEW p \in Projections, Arrive(e, p)
  PROVE  ReceiverInv'
<1> DEFINE x == [IdleExec EXCEPT !.pc = "arrived", !.proj = p]
<1>1. x \in Exec /\ x.pc = "arrived" /\ x.proj = p
  BY DEF IdleExec, Exec
<1> HIDE DEF x
<1>2. exec' = [exec EXCEPT ![e] = x] /\ UNCHANGED <<rows, audit, refused>>
  BY DEF Arrive, x
<1>3. exec'[e] = x
  BY <1>2 DEF ReceiverInv, ReceiverTypeOK
<1>4. ExecInv(e)'
  BY <1>1, <1>3 DEF ExecInv
<1> QED
  BY <1>1, <1>2, <1>4, SheetUntouched DEF ReceiverInv, ReceiverTypeOK

\* An execution that answers, or goes away, asks nothing of the sheet any more.
LEMMA EndKeeps ==
  ASSUME Serial, ReceiverInv, NEW e \in Execs, NEW x \in Exec,
         x.pc \in {"idle", "answered"}, x.pc = "answered" => x.proj \in Projections,
         exec' = [exec EXCEPT ![e] = x], UNCHANGED <<rows, audit>>,
         refused' \subseteq Projections
  PROVE  ReceiverInv'
<1>1. exec'[e] = x
  BY DEF ReceiverInv, ReceiverTypeOK
<1>2. ExecInv(e)'
  BY <1>1 DEF ExecInv
<1> QED
  BY <1>2, SheetUntouched

LEMMA RefusalKeeps ==
  ASSUME Serial, ReceiverInv, NEW e \in Execs,
         TurnAway(e) \/ Invalidate(e) \/ Throw(e) \/ Kill(e) \/ Finish(e)
  PROVE  ReceiverInv'
<1>1. CASE Kill(e) \/ Finish(e)
  <2>1. exec' = [exec EXCEPT ![e] = IdleExec] /\ UNCHANGED <<rows, audit, refused>>
    BY <1>1 DEF Kill, Finish
  <2> QED
    BY <2>1, IdleFacts, EndKeeps DEF ReceiverInv, ReceiverTypeOK
<1>2. CASE TurnAway(e) \/ Invalidate(e) \/ Throw(e)
  <2>1. PICK a \in Errors : exec' = [exec EXCEPT ![e].pc = "answered", ![e].answer = a]
    BY <1>2 DEF TurnAway, Invalidate, Throw, Errors
  <2> DEFINE x == [exec[e] EXCEPT !.pc = "answered", !.answer = a]
  <2>2. exec[e].pc # "idle" /\ exec[e].proj \in Projections
    BY <1>2, ExecTypes DEF TurnAway, Invalidate, Throw, Running
  <2>3. x \in Exec /\ x.pc = "answered" /\ x.proj = exec[e].proj
    BY ExecTypes DEF Exec
  <2>4. exec' = [exec EXCEPT ![e] = x]
    BY <2>1
  <2>5. UNCHANGED <<rows, audit>> /\ refused' \subseteq Projections
    BY <1>2, <2>2 DEF TurnAway, Invalidate, Throw, ReceiverInv, ReceiverTypeOK
  <2> QED
    BY <2>2, <2>3, <2>4, <2>5, EndKeeps
<1> QED
  BY <1>1, <1>2

LEMMA LookKeeps ==
  ASSUME Serial, ReceiverInv, NEW e \in Execs, Look(e)
  PROVE  ReceiverInv'
<1> DEFINE t == TradeOf[exec[e].proj]
           x == [exec[e] EXCEPT !.pc = "looked", !.found = RowsOf(t)]
<1>1. exec[e] \in Exec /\ exec[e].proj \in Projections
  BY ExecTypes DEF Look
<1>2. RowsOf(t) \subseteq Nat
  BY LenProperties DEF RowsOf, ReceiverInv, ReceiverTypeOK
<1>3. x \in Exec /\ x.pc = "looked" /\ x.proj = exec[e].proj /\ x.found = RowsOf(t)
  BY <1>1, <1>2 DEF Exec
<1>4. exec' = [exec EXCEPT ![e] = x] /\ UNCHANGED <<rows, audit, refused>>
  BY DEF Look
<1>5. exec'[e] = x
  BY <1>4 DEF ReceiverInv, ReceiverTypeOK
<1>6. ExecInv(e)'
  <2> HIDE DEF x
  <2>1. x.found = {m \in DOMAIN rows' : rows'[m].trade = TradeOf[x.proj]}
    BY <1>3, <1>4 DEF RowsOf
  <2> QED
    BY <1>1, <1>3, <1>5, <2>1 DEF ExecInv, RowsOf
<1> QED
  BY <1>3, <1>4, <1>6, SheetUntouched DEF ReceiverInv, ReceiverTypeOK

LEMMA DecideKeeps ==
  ASSUME Serial, ReceiverInv, NEW e \in Execs, Decide(e)
  PROVE  ReceiverInv'
<1> DEFINE p == exec[e].proj
           found == exec[e].found
           isRow == ActionOf[p] \in RowActions
<1>1. /\ exec[e] \in Exec /\ p \in Projections /\ exec[e].pc = "looked"
      /\ found = RowsOf(TradeOf[p])
  BY ExecTypes DEF Decide, ExecInv
<1>2. UNCHANGED <<rows, audit>> /\ refused \subseteq Projections
  BY DEF Decide, ReceiverInv, ReceiverTypeOK
<1>3. CASE Decision(p, found) = "write"
  <2> DEFINE n == IF isRow THEN Len(rows) + 1 ELSE CHOOSE m \in found : TRUE
             x == [exec[e] EXCEPT !.pc = "writing", !.row = n]
  <2>1. exec' = [exec EXCEPT ![e] = x] /\ refused' = refused
    BY <1>3 DEF Decide, Errors
  <2>2. /\ isRow => found = {} /\ n = Len(rows) + 1
        /\ ~isRow => n \in found
    BY <1>1, <1>3, WriteDecision
  <2>3. Len(rows) \in Nat /\ RowsOf(TradeOf[p]) \subseteq DOMAIN rows /\ DOMAIN rows \subseteq Nat
    BY LenProperties DEF RowsOf, ReceiverInv, ReceiverTypeOK
  <2> HIDE DEF n
  <2>4. n \in Nat
    BY <1>1, <2>2, <2>3
  <2>5. x \in Exec /\ x.pc = "writing" /\ x.proj = p /\ x.row = n
    BY <1>1, <2>4 DEF Exec
  <2>6. exec'[e] = x
    BY <2>1 DEF ReceiverInv, ReceiverTypeOK
  <2>7. ExecInv(e)'
    BY <1>1, <1>2, <2>2, <2>3, <2>5, <2>6 DEF ExecInv, RowsOf
  <2> QED
    BY <1>2, <2>1, <2>5, <2>7, SheetUntouched
<1>4. CASE Decision(p, found) # "write"
  <2>1. PICK a \in Errors \cup {"ok"} :
             exec' = [exec EXCEPT ![e].pc = "answered", ![e].answer = a]
    BY <1>4 DEF Decide
  <2> DEFINE x == [exec[e] EXCEPT !.pc = "answered", !.answer = a]
  <2>2. x \in Exec /\ x.pc = "answered" /\ x.proj = p
    BY <1>1, ExecTypes DEF Exec
  <2>3. exec' = [exec EXCEPT ![e] = x]
    BY <2>1
  <2>4. refused' \subseteq Projections
    BY <1>1, <1>2 DEF Decide
  <2> QED
    BY <1>1, <1>2, <2>2, <2>3, <2>4, EndKeeps
<1> QED
  BY <1>3, <1>4

-----------------------------------------------------------------------------
\* Cells of an exit do not disturb a row's trade or entry.
LEMMA ExitCellsKeep ==
  ASSUME Serial, ReceiverInv, NEW e \in Execs, exec[e].row \in DOMAIN rows, NEW r \in Row,
         r.trade = rows[exec[e].row].trade, r.open = rows[exec[e].row].open,
         rows' = WithRow(exec[e].row, r), UNCHANGED <<audit, refused>>,
         NEW q \in {"torn", "written"}, exec' = [exec EXCEPT ![e].pc = q],
         exec[e].proj \in Projections, ActionOf[exec[e].proj] \notin RowActions
  PROVE  ReceiverInv'
<1> DEFINE n == exec[e].row
<1>1. /\ rows' \in Seq(Row) /\ DOMAIN rows' = DOMAIN rows /\ rows'[n] = r
      /\ \A m \in DOMAIN rows : m # n => rows'[m] = rows[m]
  <2>1. rows \in Seq(Row)
    BY DEF ReceiverInv, ReceiverTypeOK
  <2>2. n \in DOMAIN rows /\ n \in 1 .. Len(rows) + 1
    BY <2>1, LenProperties
  <2> HIDE DEF n
  <2>3. rows' = WithRow(n, r)
    BY DEF n
  <2>4. DOMAIN rows \cup {n} = DOMAIN rows
    BY <2>2
  <2>5. /\ WithRow(n, r) \in Seq(Row) /\ DOMAIN WithRow(n, r) = DOMAIN rows \cup {n}
        /\ WithRow(n, r)[n] = r
        /\ \A m \in DOMAIN rows : m # n => WithRow(n, r)[m] = rows[m]
    BY <2>1, <2>2, WithRowShape
  <2> QED
    BY <2>3, <2>4, <2>5
<1>2. \A m \in DOMAIN rows : rows'[m].trade = rows[m].trade /\ rows'[m].open = rows[m].open
  BY <1>1
<1>3. exec[e] \in Exec
  BY ExecTypes
<1>4. [exec[e] EXCEPT !.pc = q] \in Exec
  BY <1>3 DEF Exec
<1>5. ReceiverTypeOK'
  BY <1>1, <1>4 DEF ReceiverInv, ReceiverTypeOK
<1>6. OneRowPerTrade'
  BY <1>1, <1>2 DEF ReceiverInv, OneRowPerTrade
<1>7. AuditedRowIsShown'
  BY <1>1, <1>2 DEF ReceiverInv, AuditedRowIsShown, RowsOf
<1>8. exec'[e].pc = q /\ exec'[e].proj = exec[e].proj /\ exec'[e].row = n
  BY <1>3 DEF Exec, ReceiverInv, ReceiverTypeOK
<1>9. ExecInv(e)'
  BY <1>1, <1>8 DEF ExecInv
<1> QED
  BY <1>5, <1>6, <1>7, <1>9 DEF ReceiverInv, Serial

\* Cells of an entry, in a row that no audit line speaks of and where no other row
\* has its trade.
LEMMA EntryCellsKeep ==
  ASSUME Serial, ReceiverInv, NEW e \in Execs, NEW p, p = exec[e].proj, p \in Projections,
         NEW n, n = exec[e].row, n \in 1 .. Len(rows) + 1, NEW r \in Row,
         RowsOf(TradeOf[p]) \subseteq {n},
         n \in DOMAIN rows => rows[n].open = Nothing,
         r.trade \in {TradeOf[p], Nothing},
         rows' = WithRow(n, r), UNCHANGED <<audit, refused>>,
         NEW q \in {"torn", "written"}, exec' = [exec EXCEPT ![e].pc = q],
         q = "torn" => r.open = Nothing,
         q = "written" => r.open = p /\ r.trade = TradeOf[p]
  PROVE  ReceiverInv'
<1>1. rows \in Seq(Row) /\ audit \in Seq(Projections)
  BY DEF ReceiverInv, ReceiverTypeOK
<1>2. /\ WithRow(n, r) \in Seq(Row) /\ DOMAIN WithRow(n, r) = DOMAIN rows \cup {n}
      /\ WithRow(n, r)[n] = r
      /\ \A m \in DOMAIN rows : m # n => WithRow(n, r)[m] = rows[m]
  BY <1>1, WithRowShape
<1>3. /\ rows' \in Seq(Row) /\ DOMAIN rows' = DOMAIN rows \cup {n} /\ rows'[n] = r
      /\ \A m \in DOMAIN rows : m # n => rows'[m] = rows[m]
  BY <1>2
<1>4. exec[e] \in Exec
  BY ExecTypes
<1>5. [exec[e] EXCEPT !.pc = q] \in Exec
  BY <1>4 DEF Exec
<1>6. ReceiverTypeOK'
  BY <1>3, <1>5 DEF ReceiverInv, ReceiverTypeOK
<1>7. \A m \in DOMAIN rows' : m # n => m \in DOMAIN rows /\ rows'[m] = rows[m]
                                       /\ rows[m].trade # TradeOf[p]
  BY <1>3 DEF RowsOf
<1>8. OneRowPerTrade'
  <2> SUFFICES ASSUME NEW m \in DOMAIN rows', NEW k \in DOMAIN rows',
                      rows'[m].trade = rows'[k].trade, rows'[m].trade # Nothing
               PROVE  m = k
    BY DEF OneRowPerTrade
  <2>1. CASE m # n /\ k # n
    BY <1>7, <2>1 DEF ReceiverInv, OneRowPerTrade
  <2>2. CASE m = n \/ k = n
    BY <1>3, <1>7, <2>2
  <2> QED
    BY <2>1, <2>2
<1>9. AuditedRowIsShown'
  <2> SUFFICES ASSUME NEW k \in DOMAIN audit, ActionOf[audit[k]] \in RowActions
               PROVE  \E m \in DOMAIN rows' : /\ rows'[m].trade = TradeOf[audit[k]]
                                              /\ rows'[m].open = audit[k]
    BY DEF AuditedRowIsShown, RowsOf
  <2>1. PICK m \in DOMAIN rows : rows[m].trade = TradeOf[audit[k]] /\ rows[m].open = audit[k]
    BY DEF ReceiverInv, AuditedRowIsShown, RowsOf
  <2>2. audit[k] \in Projections
    BY <1>1, LenProperties, ElementOfSeq
  <2>3. m # n
    BY <2>1, <2>2, ReceiverAssumption
  <2> QED
    BY <1>3, <2>1, <2>3
<1>10. exec'[e].pc = q /\ exec'[e].proj = p /\ exec'[e].row = n
  BY <1>4 DEF Exec, ReceiverInv, ReceiverTypeOK
<1>11. ExecInv(e)'
  <2>1. {m \in DOMAIN rows' : rows'[m].trade = TradeOf[p]} \subseteq {n}
    BY <1>7
  <2> QED
    BY <1>3, <1>10, <2>1 DEF ExecInv, RowsOf
<1> QED
  BY <1>6, <1>8, <1>9, <1>11 DEF ReceiverInv, Serial

LEMMA WriteFirstKeeps ==
  ASSUME Serial, ReceiverInv, NEW e \in Execs, WriteFirst(e)
  PROVE  ReceiverInv'
<1> DEFINE p == exec[e].proj
           n == exec[e].row
           r == FirstCells(CellsAt(n), p)
<1>1. /\ p \in Projections /\ exec[e].pc = "writing" /\ ExecInv(e)
      /\ rows' = WithRow(n, r) /\ UNCHANGED <<audit, refused>>
      /\ exec' = [exec EXCEPT ![e].pc = "torn"]
  BY ExecTypes DEF WriteFirst
<1>2. /\ ActionOf[p] \in RowActions => RowsOf(TradeOf[p]) = {} /\ n = Len(rows) + 1
      /\ ActionOf[p] \notin RowActions => n \in DOMAIN rows
  BY <1>1 DEF ExecInv
<1>3. Len(rows) \in Nat /\ DOMAIN rows = 1 .. Len(rows)
  BY LenProperties DEF ReceiverInv, ReceiverTypeOK
<1>4. n \in 1 .. Len(rows) + 1 /\ n \in Nat
  BY <1>2, <1>3
<1>5. r \in Row
  BY <1>1, <1>4, CellTypes DEF ReceiverInv
<1>6. CASE ActionOf[p] \in RowActions
  <2>1. n \notin DOMAIN rows
    BY <1>2, <1>3, <1>6
  <2>2. CellsAt(n) = EmptyRow
    BY <2>1 DEF CellsAt
  <2>3. r.open = Nothing /\ r.trade \in {TradeOf[p], Nothing}
    BY <1>1, <1>6, <2>2, ReceiverAssumption DEF FirstCells, EmptyRow, RowActions
  <2> HIDE DEF r, n
  <2> QED
    BY <1>1, <1>2, <1>4, <1>5, <1>6, <2>1, <2>3, EntryCellsKeep DEF n
<1>7. CASE ActionOf[p] \notin RowActions
  <2>1. n \in DOMAIN rows /\ CellsAt(n) = rows[n] /\ rows[n] \in Row
    BY <1>2, <1>7, ElementOfSeq, LenProperties DEF CellsAt, ReceiverInv, ReceiverTypeOK
  <2>2. r.trade = rows[n].trade /\ r.open = rows[n].open
    BY <1>7, <2>1 DEF FirstCells, RowActions, Row
  <2> HIDE DEF r
  <2> QED
    BY <1>1, <1>5, <1>7, <2>1, <2>2, ExitCellsKeep
<1> QED
  BY <1>6, <1>7

LEMMA WriteRestKeeps ==
  ASSUME Serial, ReceiverInv, NEW e \in Execs, WriteRest(e)
  PROVE  ReceiverInv'
<1> DEFINE p == exec[e].proj
           n == exec[e].row
           r == AllCells(CellsAt(n), p)
<1>1. /\ p \in Projections /\ exec[e].pc = "torn" /\ ExecInv(e)
      /\ rows' = WithRow(n, r) /\ UNCHANGED <<audit, refused>>
      /\ exec' = [exec EXCEPT ![e].pc = "written"]
  BY ExecTypes DEF WriteRest
<1>2. /\ n \in DOMAIN rows
      /\ ActionOf[p] \in RowActions =>
           rows[n].open = Nothing /\ RowsOf(TradeOf[p]) \subseteq {n}
  BY <1>1 DEF ExecInv
<1>3. Len(rows) \in Nat /\ DOMAIN rows = 1 .. Len(rows)
  BY LenProperties DEF ReceiverInv, ReceiverTypeOK
<1>4. n \in 1 .. Len(rows) + 1 /\ n \in Nat
  BY <1>2, <1>3
<1>5. r \in Row
  BY <1>1, <1>4, CellTypes DEF ReceiverInv
<1>6. CellsAt(n) = rows[n] /\ rows[n] \in Row
  BY <1>2, ElementOfSeq, LenProperties DEF CellsAt, ReceiverInv, ReceiverTypeOK
<1>7. CASE ActionOf[p] \in RowActions
  <2>1. r.open = p /\ r.trade = TradeOf[p]
    BY <1>6, <1>7 DEF AllCells, Row
  <2> HIDE DEF r, n
  <2> QED
    BY <1>1, <1>2, <1>4, <1>5, <1>7, <2>1, EntryCellsKeep DEF n
<1>8. CASE ActionOf[p] \notin RowActions
  <2>1. r.trade = rows[n].trade /\ r.open = rows[n].open
    BY <1>6, <1>8 DEF AllCells, Row
  <2> HIDE DEF r
  <2> QED
    BY <1>1, <1>2, <1>5, <1>8, <2>1, ExitCellsKeep
<1> QED
  BY <1>7, <1>8

LEMMA ConfirmKeeps ==
  ASSUME Serial, ReceiverInv, NEW e \in Execs, Confirm(e)
  PROVE  ReceiverInv'
<1> DEFINE p == exec[e].proj
           x == [exec[e] EXCEPT !.pc = "answered", !.answer = "ok"]
<1>1. /\ p \in Projections /\ exec[e].pc = "written" /\ ExecInv(e) /\ exec[e] \in Exec
      /\ rows' = rows /\ refused' = refused /\ audit' = Append(audit, p)
      /\ exec' = [exec EXCEPT ![e] = x]
  BY ExecTypes DEF Confirm
<1>2. x \in Exec /\ x.pc = "answered" /\ x.proj = p
  BY <1>1 DEF Exec
<1>3. audit \in Seq(Projections) /\ refused \subseteq Projections
  BY DEF ReceiverInv, ReceiverTypeOK
<1>4. ReceiverTypeOK'
  <2>1. audit' \in Seq(Projections)
    BY <1>1, <1>3, AppendProperties
  <2> QED
    BY <1>1, <1>2, <2>1 DEF ReceiverInv, ReceiverTypeOK
<1>5. AuditedRowIsShown'
  <2> SUFFICES ASSUME NEW k \in DOMAIN audit', ActionOf[audit'[k]] \in RowActions
               PROVE  \E m \in DOMAIN rows : /\ rows[m].trade = TradeOf[audit'[k]]
                                             /\ rows[m].open = audit'[k]
    BY <1>1 DEF AuditedRowIsShown, RowsOf
  <2>1. CASE k \in DOMAIN audit
    <3>1. audit'[k] = audit[k]
      BY <1>1, <1>3, <2>1, AppendProperties, LenProperties
    <3> QED
      BY <2>1, <3>1 DEF ReceiverInv, AuditedRowIsShown, RowsOf
  <2>2. CASE k \notin DOMAIN audit
    <3>1. audit'[k] = p
      BY <1>1, <1>3, <2>2, AppendProperties, LenProperties
    <3> QED
      BY <1>1, <3>1 DEF ExecInv
  <2> QED
    BY <2>1, <2>2
<1>6. OneRowPerTrade'
  BY <1>1 DEF ReceiverInv, OneRowPerTrade
<1>7. exec'[e] = x
  BY <1>1 DEF ReceiverInv, ReceiverTypeOK
<1>8. ExecInv(e)'
  BY <1>1, <1>2, <1>7 DEF ExecInv
<1> QED
  BY <1>4, <1>5, <1>6, <1>8 DEF ReceiverInv, Serial

-----------------------------------------------------------------------------
LEMMA InitHolds == ReceiverInit => ReceiverInv
<1> SUFFICES ASSUME ReceiverInit PROVE ReceiverInv
  OBVIOUS
<1>1. rows = <<>> /\ audit = <<>> /\ refused = {} /\ exec = [e \in Execs |-> IdleExec]
  BY DEF ReceiverInit
<1>2. rows \in Seq(Row) /\ audit \in Seq(Projections) /\ DOMAIN rows = {} /\ DOMAIN audit = {}
  BY <1>1
<1>3. ReceiverTypeOK
  BY <1>1, <1>2, IdleFacts DEF ReceiverTypeOK
<1>4. OneRowPerTrade /\ AuditedRowIsShown
  BY <1>2 DEF OneRowPerTrade, AuditedRowIsShown
<1>5. \A e \in Execs : exec[e].pc = "idle"
  BY <1>1, IdleFacts
<1>6. \A e \in Execs : ExecInv(e)
  BY <1>5 DEF ExecInv
<1> QED
  BY <1>3, <1>4, <1>6 DEF ReceiverInv

LEMMA StepKeeps ==
  ASSUME Serial, ReceiverInv, [ReceiverNext]_receiverVars
  PROVE  ReceiverInv'
<1>1. CASE ReceiverNext
  <2>1. PICK e \in Execs : \/ \E p \in Projections : Arrive(e, p)
                           \/ Serve(e) \/ Throw(e) \/ Kill(e) \/ Finish(e)
    BY <1>1 DEF ReceiverNext
  <2>2. CASE \E p \in Projections : Arrive(e, p)
    BY <2>2, ArriveKeeps
  <2>3. CASE TurnAway(e) \/ Invalidate(e) \/ Throw(e) \/ Kill(e) \/ Finish(e)
    BY <2>3, RefusalKeeps
  <2>4. CASE Look(e)
    BY <2>4, LookKeeps
  <2>5. CASE Decide(e)
    BY <2>5, DecideKeeps
  <2>6. CASE WriteFirst(e)
    BY <2>6, WriteFirstKeeps
  <2>7. CASE WriteRest(e)
    BY <2>7, WriteRestKeeps
  <2>8. CASE Confirm(e)
    BY <2>8, ConfirmKeeps
  <2> QED
    BY <2>1, <2>2, <2>3, <2>4, <2>5, <2>6, <2>7, <2>8 DEF Serve
<1>2. CASE UNCHANGED receiverVars
  BY <1>2 DEF receiverVars, ReceiverInv, ReceiverTypeOK, OneRowPerTrade, AuditedRowIsShown,
              ExecInv, RowsOf
<1> QED
  BY <1>1, <1>2

\* With executions one after the other, what each of them has read and written
\* agrees with the sheet, wherever the ones before it were killed.
THEOREM SheetInvariant == ASSUME Serial PROVE ReceiverSpec => []ReceiverInv
<1>1. ReceiverInit => ReceiverInv
  BY InitHolds
<1>2. ReceiverInv /\ [ReceiverNext]_receiverVars => ReceiverInv'
  BY StepKeeps
<1> QED
  BY <1>1, <1>2, PTL DEF ReceiverSpec

\* While executions do not overlap, sheet and executions have their types.
THEOREM SheetIsTyped == ASSUME Serial PROVE ReceiverSpec => []ReceiverTypeOK
<1>1. ReceiverInv => ReceiverTypeOK
  BY DEF ReceiverInv
<1> QED
  BY <1>1, SheetInvariant, PTL

\* No sequence of requests, failures and resends gives a trade a second row.
THEOREM NoSecondRow == ASSUME Serial PROVE ReceiverSpec => []OneRowPerTrade
<1>1. ReceiverInv => OneRowPerTrade
  BY DEF ReceiverInv
<1> QED
  BY <1>1, SheetInvariant, PTL

\* A confirmed entry is on the sheet in full, and stays there.
THEOREM AuditIsTruthful == ASSUME Serial PROVE ReceiverSpec => []AuditedRowIsShown
<1>1. ReceiverInv => AuditedRowIsShown
  BY DEF ReceiverInv
<1> QED
  BY <1>1, SheetInvariant, PTL

-----------------------------------------------------------------------------
(* The exit columns.                                                       *)

\* The projections with a CONFIRMED line.
Audited == {audit[k] : k \in DOMAIN audit}

\* What an execution that decided to write has found in the audit sheet still holds,
\* and its row is still the one it looked up.
WriteInv(e) ==
  LET x == exec[e]
      p == x.proj
      t == TradeOf[p]
      isRow == ActionOf[p] \in RowActions
  IN  x.pc \in {"writing", "torn", "written"} =>
        /\ p \notin Audited
        /\ isRow => \A q \in Audited : TradeOf[q] = t => ActionOf[q] \notin RowActions
        /\ (isRow /\ x.pc # "writing") => rows[x.row].close = Nothing
        /\ ~isRow => rows[x.row].trade = t
        /\ (~isRow /\ x.pc = "written") => rows[x.row].close = p
        /\ ActionOf[p] = "update_close_v2" => AuditOf(t, "update_close_v2") = {}
        /\ ActionOf[p] = "correct_close_v2" => BaseOf[p] = InForce(t) /\ InForce(t) # Nothing

\* What stands in the exit columns is an exit of the row's own trade.
CellsInv ==
  \A n \in DOMAIN rows :
    rows[n].close \in Projections => /\ TradeOf[rows[n].close] = rows[n].trade
                                     /\ ActionOf[rows[n].close] \in CloseActions

\* A confirmed exit has reached the row of its trade.
ExitIsReached ==
  \A q \in Audited :
    ActionOf[q] \in CloseActions => \E n \in RowsOf(TradeOf[q]) : rows[n].close # Nothing

\* A trade is corrected after it is closed, and then some version is in force.
ForceInv ==
  \A t \in Trades :
    /\ AuditOf(t, "correct_close_v2") # {} => AuditOf(t, "update_close_v2") # {}
    /\ AuditOf(t, "update_close_v2") # {} => InForce(t) \in Projections

AuditInv == /\ CellsInv /\ ExitIsReached /\ ForceInv
            /\ CorrectionChain /\ NoSupersededCells /\ ConfirmedOnce
            /\ \A e \in Execs : WriteInv(e)

\* Max and Min mean what they say for positions in a sequence.
LEMMA MinOf ==
  ASSUME NEW n \in Nat, NEW S \in SUBSET (1 .. n), S # {}
  PROVE  Min(S) \in S /\ \A k \in S : Min(S) <= k
<1>1. S \subseteq Nat /\ \A k \in S : k \in Nat
  OBVIOUS
<1>2. PICK m \in S : \A k \in S : ~ (<<k, m>> \in OpToRel(<, Nat))
  BY <1>1, NatLessThanWellFounded, WFMin
<1>3. \A k \in S : ~ (k < m)
  BY <1>1, <1>2 DEF OpToRel
<1>4. \A k \in S : m <= k
  BY <1>1, <1>3
<1> QED
  BY <1>4 DEF Min

LEMMA MaxOf ==
  ASSUME NEW n \in Nat, NEW S \in SUBSET (1 .. n), S # {}
  PROVE  Max(S) \in S /\ \A k \in S : k <= Max(S)
<1> DEFINE T == {n - k : k \in S}
<1>1. \A k \in S : n - k \in Nat
  OBVIOUS
<1>2. T \subseteq Nat /\ T # {}
  BY <1>1
<1>3. PICK m \in T : \A k \in T : ~ (<<k, m>> \in OpToRel(<, Nat))
  BY <1>2, NatLessThanWellFounded, WFMin
<1>4. PICK i \in S : m = n - i
  OBVIOUS
<1>5. \A k \in S : i >= k
  <2> SUFFICES ASSUME NEW k \in S PROVE i >= k
    OBVIOUS
  <2>1. n - k \in T /\ n - k \in Nat /\ n - i \in Nat
    BY <1>1
  <2>2. ~ (n - k < n - i)
    BY <1>3, <1>4, <2>1 DEF OpToRel
  <2> QED
    BY <2>2
<1>6. Max(S) \in S /\ \A k \in S : Max(S) >= k
  BY <1>4, <1>5 DEF Max
<1> QED
  BY <1>6

\* A step that leaves the audit sheet alone changes nothing that is read from it.
LEMMA AuditStays ==
  ASSUME audit' = audit
  PROVE  /\ Audited' = Audited
         /\ \A t, a : AuditOf(t, a)' = AuditOf(t, a)
         /\ \A n, t : InForceAfter(n, t)' = InForceAfter(n, t)
         /\ \A t : InForce(t)' = InForce(t)
BY DEF Audited, AuditOf, InForceAfter, InForce

\* What one more line in the audit sheet changes.
LEMMA AuditGrows ==
  ASSUME audit \in Seq(Projections), NEW p \in Projections, audit' = Append(audit, p)
  PROVE  /\ Len(audit) \in Nat /\ DOMAIN audit = 1 .. Len(audit)
         /\ DOMAIN audit' = DOMAIN audit \cup {Len(audit) + 1}
         /\ audit'[Len(audit) + 1] = p /\ Len(audit') = Len(audit) + 1
         /\ \A k \in DOMAIN audit : audit'[k] = audit[k] /\ audit[k] \in Projections
         /\ Audited' = Audited \cup {p}
         /\ \A t, a : AuditOf(t, a)' = AuditOf(t, a) \cup
              (IF TradeOf[p] = t /\ ActionOf[p] = a THEN {Len(audit) + 1} ELSE {})
<1>1. Len(audit) \in Nat /\ DOMAIN audit = 1 .. Len(audit)
  BY LenProperties
<1>2. /\ Len(audit') = Len(audit) + 1 /\ DOMAIN audit' = 1 .. Len(audit) + 1
      /\ audit'[Len(audit) + 1] = p
      /\ \A k \in DOMAIN audit : audit'[k] = audit[k]
  BY <1>1, AppendProperties, LenProperties
<1>3. DOMAIN audit' = DOMAIN audit \cup {Len(audit) + 1}
  BY <1>1, <1>2
<1>4. \A k \in DOMAIN audit : audit[k] \in Projections
  BY <1>1, ElementOfSeq
<1>5. Audited' = Audited \cup {p}
  BY <1>2, <1>3 DEF Audited
<1>6. ASSUME NEW t, NEW a
      PROVE  AuditOf(t, a)' = AuditOf(t, a) \cup
               (IF TradeOf[p] = t /\ ActionOf[p] = a THEN {Len(audit) + 1} ELSE {})
  BY <1>2, <1>3 DEF AuditOf
<1> QED
  BY <1>1, <1>2, <1>3, <1>4, <1>5, <1>6

\* Which version is in force after one more line.
LEMMA ForceGrows ==
  ASSUME audit \in Seq(Projections), NEW p \in Projections, audit' = Append(audit, p)
  PROVE  /\ \A n \in 0 .. Len(audit) : \A t : InForceAfter(n, t)' = InForceAfter(n, t)
         /\ \A t : (TradeOf[p] # t \/ ActionOf[p] \notin CloseActions) => InForce(t)' = InForce(t)
         /\ ActionOf[p] = "correct_close_v2" => InForce(TradeOf[p])' = p
         /\ (/\ ActionOf[p] = "update_close_v2"
             /\ AuditOf(TradeOf[p], "update_close_v2") = {}
             /\ AuditOf(TradeOf[p], "correct_close_v2") = {}) => InForce(TradeOf[p])' = p
<1> DEFINE N == Len(audit)
           t0 == TradeOf[p]
           upTo(n, t, a) == {k \in AuditOf(t, a) : k <= n}
<1>1. /\ N \in Nat /\ DOMAIN audit = 1 .. N /\ Len(audit') = N + 1
      /\ audit'[N + 1] = p
      /\ \A k \in DOMAIN audit : audit'[k] = audit[k]
      /\ \A t, a : AuditOf(t, a)' = AuditOf(t, a) \cup
           (IF TradeOf[p] = t /\ ActionOf[p] = a THEN {N + 1} ELSE {})
  BY AuditGrows
<1>2. \A t, a : AuditOf(t, a) \subseteq 1 .. N
  BY <1>1 DEF AuditOf
<1>3. ASSUME NEW S \in SUBSET (1 .. N), S # {}
      PROVE  audit'[Max(S)] = audit[Max(S)] /\ audit'[Min(S)] = audit[Min(S)]
  BY <1>1, <1>3, MaxOf, MinOf
<1>4. ASSUME NEW n \in 0 .. N, NEW t
      PROVE  InForceAfter(n, t)' = InForceAfter(n, t)
  <2>1. /\ upTo(n, t, "correct_close_v2")' = upTo(n, t, "correct_close_v2")
        /\ upTo(n, t, "update_close_v2")' = upTo(n, t, "update_close_v2")
    BY <1>1, <1>2
  <2>2. /\ upTo(n, t, "correct_close_v2") \subseteq 1 .. N
        /\ upTo(n, t, "update_close_v2") \subseteq 1 .. N
    BY <1>2
  <2> QED
    BY <1>3, <2>1, <2>2 DEF InForceAfter
<1> DEFINE now(t, a) == {k \in AuditOf(t, a)' : k <= N + 1}
<1>5. \A t : InForce(t)' = IF now(t, "correct_close_v2") # {}
                           THEN audit'[Max(now(t, "correct_close_v2"))]
                           ELSE IF now(t, "update_close_v2") # {}
                           THEN audit'[Min(now(t, "update_close_v2"))] ELSE Nothing
  BY <1>1 DEF InForce, InForceAfter
<1>6. ASSUME NEW t, TradeOf[p] # t \/ ActionOf[p] \notin CloseActions
      PROVE  InForce(t)' = InForce(t)
  <2>1. /\ now(t, "correct_close_v2") = upTo(N, t, "correct_close_v2")
        /\ now(t, "update_close_v2") = upTo(N, t, "update_close_v2")
    BY <1>1, <1>2, <1>6 DEF CloseActions
  <2>2. /\ upTo(N, t, "correct_close_v2") \subseteq 1 .. N
        /\ upTo(N, t, "update_close_v2") \subseteq 1 .. N
    BY <1>2
  <2> HIDE DEF now
  <2> QED
    BY <1>3, <1>5, <2>1, <2>2 DEF InForce, InForceAfter
<1>7. ASSUME ActionOf[p] = "correct_close_v2" PROVE InForce(t0)' = p
  <2> DEFINE S == now(t0, "correct_close_v2")
  <2>1. S \in SUBSET (1 .. N + 1) /\ N + 1 \in S /\ N + 1 \in Nat /\ N \in Nat
    BY <1>1, <1>2, <1>7
  <2>2. InForce(t0)' = audit'[Max(S)]
    BY <1>5, <2>1
  <2> HIDE DEF S, N
  <2>3. Max(S) \in S /\ \A k \in S : k <= Max(S)
    BY <2>1, MaxOf
  <2>4. Max(S) \in 1 .. N + 1 /\ N + 1 <= Max(S)
    BY <2>1, <2>3
  <2>5. Max(S) = N + 1
    BY <2>1, <2>4
  <2> QED
    BY <1>1, <2>2, <2>5
<1>8. ASSUME /\ ActionOf[p] = "update_close_v2"
             /\ AuditOf(t0, "update_close_v2") = {} /\ AuditOf(t0, "correct_close_v2") = {}
      PROVE  InForce(t0)' = p
  <2> DEFINE S == now(t0, "update_close_v2")
  <2>1. /\ S = {N + 1} /\ N + 1 \in Nat /\ S \in SUBSET (1 .. N + 1)
        /\ now(t0, "correct_close_v2") = {}
    BY <1>1, <1>8
  <2>2. InForce(t0)' = audit'[Min(S)]
    BY <1>5, <2>1
  <2> HIDE DEF S, N
  <2>3. Min(S) \in S
    BY <2>1, MinOf
  <2> QED
    BY <1>1, <2>1, <2>2, <2>3
<1> QED
  BY <1>4, <1>6, <1>7, <1>8

\* A step that reads, answers or goes away keeps the invariant when what its
\* execution has found in the audit sheet holds after it.
LEMMA ReadKeepsAudit ==
  ASSUME Serial, AuditInv, NEW e \in Execs, UNCHANGED <<rows, audit>>, WriteInv(e)'
  PROVE  AuditInv'
<1>1. CellsInv'
  BY DEF AuditInv, CellsInv
<1>2. ExitIsReached'
  BY AuditStays DEF AuditInv, ExitIsReached, RowsOf
<1>3. ForceInv' /\ NoSupersededCells'
  BY AuditStays DEF AuditInv, ForceInv, NoSupersededCells
<1>4. CorrectionChain' /\ ConfirmedOnce'
  BY AuditStays DEF AuditInv, CorrectionChain, ConfirmedOnce
<1>5. \A f \in Execs : WriteInv(f)'
  BY DEF Serial
<1> QED
  BY <1>1, <1>2, <1>3, <1>4, <1>5 DEF AuditInv

\* Cells of an exit that has no audit line, in a row of its trade.
LEMMA ExitCellsKeepAudit ==
  ASSUME Serial, ReceiverInv, AuditInv, NEW e \in Execs,
         NEW p \in Projections, ActionOf[p] \in CloseActions, p \notin Audited,
         NEW n \in DOMAIN rows, rows[n].trade = TradeOf[p],
         DOMAIN rows' = DOMAIN rows, \A m \in DOMAIN rows : m # n => rows'[m] = rows[m],
         rows'[n].trade = TradeOf[p], rows'[n].close \in {p, Torn},
         audit' = audit, WriteInv(e)'
  PROVE  AuditInv'
<1>1. Audited \subseteq Projections
  BY ElementOfSeq, LenProperties DEF Audited, ReceiverInv, ReceiverTypeOK
<1>2. rows'[n].close # Nothing /\ rows'[n].close \notin Audited
  BY <1>1, ReceiverAssumption
<1>3. CellsInv'
  <2> SUFFICES ASSUME NEW m \in DOMAIN rows, rows'[m].close \in Projections
               PROVE  /\ TradeOf[rows'[m].close] = rows'[m].trade
                      /\ ActionOf[rows'[m].close] \in CloseActions
    BY DEF CellsInv
  <2>1. CASE m = n
    BY <2>1, ReceiverAssumption
  <2>2. CASE m # n
    BY <2>2 DEF AuditInv, CellsInv
  <2> QED
    BY <2>1, <2>2
<1>4. ExitIsReached'
  <2> SUFFICES ASSUME NEW q \in Audited, ActionOf[q] \in CloseActions
               PROVE  \E m \in DOMAIN rows : rows'[m].trade = TradeOf[q] /\ rows'[m].close # Nothing
    BY AuditStays DEF ExitIsReached, RowsOf
  <2>1. PICK m \in DOMAIN rows : rows[m].trade = TradeOf[q] /\ rows[m].close # Nothing
    BY DEF AuditInv, ExitIsReached, RowsOf
  <2> QED
    BY <1>2, <2>1
<1>5. NoSupersededCells'
  <2> SUFFICES ASSUME NEW m \in DOMAIN rows, rows'[m].close \in Audited
               PROVE  rows'[m].close = InForce(rows'[m].trade)
    BY AuditStays DEF NoSupersededCells, Audited
  <2>1. m # n
    BY <1>2
  <2> QED
    BY <2>1 DEF AuditInv, NoSupersededCells, Audited
<1>6. ForceInv' /\ CorrectionChain' /\ ConfirmedOnce'
  BY AuditStays DEF AuditInv, ForceInv, CorrectionChain, ConfirmedOnce
<1>7. \A f \in Execs : WriteInv(f)'
  BY DEF Serial
<1> QED
  BY <1>3, <1>4, <1>5, <1>6, <1>7 DEF AuditInv

\* Cells of an entry, in a row whose exit columns are empty.
LEMMA EntryCellsKeepAudit ==
  ASSUME Serial, ReceiverInv, AuditInv, NEW e \in Execs,
         NEW n \in Nat, n \in DOMAIN rows => rows[n].close = Nothing,
         DOMAIN rows' = DOMAIN rows \cup {n},
         \A m \in DOMAIN rows : m # n => rows'[m] = rows[m],
         rows'[n].close = Nothing,
         audit' = audit, WriteInv(e)'
  PROVE  AuditInv'
<1>1. Nothing \notin Audited /\ Nothing \notin Projections
  BY ElementOfSeq, LenProperties, ReceiverAssumption DEF Audited, ReceiverInv, ReceiverTypeOK
<1>2. \A m \in DOMAIN rows' : m # n => m \in DOMAIN rows /\ rows'[m] = rows[m]
  OBVIOUS
<1>3. CellsInv'
  BY <1>1, <1>2 DEF AuditInv, CellsInv
<1>4. ExitIsReached'
  <2> SUFFICES ASSUME NEW q \in Audited, ActionOf[q] \in CloseActions
               PROVE  \E m \in DOMAIN rows' : rows'[m].trade = TradeOf[q] /\ rows'[m].close # Nothing
    BY AuditStays DEF ExitIsReached, RowsOf
  <2>1. PICK m \in DOMAIN rows : rows[m].trade = TradeOf[q] /\ rows[m].close # Nothing
    BY DEF AuditInv, ExitIsReached, RowsOf
  <2> QED
    BY <2>1
<1>5. NoSupersededCells'
  <2> SUFFICES ASSUME NEW m \in DOMAIN rows', rows'[m].close \in Audited
               PROVE  rows'[m].close = InForce(rows'[m].trade)
    BY AuditStays DEF NoSupersededCells, Audited
  <2>1. m # n
    BY <1>1
  <2> QED
    BY <1>2, <2>1 DEF AuditInv, NoSupersededCells, Audited
<1>6. ForceInv' /\ CorrectionChain' /\ ConfirmedOnce'
  BY AuditStays DEF AuditInv, ForceInv, CorrectionChain, ConfirmedOnce
<1>7. \A f \in Execs : WriteInv(f)'
  BY DEF Serial
<1> QED
  BY <1>3, <1>4, <1>5, <1>6, <1>7 DEF AuditInv

LEMMA QuietKeepsAudit ==
  ASSUME Serial, ReceiverInv, AuditInv, NEW e \in Execs,
         \/ \E p \in Projections : Arrive(e, p)
         \/ TurnAway(e) \/ Invalidate(e) \/ Look(e) \/ Throw(e) \/ Kill(e) \/ Finish(e)
  PROVE  AuditInv'
<1>1. UNCHANGED <<rows, audit>>
  BY DEF Arrive, TurnAway, Invalidate, Look, Throw, Kill, Finish
<1>2. exec'[e].pc \in {"idle", "arrived", "looked", "answered"}
  <2>1. exec[e] \in Exec /\ exec \in [Execs -> Exec]
    BY ExecTypes DEF ReceiverInv, ReceiverTypeOK
  <2>2. ASSUME NEW p \in Projections, Arrive(e, p) PROVE exec'[e].pc = "arrived"
    BY <2>1, <2>2 DEF Arrive, IdleExec
  <2>3. CASE Kill(e) \/ Finish(e)
    BY <2>1, <2>3, IdleFacts DEF Kill, Finish
  <2>4. CASE Look(e)
    BY <2>1, <2>4 DEF Look, Exec
  <2>5. CASE TurnAway(e) \/ Invalidate(e) \/ Throw(e)
    BY <2>1, <2>5 DEF TurnAway, Invalidate, Throw, Exec
  <2> QED
    BY <2>2, <2>3, <2>4, <2>5
<1>3. WriteInv(e)'
  BY <1>2 DEF WriteInv
<1> QED
  BY <1>1, <1>3, ReadKeepsAudit

\* What a decision to write says about the audit sheet.
LEMMA AuditDecision ==
  ASSUME ReceiverInv, AuditInv, NEW p \in Projections,
         Decision(p, RowsOf(TradeOf[p])) = "write"
  PROVE  /\ p \notin Audited
         /\ ActionOf[p] \in RowActions =>
              \A q \in Audited : TradeOf[q] = TradeOf[p] => ActionOf[q] \notin RowActions
         /\ ActionOf[p] = "update_close_v2" => AuditOf(TradeOf[p], "update_close_v2") = {}
         /\ ActionOf[p] = "correct_close_v2" => /\ BaseOf[p] = InForce(TradeOf[p])
                                                /\ InForce(TradeOf[p]) # Nothing
<1> DEFINE t == TradeOf[p]
<1>1. ActionOf[p] \in Actions /\ t \in Trades
  BY LedgerAssumption
<1>2. CASE ActionOf[p] \in RowActions
  <2>1. RowsOf(t) = {}
    BY <1>2, WriteDecision
  <2>2. \A q \in Audited : TradeOf[q] = t => ActionOf[q] \notin RowActions
    BY <2>1 DEF ReceiverInv, AuditedRowIsShown, Audited
  <2> QED
    BY <1>2, <2>2 DEF RowActions
<1>3. CASE ActionOf[p] = "update_close_v2"
  <2>1. DecideClose(p) = "write"
    BY <1>3 DEF Decision, RowActions
  <2>2. AuditOf(t, "update_close_v2") = {}
    BY <2>1 DEF DecideClose
  <2>3. p \notin Audited
    BY <1>3, <2>2 DEF Audited, AuditOf
  <2> QED
    BY <1>3, <2>2, <2>3 DEF RowActions
<1>4. CASE ActionOf[p] = "correct_close_v2"
  <2>1. DecideCorrection(p) = "write"
    BY <1>4 DEF Decision, RowActions
  <2>2. /\ ~ \E k \in AuditOf(t, "correct_close_v2") : audit[k] = p
        /\ Cardinality(AuditOf(t, "update_close_v2")) = 1
        /\ BaseOf[p] = InForce(t)
    BY <2>1 DEF DecideCorrection
  <2>3. p \notin Audited
    BY <1>4, <2>2 DEF Audited, AuditOf
  <2>4. AuditOf(t, "update_close_v2") # {}
    BY <2>2, FS_EmptySet
  <2>5. InForce(t) # Nothing
    BY <1>1, <2>4, ReceiverAssumption DEF AuditInv, ForceInv
  <2> QED
    BY <1>4, <2>2, <2>3, <2>5 DEF RowActions
<1> QED
  BY <1>1, <1>2, <1>3, <1>4 DEF Actions, CloseActions

LEMMA DecideKeepsAudit ==
  ASSUME Serial, ReceiverInv, AuditInv, NEW e \in Execs, Decide(e)
  PROVE  AuditInv'
<1> DEFINE p == exec[e].proj
           found == exec[e].found
           t == TradeOf[p]
<1>1. /\ exec[e] \in Exec /\ p \in Projections /\ exec[e].pc = "looked" /\ found = RowsOf(t)
  BY ExecTypes DEF Decide, ExecInv
<1>2. UNCHANGED <<rows, audit>>
  BY DEF Decide
<1>3. CASE Decision(p, found) = "write"
  <2> DEFINE n == IF ActionOf[p] \in RowActions THEN Len(rows) + 1 ELSE CHOOSE m \in found : TRUE
  <2>1. exec' = [exec EXCEPT ![e].pc = "writing", ![e].row = n]
    BY <1>3 DEF Decide, Errors
  <2>2. exec'[e].pc = "writing" /\ exec'[e].proj = p /\ exec'[e].row = n
    BY <1>1, <2>1 DEF Exec, ReceiverInv, ReceiverTypeOK
  <2>3. ActionOf[p] \notin RowActions => n \in RowsOf(t)
    BY <1>1, <1>3, WriteDecision
  <2> HIDE DEF n
  <2>4. ActionOf[p] \notin RowActions => rows[n].trade = t
    BY <2>3 DEF RowsOf
  <2>5. Decision(p, RowsOf(t)) = "write"
    BY <1>1, <1>3
  <2> HIDE DEF p, found
  <2>6. /\ p \notin Audited
        /\ ActionOf[p] \in RowActions =>
             \A q \in Audited : TradeOf[q] = t => ActionOf[q] \notin RowActions
        /\ ActionOf[p] = "update_close_v2" => AuditOf(t, "update_close_v2") = {}
        /\ ActionOf[p] = "correct_close_v2" => BaseOf[p] = InForce(t) /\ InForce(t) # Nothing
    BY <1>1, <2>5, AuditDecision
  <2>7. WriteInv(e)'
    BY <1>2, <2>2, <2>4, <2>6, AuditStays DEF WriteInv
  <2> QED
    BY <1>2, <2>7, ReadKeepsAudit
<1>4. CASE Decision(p, found) # "write"
  <2>1. exec'[e].pc = "answered"
    BY <1>1, <1>4 DEF Decide, Exec, ReceiverInv, ReceiverTypeOK
  <2>2. WriteInv(e)'
    BY <2>1 DEF WriteInv
  <2> QED
    BY <1>2, <2>2, ReadKeepsAudit
<1> QED
  BY <1>3, <1>4

\* The sheet around a row that is written.
LEMMA WriteShape ==
  ASSUME ReceiverInv, NEW n \in 1 .. Len(rows) + 1, NEW r \in Row, rows' = WithRow(n, r)
  PROVE  /\ DOMAIN rows' = DOMAIN rows \cup {n} /\ rows'[n] = r
         /\ \A m \in DOMAIN rows : m # n => rows'[m] = rows[m]
BY WithRowShape DEF ReceiverInv, ReceiverTypeOK

LEMMA WriteFirstKeepsAudit ==
  ASSUME Serial, ReceiverInv, AuditInv, NEW e \in Execs, WriteFirst(e)
  PROVE  AuditInv'
<1> DEFINE p == exec[e].proj
           n == exec[e].row
           r == FirstCells(CellsAt(n), p)
<1>1. /\ p \in Projections /\ exec[e].pc = "writing" /\ ExecInv(e) /\ WriteInv(e)
      /\ exec[e] \in Exec /\ rows' = WithRow(n, r) /\ audit' = audit
      /\ exec' = [exec EXCEPT ![e].pc = "torn"]
  BY ExecTypes DEF WriteFirst, AuditInv
<1>2. exec'[e].pc = "torn" /\ exec'[e].proj = p /\ exec'[e].row = n
  BY <1>1 DEF Exec, ReceiverInv, ReceiverTypeOK
<1>3. Len(rows) \in Nat /\ DOMAIN rows = 1 .. Len(rows)
  BY LenProperties DEF ReceiverInv, ReceiverTypeOK
<1>4. /\ ActionOf[p] \in RowActions => n = Len(rows) + 1
      /\ ActionOf[p] \notin RowActions => n \in DOMAIN rows /\ rows[n].trade = TradeOf[p]
  BY <1>1 DEF ExecInv, WriteInv
<1>5. n \in 1 .. Len(rows) + 1 /\ n \in Nat
  BY <1>3, <1>4
<1>6. r \in Row
  BY <1>1, <1>5, CellTypes DEF ReceiverInv
<1>7. CASE ActionOf[p] \in RowActions
  <2>1. n \notin DOMAIN rows
    BY <1>3, <1>4, <1>7
  <2>2. CellsAt(n) = EmptyRow
    BY <2>1 DEF CellsAt
  <2>3. r.close = Nothing
    BY <1>7, <2>2 DEF FirstCells, EmptyRow, RowActions
  <2> HIDE DEF r, n
  <2>4. /\ DOMAIN rows' = DOMAIN rows \cup {n} /\ rows'[n] = r
        /\ \A m \in DOMAIN rows : m # n => rows'[m] = rows[m]
    BY <1>1, <1>5, <1>6, WriteShape
  <2>5. WriteInv(e)'
    BY <1>1, <1>2, <1>7, <2>3, <2>4, AuditStays DEF WriteInv, RowActions
  <2> QED
    BY <1>1, <1>5, <2>1, <2>3, <2>4, <2>5, EntryCellsKeepAudit
<1>8. CASE ActionOf[p] \notin RowActions
  <2>1. ActionOf[p] \in CloseActions
    BY <1>1, <1>8, LedgerAssumption DEF Actions
  <2>2. n \in DOMAIN rows /\ CellsAt(n) = rows[n] /\ rows[n] \in Row
    BY <1>4, <1>8, ElementOfSeq, LenProperties DEF CellsAt, ReceiverInv, ReceiverTypeOK
  <2>3. r.trade = TradeOf[p] /\ r.close \in {p, Torn}
    BY <1>4, <1>8, <2>2 DEF FirstCells, RowActions, Row
  <2> HIDE DEF r, n
  <2>4. /\ DOMAIN rows' = DOMAIN rows /\ rows'[n] = r
        /\ \A m \in DOMAIN rows : m # n => rows'[m] = rows[m]
    BY <1>1, <1>5, <1>6, <2>2, WriteShape
  <2>5. WriteInv(e)'
    BY <1>1, <1>2, <1>8, <2>3, <2>4, AuditStays DEF WriteInv
  <2>6. p \notin Audited
    BY <1>1 DEF WriteInv
  <2> QED
    BY <1>1, <1>4, <1>8, <2>1, <2>2, <2>3, <2>4, <2>5, <2>6, ExitCellsKeepAudit
<1> QED
  BY <1>7, <1>8

LEMMA WriteRestKeepsAudit ==
  ASSUME Serial, ReceiverInv, AuditInv, NEW e \in Execs, WriteRest(e)
  PROVE  AuditInv'
<1> DEFINE p == exec[e].proj
           n == exec[e].row
           r == AllCells(CellsAt(n), p)
<1>1. /\ p \in Projections /\ exec[e].pc = "torn" /\ ExecInv(e) /\ WriteInv(e)
      /\ exec[e] \in Exec /\ rows' = WithRow(n, r) /\ audit' = audit
      /\ exec' = [exec EXCEPT ![e].pc = "written"]
  BY ExecTypes DEF WriteRest, AuditInv
<1>2. exec'[e].pc = "written" /\ exec'[e].proj = p /\ exec'[e].row = n
  BY <1>1 DEF Exec, ReceiverInv, ReceiverTypeOK
<1>3. Len(rows) \in Nat /\ DOMAIN rows = 1 .. Len(rows)
  BY LenProperties DEF ReceiverInv, ReceiverTypeOK
<1>4. /\ n \in DOMAIN rows /\ n \in 1 .. Len(rows) + 1 /\ n \in Nat
      /\ CellsAt(n) = rows[n] /\ rows[n] \in Row
  BY <1>1, <1>3, ElementOfSeq DEF ExecInv, CellsAt, ReceiverInv, ReceiverTypeOK
<1>5. r \in Row
  BY <1>1, <1>4, CellTypes DEF ReceiverInv
<1>6. /\ ActionOf[p] \in RowActions => rows[n].close = Nothing
      /\ ActionOf[p] \notin RowActions => rows[n].trade = TradeOf[p]
      /\ p \notin Audited
  BY <1>1 DEF WriteInv
<1>7. /\ ActionOf[p] \in RowActions => r.close = Nothing
      /\ ActionOf[p] \notin RowActions => r.close = p /\ r.trade = TradeOf[p]
  BY <1>4, <1>6 DEF AllCells, Row
<1> HIDE DEF r, n
<1>8. /\ DOMAIN rows' = DOMAIN rows /\ DOMAIN rows' = DOMAIN rows \cup {n} /\ rows'[n] = r
      /\ \A m \in DOMAIN rows : m # n => rows'[m] = rows[m]
  BY <1>1, <1>4, <1>5, WriteShape
<1>9. WriteInv(e)'
  BY <1>1, <1>2, <1>7, <1>8, AuditStays DEF WriteInv
<1>10. CASE ActionOf[p] \in RowActions
  BY <1>1, <1>4, <1>6, <1>7, <1>8, <1>9, <1>10, EntryCellsKeepAudit
<1>11. CASE ActionOf[p] \notin RowActions
  <2>1. ActionOf[p] \in CloseActions
    BY <1>1, <1>11, LedgerAssumption DEF Actions
  <2> QED
    BY <1>1, <1>4, <1>6, <1>7, <1>8, <1>9, <1>11, <2>1, ExitCellsKeepAudit
<1> QED
  BY <1>10, <1>11

LEMMA InForceIsClosed ==
  ASSUME ForceInv, NEW t \in Trades, InForce(t) # Nothing
  PROVE  AuditOf(t, "update_close_v2") # {}
BY DEF ForceInv, InForce, InForceAfter

LEMMA ConfirmKeepsAudit ==
  ASSUME Serial, ReceiverInv, AuditInv, NEW e \in Execs, Confirm(e)
  PROVE  AuditInv'
<1>1. exec[e].pc = "written" /\ exec[e].proj \in Projections
  BY ExecTypes DEF Confirm
<1>2. PICK p \in Projections : p = exec[e].proj
  BY <1>1
<1>3. PICK t \in Trades : t = TradeOf[p] /\ ActionOf[p] \in Actions
  BY LedgerAssumption
<1> DEFINE N == Len(audit)
           n == exec[e].row
<1>4. /\ ExecInv(e) /\ WriteInv(e)
      /\ exec[e] \in Exec /\ audit \in Seq(Projections)
      /\ rows' = rows /\ audit' = Append(audit, exec[e].proj)
      /\ exec' = [exec EXCEPT ![e].pc = "answered", ![e].answer = "ok"]
  BY ExecTypes DEF Confirm, AuditInv, ReceiverInv, ReceiverTypeOK
<1>5. /\ n \in DOMAIN rows
      /\ ActionOf[p] \in RowActions => rows[n].trade = t
      /\ p \notin Audited
      /\ ActionOf[p] \in RowActions =>
           \A q \in Audited : TradeOf[q] = t => ActionOf[q] \notin RowActions
      /\ ActionOf[p] \notin RowActions => rows[n].trade = t /\ rows[n].close = p
      /\ ActionOf[p] = "update_close_v2" => AuditOf(t, "update_close_v2") = {}
      /\ ActionOf[p] = "correct_close_v2" => BaseOf[p] = InForce(t) /\ InForce(t) # Nothing
  BY <1>1, <1>2, <1>3, <1>4 DEF ExecInv, WriteInv
<1> HIDE DEF n
<1>6. /\ N \in Nat /\ DOMAIN audit = 1 .. N
      /\ DOMAIN audit' = DOMAIN audit \cup {N + 1} /\ audit'[N + 1] = p
      /\ \A k \in DOMAIN audit : audit'[k] = audit[k] /\ audit[k] \in Projections
      /\ Audited' = Audited \cup {p}
      /\ \A u, a : AuditOf(u, a)' = AuditOf(u, a) \cup
           (IF t = u /\ ActionOf[p] = a THEN {N + 1} ELSE {})
  BY <1>2, <1>3, <1>4, AuditGrows
<1>7. /\ \A k \in 0 .. N : \A u : InForceAfter(k, u)' = InForceAfter(k, u)
      /\ \A u : (t # u \/ ActionOf[p] \notin CloseActions) => InForce(u)' = InForce(u)
      /\ ActionOf[p] = "correct_close_v2" => InForce(t)' = p
      /\ (/\ ActionOf[p] = "update_close_v2"
          /\ AuditOf(t, "update_close_v2") = {}
          /\ AuditOf(t, "correct_close_v2") = {}) => InForce(t)' = p
  BY <1>2, <1>3, <1>4, ForceGrows
<1>8. ActionOf[p] \in CloseActions => InForce(t)' = p
  BY <1>3, <1>5, <1>7 DEF CloseActions, AuditInv, ForceInv
<1>9. CellsInv'
  BY <1>4 DEF AuditInv, CellsInv
<1>10. ExitIsReached'
  <2> SUFFICES ASSUME NEW q \in Audited', ActionOf[q] \in CloseActions
               PROVE  \E m \in DOMAIN rows : rows[m].trade = TradeOf[q] /\ rows[m].close # Nothing
    BY <1>4 DEF ExitIsReached, RowsOf
  <2>1. CASE q \in Audited
    BY <2>1 DEF AuditInv, ExitIsReached, RowsOf
  <2>2. CASE q = p
    <3>1. ActionOf[p] \notin RowActions
      BY <2>2 DEF CloseActions, RowActions
    <3> QED
      BY <1>3, <1>4, <1>5, <2>2, <3>1, ReceiverAssumption
  <2> QED
    BY <1>6, <2>1, <2>2
<1>11. ForceInv'
  <2> SUFFICES ASSUME NEW u \in Trades
               PROVE  /\ AuditOf(u, "correct_close_v2")' # {} => AuditOf(u, "update_close_v2")' # {}
                      /\ AuditOf(u, "update_close_v2")' # {} => InForce(u)' \in Projections
    BY DEF ForceInv
  <2>1. /\ AuditOf(u, "correct_close_v2") # {} => AuditOf(u, "update_close_v2") # {}
        /\ AuditOf(u, "update_close_v2") # {} => InForce(u) \in Projections
    BY DEF AuditInv, ForceInv
  <2>2. CASE t # u \/ ActionOf[p] \notin CloseActions
    <3>1. /\ AuditOf(u, "correct_close_v2")' = AuditOf(u, "correct_close_v2")
          /\ AuditOf(u, "update_close_v2")' = AuditOf(u, "update_close_v2")
          /\ InForce(u)' = InForce(u)
      BY <1>6, <1>7, <2>2 DEF CloseActions
    <3> QED
      BY <2>1, <3>1
  <2>3. CASE t = u /\ ActionOf[p] = "update_close_v2"
    BY <1>6, <1>8, <2>3 DEF CloseActions
  <2>4. CASE t = u /\ ActionOf[p] = "correct_close_v2"
    <3>1. AuditOf(u, "update_close_v2") # {}
      BY <1>3, <1>5, <2>4, InForceIsClosed DEF AuditInv
    <3> QED
      BY <1>6, <1>8, <2>4, <3>1 DEF CloseActions
  <2> QED
    BY <2>2, <2>3, <2>4 DEF CloseActions
<1>12. CorrectionChain'
  <2> SUFFICES ASSUME NEW k \in DOMAIN audit', NEW q \in Projections, q = audit'[k],
                      ActionOf[q] = "correct_close_v2"
               PROVE  /\ BaseOf[q] = InForceAfter(k - 1, TradeOf[q])'
                      /\ BaseOf[q] # Nothing
    BY <1>2, <1>6 DEF CorrectionChain
  <2>1. CASE k \in DOMAIN audit
    <3>1. q = audit[k] /\ k - 1 \in 0 .. N
      BY <1>6, <2>1
    <3>2. BaseOf[q] = InForceAfter(k - 1, TradeOf[q]) /\ BaseOf[q] # Nothing
      BY <2>1, <3>1 DEF AuditInv, CorrectionChain
    <3> QED
      BY <1>7, <3>1, <3>2
  <2>2. CASE k = N + 1
    <3>1. q = p /\ k - 1 = N /\ N \in 0 .. N
      BY <1>6, <2>2
    <3>2. BaseOf[q] = InForceAfter(k - 1, t) /\ BaseOf[q] # Nothing
      BY <1>5, <3>1 DEF InForce
    <3> QED
      BY <1>3, <1>7, <3>1, <3>2
  <2> QED
    BY <1>6, <2>1, <2>2
<1>13. NoSupersededCells'
  <2> SUFFICES ASSUME NEW m \in DOMAIN rows, rows[m].close \in Audited',
                      NEW u, u = rows[m].trade
               PROVE  rows[m].close = InForce(u)'
    BY <1>4, <1>6 DEF NoSupersededCells, Audited
  <2>1. rows[m].close \in Projections
    BY <1>6 DEF Audited
  <2>2. /\ TradeOf[rows[m].close] = rows[m].trade
        /\ ActionOf[rows[m].close] \in CloseActions
    BY <2>1 DEF AuditInv, CellsInv
  <2>3. CASE rows[m].trade = t /\ ActionOf[p] \in CloseActions
    <3>1. rows[n].trade = t /\ rows[n].close = p
      BY <1>5, <2>3 DEF CloseActions, RowActions
    <3>2. m = n
      BY <1>3, <1>5, <2>3, <3>1, ReceiverAssumption DEF ReceiverInv, OneRowPerTrade
    <3> QED
      BY <1>8, <2>3, <3>1, <3>2
  <2>4. CASE ~ (rows[m].trade = t /\ ActionOf[p] \in CloseActions)
    <3>1. rows[m].close # p
      BY <1>3, <2>2, <2>4
    <3>2. rows[m].close \in Audited
      BY <1>6, <3>1
    <3>3. rows[m].close = InForce(rows[m].trade)
      BY <3>2 DEF AuditInv, NoSupersededCells, Audited
    <3> QED
      BY <1>7, <2>4, <3>3
  <2> QED
    BY <2>3, <2>4
<1>14. ConfirmedOnce'
  <2>1. \A k \in DOMAIN audit :
          ~ (/\ TradeOf[audit[k]] = t
             /\ \/ audit[k] = p
                \/ ActionOf[audit[k]] = ActionOf[p] /\ ActionOf[p] # "correct_close_v2")
    <3> SUFFICES ASSUME NEW k \in DOMAIN audit, TradeOf[audit[k]] = t, audit[k] # p,
                        ActionOf[audit[k]] = ActionOf[p], ActionOf[p] # "correct_close_v2"
                 PROVE  FALSE
      BY <1>5 DEF Audited
    <3>1. audit[k] \in Audited /\ k \in AuditOf(t, ActionOf[p])
      BY DEF Audited, AuditOf
    <3> QED
      BY <1>3, <1>5, <3>1 DEF Actions, CloseActions
  <2>2. \A k, l \in DOMAIN audit :
          (/\ TradeOf[audit[k]] = TradeOf[audit[l]]
           /\ \/ audit[k] = audit[l]
              \/ ActionOf[audit[k]] = ActionOf[audit[l]] /\ ActionOf[audit[k]] # "correct_close_v2")
             => k = l
    BY DEF AuditInv, ConfirmedOnce
  <2>3. \A k, l \in DOMAIN audit' :
          (/\ TradeOf[audit'[k]] = TradeOf[audit'[l]]
           /\ \/ audit'[k] = audit'[l]
              \/ ActionOf[audit'[k]] = ActionOf[audit'[l]] /\ ActionOf[audit'[k]] # "correct_close_v2")
             => k = l
    <3> SUFFICES ASSUME NEW k \in DOMAIN audit', NEW l \in DOMAIN audit',
                        TradeOf[audit'[k]] = TradeOf[audit'[l]],
                        \/ audit'[k] = audit'[l]
                        \/ /\ ActionOf[audit'[k]] = ActionOf[audit'[l]]
                           /\ ActionOf[audit'[k]] # "correct_close_v2"
                 PROVE  k = l
      OBVIOUS
    <3>1. CASE k \in DOMAIN audit /\ l \in DOMAIN audit
      BY <1>6, <2>2, <3>1
    <3>2. CASE k = N + 1 /\ l \in DOMAIN audit
      BY <1>3, <1>6, <2>1, <3>2
    <3>3. CASE l = N + 1 /\ k \in DOMAIN audit
      BY <1>3, <1>6, <2>1, <3>3
    <3> QED
      BY <1>6, <3>1, <3>2, <3>3
  <2> QED
    BY <2>3 DEF ConfirmedOnce
<1>15. exec'[e].pc = "answered"
  BY <1>4 DEF Exec, ReceiverInv, ReceiverTypeOK
<1>16. WriteInv(e)'
  BY <1>15 DEF WriteInv
<1> QED
  BY <1>9, <1>10, <1>11, <1>12, <1>13, <1>14, <1>16 DEF AuditInv, Serial

LEMMA AuditInit == ReceiverInit => AuditInv
<1> SUFFICES ASSUME ReceiverInit PROVE AuditInv
  OBVIOUS
<1>1. DOMAIN rows = {} /\ audit = <<>> /\ DOMAIN audit = {} /\ Audited = {}
  BY DEF ReceiverInit, Audited
<1>2. CellsInv /\ ExitIsReached /\ CorrectionChain /\ NoSupersededCells /\ ConfirmedOnce
  BY <1>1 DEF CellsInv, ExitIsReached, CorrectionChain, NoSupersededCells, ConfirmedOnce
<1>3. ForceInv
  BY <1>1 DEF ForceInv, AuditOf
<1>4. \A e \in Execs : exec[e].pc = "idle"
  BY IdleFacts DEF ReceiverInit
<1>5. \A e \in Execs : WriteInv(e)
  BY <1>4 DEF WriteInv
<1> QED
  BY <1>2, <1>3, <1>5 DEF AuditInv

LEMMA AuditStep ==
  ASSUME Serial, ReceiverInv, AuditInv, [ReceiverNext]_receiverVars
  PROVE  AuditInv'
<1>1. CASE ReceiverNext
  <2>1. PICK e \in Execs : \/ \E p \in Projections : Arrive(e, p)
                           \/ Serve(e) \/ Throw(e) \/ Kill(e) \/ Finish(e)
    BY <1>1 DEF ReceiverNext
  <2>2. CASE \/ \E p \in Projections : Arrive(e, p)
             \/ TurnAway(e) \/ Invalidate(e) \/ Look(e) \/ Throw(e) \/ Kill(e) \/ Finish(e)
    BY <2>2, QuietKeepsAudit
  <2>3. CASE Decide(e)
    BY <2>3, DecideKeepsAudit
  <2>4. CASE WriteFirst(e)
    BY <2>4, WriteFirstKeepsAudit
  <2>5. CASE WriteRest(e)
    BY <2>5, WriteRestKeepsAudit
  <2>6. CASE Confirm(e)
    BY <2>6, ConfirmKeepsAudit
  <2> QED
    BY <2>1, <2>2, <2>3, <2>4, <2>5, <2>6 DEF Serve
<1>2. CASE UNCHANGED receiverVars
  <2>1. audit' = audit /\ rows' = rows /\ exec' = exec
    BY <1>2 DEF receiverVars
  <2>2. CellsInv' /\ ExitIsReached' /\ ForceInv'
    BY <2>1, AuditStays DEF AuditInv, CellsInv, ExitIsReached, ForceInv, RowsOf
  <2>3. CorrectionChain' /\ NoSupersededCells' /\ ConfirmedOnce'
    BY <2>1, AuditStays DEF AuditInv, CorrectionChain, NoSupersededCells, ConfirmedOnce
  <2>4. \A e \in Execs : WriteInv(e)'
    BY <2>1, AuditStays DEF AuditInv, WriteInv
  <2> QED
    BY <2>2, <2>3, <2>4 DEF AuditInv
<1> QED
  BY <1>1, <1>2

\* With executions one after the other, the exit columns and the lines of the audit
\* sheet agree, wherever the executions before were killed.
THEOREM AuditInvariant == ASSUME Serial PROVE ReceiverSpec => []AuditInv
<1>1. ReceiverInit => AuditInv
  BY AuditInit
<1>2. ReceiverInv /\ AuditInv /\ [ReceiverNext]_receiverVars => AuditInv'
  BY AuditStep
<1> QED
  BY <1>1, <1>2, SheetInvariant, PTL DEF ReceiverSpec

\* Each confirmed correction names the version that was in force when it was written.
THEOREM CorrectionsFormAChain == ASSUME Serial PROVE ReceiverSpec => []CorrectionChain
<1>1. AuditInv => CorrectionChain
  BY DEF AuditInv
<1> QED
  BY <1>1, AuditInvariant, PTL

\* The exit columns never fall back to a version that was corrected.
THEOREM NoCellIsSuperseded == ASSUME Serial PROVE ReceiverSpec => []NoSupersededCells
<1>1. AuditInv => NoSupersededCells
  BY DEF AuditInv
<1> QED
  BY <1>1, AuditInvariant, PTL

\* No projection, no entry and no close of a trade is confirmed a second time.
THEOREM NothingIsConfirmedTwice == ASSUME Serial PROVE ReceiverSpec => []ConfirmedOnce
<1>1. AuditInv => ConfirmedOnce
  BY DEF AuditInv
<1> QED
  BY <1>1, AuditInvariant, PTL

\* What the sheet comparison calls MATCHED is on the sheet.
THEOREM MatchedIsOnTheSheet == ASSUME Serial PROVE ReceiverSpec => []MatchedIsShown
<1>1. ASSUME ReceiverInv, AuditInv PROVE MatchedIsShown
  <2> SUFFICES ASSUME NEW p \in Projections, Classification(p) = "MATCHED"
               PROVE  \E n \in RowsOf(TradeOf[p]) :
                        /\ RowsOf(TradeOf[p]) = {n}
                        /\ ActionOf[p] \in RowActions => rows[n].open = p
                        /\ ActionOf[p] \in CloseActions => rows[n].close # Nothing
    BY DEF MatchedIsShown
  <2>1. OnlyLine(AuditOf(TradeOf[p], ActionOf[p]), p)
    BY DEF Classification, Comparison
  <2>2. PICK k \in DOMAIN audit : audit[k] = p
    BY <2>1 DEF OnlyLine, AuditOf
  <2>3. p \in Audited /\ ActionOf[p] \in Actions /\ TradeOf[p] \in Trades
    BY <2>2, LedgerAssumption DEF Audited
  <2>4. PICK n \in RowsOf(TradeOf[p]) : /\ ActionOf[p] \in RowActions => rows[n].open = p
                                        /\ ActionOf[p] \in CloseActions => rows[n].close # Nothing
    <3>1. CASE ActionOf[p] \in RowActions
      <4>1. \E n \in RowsOf(TradeOf[p]) : rows[n].open = p
        BY <1>1, <2>2, <3>1 DEF ReceiverInv, AuditedRowIsShown
      <4> QED
        BY <3>1, <4>1 DEF RowActions, CloseActions
    <3>2. CASE ActionOf[p] \in CloseActions
      <4>1. \E n \in RowsOf(TradeOf[p]) : rows[n].close # Nothing
        BY <1>1, <2>3, <3>2 DEF AuditInv, ExitIsReached
      <4> QED
        BY <3>2, <4>1 DEF RowActions, CloseActions
    <3> QED
      BY <2>3, <3>1, <3>2 DEF Actions
  <2>5. RowsOf(TradeOf[p]) = {n}
    BY <1>1, <2>3, <2>4, ReceiverAssumption DEF ReceiverInv, OneRowPerTrade, RowsOf
  <2> QED
    BY <2>4, <2>5
<1>2. ReceiverInv /\ AuditInv => MatchedIsShown
  BY <1>1
<1> QED
  BY <1>2, SheetInvariant, AuditInvariant, PTL
=============================================================================
