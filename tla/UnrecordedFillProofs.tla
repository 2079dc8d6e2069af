------------------------- MODULE UnrecordedFillProofs -------------------------
(***************************************************************************)
(* What the rounds for unrecorded fills write and announce, wherever they  *)
(* are killed and whatever the operator, the strategy and the comparison   *)
(* do meanwhile: only the strategy's own orders, each in one row, each row *)
(* and each request announced once, no projection claimed that was not     *)
(* queued, and no RECONCILED that was not earned.                          *)
(***************************************************************************)
EXTENDS UnrecordedFill, WellFoundedInduction, TLAPS

Shape(s) == \E S : s \in Seq(S)

Staged == {"persist", "recheck", "append"}
AtWork == Staged \cup {"next", "hook", "tell", "ask"}

OpenIn(R)       == {q \in DOMAIN R : R[q].status = "open"}
Told(G, q)      == \E k \in DOMAIN G : G[k].request = q
TellsLine(G, n) == \E k \in DOMAIN G : G[k].code = "CORRECTED" /\ G[k].line = n
TellsIds(G, S)  == \E k \in DOMAIN G : G[k].code = "CORRECTED" /\ G[k].ids = S

ShapeInv ==
  /\ world \in World
  /\ Shape(ledger) /\ Shape(requests) /\ Shape(log) /\ Shape(evidence)
  /\ \A q \in DOMAIN requests : DOMAIN requests[q] = {"order", "ids", "path", "status"}
  /\ DOMAIN round = DOMAIN IdleRound /\ round.seen \in 0 .. Len(ledger)

\* Without corrections a trade's rows are about its entry and its exit.
RowsInv(w, L) ==
  w.style = "trade" => \A n \in DOMAIN L : ~IsCorrection(L[n]) => L[n].ids \subseteq {Entry, Exit}

\* An announcement stands for one row of a trade, or one set of orders of a spot strategy.
ToldInv(w, L, R, G) ==
  /\ \A k \in DOMAIN G : G[k].request \in DOMAIN R \cup {0}
  /\ \A j, k \in DOMAIN G : j # k =>
       /\ G[j].request = G[k].request => G[j].request = 0
       /\ G[j].code = "CORRECTED" /\ G[k].code = "CORRECTED" =>
            IF w.style = "trade" THEN G[j].line # G[k].line ELSE G[j].ids # G[k].ids
  /\ \A k \in DOMAIN G : G[k].code = "CORRECTED" =>
       IF w.style = "trade" THEN G[k].line \in DOMAIN L ELSE G[k].ids \subseteq RecordedIds(L)

\* The requests a round is about to announce have not been announced.
AskInv(o, R, G) ==
  /\ o.pc = "announce" => \A q \in o.todo : q \in DOMAIN R /\ ~Told(G, q)
  /\ o.pc = "ask" => o.request \in DOMAIN R /\ ~Told(G, o.request)

\* An order somebody is asked about is one the round waits for, has handled or need not
\* handle.
WaitInv(o, L, R) ==
  LET known == o.awaiting \cup o.handled \cup RecordedIds(SubSeq(L, 1, o.seen))
  IN  /\ o.pc = "withdraw" => \A q \in OpenIn(R) : q \in o.todo \/ R[q].order \in known
      /\ o.pc \in AtWork =>
           \A q \in OpenIn(R) : R[q].order \in known \cup (IF o.pc = "ask" THEN o.ids ELSE {})

LeftInv(o, L) == o.pc \in AtWork => o.left \cap RecordedIds(SubSeq(L, 1, o.seen)) = {}

\* The correction in hand is about the order in hand, orders that are the strategy's own,
\* and the trade's recorded orders.
StageInv(o, w) ==
  o.pc \in Staged =>
    /\ \E x \in o.ids : First(x, o.left) /\ x \notin o.handled \cup o.awaiting
    /\ o.ids \subseteq o.fields.ids /\ o.fields.ids \cap Orders \subseteq o.ids
    /\ \A x \in o.fields.ids \cap Orders : w.origin[x] # "foreign"
    /\ w.style = "trade" => IsCorrection(o.fields)

\* What is appended next no earlier row of the rounds is about, and nobody was told of it.
FreshInv(o, w, L, G) ==
  o.pc = "append" =>
    /\ \A n \in DOMAIN L : L[n].by = "handler" => L[n].ids \cap o.ids = {}
    /\ w.style # "trade" => ~TellsIds(G, o.ids)

\* A correction that is about to be announced is in the ledger and nobody was told of it.
News(o, w, L, G, ids) ==
  IF w.style = "trade" THEN o.line \in DOMAIN L /\ ~TellsLine(G, o.line)
                       ELSE ids \subseteq RecordedIds(L) /\ ~TellsIds(G, ids)

NewsInv(o, w, L, G, E, Q) ==
  /\ o.pc \in {"hook", "tell"} => News(o, w, L, G, o.ids)
  /\ o.pc = "replayed" => News(o, w, L, G, E[o.path].ids)
  /\ o.pc \in {"tell", "replayed"} => (o.line # 0 /\ ~o.failed => o.line \in Q)

RoundInv(o, w, L, R, G, E, Q) ==
  /\ AskInv(o, R, G) /\ WaitInv(o, L, R) /\ LeftInv(o, L) /\ StageInv(o, w)
  /\ FreshInv(o, w, L, G) /\ NewsInv(o, w, L, G, E, Q)

FillInv ==
  /\ ShapeInv /\ RowsInv(world, ledger) /\ ToldInv(world, ledger, requests, log)
  /\ OnlyOwnOrders /\ WrittenOnce /\ AnnouncedIsQueued
  /\ RoundInv(round, world, ledger, requests, log, evidence, queued)

-----------------------------------------------------------------------------
(* Files that grow.                                                         *)

LEMMA Growing ==
  ASSUME NEW s, NEW e, Shape(s)
  PROVE  /\ Shape(Append(s, e)) /\ Len(s) \in Nat /\ DOMAIN s = 1 .. Len(s)
         /\ Len(Append(s, e)) = Len(s) + 1 /\ DOMAIN Append(s, e) = 1 .. Len(s) + 1
         /\ Append(s, e)[Len(s) + 1] = e /\ \A n \in DOMAIN s : Append(s, e)[n] = s[n]
<1>1. PICK S : s \in Seq(S)
  BY DEF Shape
<1>2. s \in Seq(S \cup {e}) /\ e \in S \cup {e}
  BY <1>1
<1>3. Append(s, e) \in Seq(S \cup {e})
  BY <1>2
<1> QED  BY <1>2, <1>3 DEF Shape

LEMMA Restating ==
  ASSUME NEW s, NEW k \in DOMAIN s, NEW v, Shape(s)
  PROVE  Shape([s EXCEPT ![k] = v]) /\ DOMAIN [s EXCEPT ![k] = v] = DOMAIN s
<1>1. PICK S : s \in Seq(S)
  BY DEF Shape
<1>2. s \in Seq(S \cup {v})
  BY <1>1
<1>3. [s EXCEPT ![k] = v] \in Seq(S \cup {v})
  BY <1>2
<1> QED  BY <1>3 DEF Shape

LEMMA RecordedAre ==
  \A lines : RecordedIds(lines) = UNION {lines[n].ids : n \in DOMAIN lines}
  BY DEF RecordedIds, RowIds, CorrectionIds

LEMMA SeenRows ==
  ASSUME NEW s, NEW n \in 0 .. Len(s), Shape(s)
  PROVE  /\ DOMAIN SubSeq(s, 1, n) = 1 .. n /\ n \in Nat /\ n <= Len(s)
         /\ 1 .. n \subseteq DOMAIN s
         /\ \A k \in 1 .. n : SubSeq(s, 1, n)[k] = s[k]
<1>1. PICK S : s \in Seq(S)
  BY DEF Shape
<1>2. Len(s) \in Nat /\ DOMAIN s = 1 .. Len(s) /\ n \in Nat /\ n <= Len(s)
  BY <1>1
<1>3. SubSeq(s, 1, n) = [k \in 1 .. n |-> s[k]]
  BY <1>1, <1>2
<1> QED  BY <1>2, <1>3

\* A row more: what a round has read of the ledger stays as it is.
LEMMA OneRowMore ==
  ASSUME NEW s, NEW row, NEW n \in 0 .. Len(s), Shape(s)
  PROVE  /\ SubSeq(Append(s, row), 1, n) = SubSeq(s, 1, n) /\ n \in 0 .. Len(Append(s, row))
         /\ RecordedIds(s) \subseteq RecordedIds(Append(s, row))
         /\ row.ids \subseteq RecordedIds(Append(s, row))
         /\ RecordedIds(SubSeq(s, 1, n)) \subseteq RecordedIds(s)
<1> DEFINE t == Append(s, row)
<1>1. /\ Shape(t) /\ Len(s) \in Nat /\ DOMAIN s = 1 .. Len(s) /\ Len(t) = Len(s) + 1
      /\ DOMAIN t = 1 .. Len(s) + 1 /\ t[Len(s) + 1] = row /\ \A k \in DOMAIN s : t[k] = s[k]
  BY Growing
<1> HIDE DEF t
<1>2. n \in 0 .. Len(t)
  BY <1>1
<1>3. /\ DOMAIN SubSeq(s, 1, n) = 1 .. n /\ 1 .. n \subseteq DOMAIN s
      /\ \A k \in 1 .. n : SubSeq(s, 1, n)[k] = s[k]
  BY SeenRows
<1>4. SubSeq(t, 1, n) = SubSeq(s, 1, n)
  <2>1. PICK S : s \in Seq(S)
    BY DEF Shape
  <2>2. PICK T : t \in Seq(T)
    BY <1>1 DEF Shape
  <2>3. SubSeq(s, 1, n) = [k \in 1 .. n |-> s[k]] /\ SubSeq(t, 1, n) = [k \in 1 .. n |-> t[k]]
    BY <1>1, <1>2, <2>1, <2>2
  <2> QED  BY <1>1, <1>3, <2>3
<1>5. RecordedIds(s) \subseteq RecordedIds(t) /\ row.ids \subseteq RecordedIds(t)
  BY <1>1, RecordedAre
<1>6. RecordedIds(SubSeq(s, 1, n)) \subseteq RecordedIds(s)
  BY <1>3, RecordedAre
<1> QED  BY <1>2, <1>4, <1>5, <1>6 DEF t

LEMMA SameFirst ==
  ASSUME NEW a, NEW b, NEW S, First(a, S), First(b, S)
  PROVE  a = b
<1>1. PICK i \in DOMAIN Timeline : Timeline[i] = a /\ a \in S /\ \A j \in 1 .. i - 1 : Timeline[j] \notin S
  BY DEF First
<1>2. PICK k \in DOMAIN Timeline : Timeline[k] = b /\ b \in S /\ \A j \in 1 .. k - 1 : Timeline[j] \notin S
  BY DEF First
<1>3. DOMAIN Timeline = 1 .. Len(Timeline) /\ Len(Timeline) \in Nat
  BY OrdersAssumption
<1>4. ~(i < k) /\ ~(k < i)
  BY <1>1, <1>2, <1>3
<1> QED  BY <1>1, <1>2, <1>3, <1>4

-----------------------------------------------------------------------------
(* What each kind of write keeps.                                           *)

LEMMA IdleInv ==
  ASSUME NEW w, NEW L, NEW R, NEW G, NEW E, NEW Q
  PROVE  RoundInv(IdleRound, w, L, R, G, E, Q)
  BY DEF RoundInv, IdleRound, AskInv, WaitInv, LeftInv, StageInv, FreshInv, NewsInv, AtWork, Staged

\* A step that writes nothing the others depend on.
LEMMA Quiet ==
  ASSUME FillInv, UNCHANGED <<world, ledger, requests, log, evidence, queued>>,
         DOMAIN round' = DOMAIN IdleRound, round'.seen \in 0 .. Len(ledger),
         RoundInv(round', world, ledger, requests, log, evidence, queued)
  PROVE  FillInv'
<1>1. ShapeInv' /\ RowsInv(world', ledger') /\ ToldInv(world', ledger', requests', log')
  BY DEF FillInv, ShapeInv
<1>2. OnlyOwnOrders' /\ WrittenOnce' /\ AnnouncedIsQueued'
  BY DEF FillInv, OnlyOwnOrders, WrittenOnce, AnnouncedIsQueued, Written
<1> QED  BY <1>1, <1>2 DEF FillInv

LEMMA Queueing ==
  ASSUME FillInv, UNCHANGED <<world, ledger, requests, log, evidence>>, queued \subseteq queued',
         DOMAIN round' = DOMAIN IdleRound, round'.seen \in 0 .. Len(ledger),
         RoundInv(round', world, ledger, requests, log, evidence, queued')
  PROVE  FillInv'
<1>1. ShapeInv' /\ RowsInv(world', ledger') /\ ToldInv(world', ledger', requests', log')
  BY DEF FillInv, ShapeInv
<1>2. OnlyOwnOrders' /\ WrittenOnce' /\ AnnouncedIsQueued'
  BY DEF FillInv, OnlyOwnOrders, WrittenOnce, AnnouncedIsQueued, Written
<1> QED  BY <1>1, <1>2 DEF FillInv

\* A line in the log.
LEMMA Logging ==
  ASSUME FillInv, NEW e, log' = Append(log, e),
         UNCHANGED <<world, ledger, requests, evidence, queued>>,
         DOMAIN round' = DOMAIN IdleRound, round'.seen \in 0 .. Len(ledger),
         e.request \in DOMAIN requests \cup {0}, e.request # 0 => ~Told(log, e.request),
         e.code = "CORRECTED" =>
           IF world.style = "trade" THEN e.line \in DOMAIN ledger /\ ~TellsLine(log, e.line)
                                    ELSE e.ids \subseteq RecordedIds(ledger) /\ ~TellsIds(log, e.ids),
         e.line # 0 /\ ~e.failed => e.line \in queued,
         RoundInv(round', world, ledger, requests, log', evidence, queued)
  PROVE  FillInv'
<1>1. /\ Shape(log') /\ Len(log) \in Nat /\ DOMAIN log = 1 .. Len(log)
      /\ DOMAIN log' = 1 .. Len(log) + 1 /\ log'[Len(log) + 1] = e
      /\ \A k \in DOMAIN log : log'[k] = log[k]
  BY Growing DEF FillInv, ShapeInv
<1>2. ShapeInv' /\ RowsInv(world', ledger')
  BY <1>1 DEF FillInv, ShapeInv
<1>3. OnlyOwnOrders' /\ WrittenOnce' /\ AnnouncedIsQueued'
  BY <1>1 DEF FillInv, OnlyOwnOrders, WrittenOnce, AnnouncedIsQueued, Written
<1>4. ToldInv(world, ledger, requests, log')
  <2>1. ToldInv(world, ledger, requests, log)
    BY DEF FillInv
  <2>2. \A k \in DOMAIN log' : k \in DOMAIN log \/ k = Len(log) + 1
    BY <1>1
  <2>3. \A k \in DOMAIN log' : /\ log'[k].request \in DOMAIN requests \cup {0}
                               /\ log'[k].code = "CORRECTED" =>
                                    IF world.style = "trade" THEN log'[k].line \in DOMAIN ledger
                                                             ELSE log'[k].ids \subseteq RecordedIds(ledger)
    BY <1>1, <2>1, <2>2 DEF ToldInv
  <2>4. ASSUME NEW j \in DOMAIN log', NEW k \in DOMAIN log', j # k
        PROVE  /\ log'[j].request = log'[k].request => log'[j].request = 0
               /\ log'[j].code = "CORRECTED" /\ log'[k].code = "CORRECTED" =>
                    IF world.style = "trade" THEN log'[j].line # log'[k].line ELSE log'[j].ids # log'[k].ids
    <3>1. CASE j \in DOMAIN log /\ k \in DOMAIN log
      BY <1>1, <2>1, <2>4, <3>1 DEF ToldInv
    <3>2. CASE j \in DOMAIN log /\ k = Len(log) + 1
      BY <1>1, <3>2 DEF Told, TellsLine, TellsIds
    <3>3. CASE k \in DOMAIN log /\ j = Len(log) + 1
      BY <1>1, <3>3 DEF Told, TellsLine, TellsIds
    <3> QED  BY <2>2, <2>4, <3>1, <3>2, <3>3
  <2> QED  BY <2>3, <2>4 DEF ToldInv
<1>5. UNCHANGED <<world, ledger, requests, evidence, queued>>
  OBVIOUS
<1> QED  BY <1>2, <1>3, <1>4, <1>5 DEF FillInv

\* A request is closed.
LEMMA Closing ==
  ASSUME FillInv, NEW q \in DOMAIN requests, NEW status1, status1 # "open",
         requests' = [requests EXCEPT ![q].status = status1],
         UNCHANGED <<world, ledger, log, evidence, queued>>,
         DOMAIN round' = DOMAIN IdleRound, round'.seen \in 0 .. Len(ledger),
         RoundInv(round', world, ledger, requests, log, evidence, queued)
  PROVE  FillInv'
<1> DEFINE closed == [requests[q] EXCEPT !.status = status1]
<1>1. DOMAIN requests[q] = {"order", "ids", "path", "status"}
  BY DEF FillInv, ShapeInv
<1>2. DOMAIN closed = {"order", "ids", "path", "status"} /\ closed.order = requests[q].order /\ closed.status # "open"
  BY <1>1
<1>3. requests' = [requests EXCEPT ![q] = closed]
  OBVIOUS
<1> HIDE DEF closed
<1>4. Shape(requests') /\ DOMAIN requests' = DOMAIN requests
  <2>1. Shape(requests)
    BY DEF FillInv, ShapeInv
  <2>2. Shape([requests EXCEPT ![q] = closed]) /\ DOMAIN [requests EXCEPT ![q] = closed] = DOMAIN requests
    BY <2>1, Restating, Zenon
  <2> QED  BY <1>3, <2>2, Zenon
<1>5. /\ requests'[q] = closed /\ \A k \in DOMAIN requests : k # q => requests'[k] = requests[k]
  BY <1>3, <1>4
<1>6. \A k \in DOMAIN requests : /\ DOMAIN requests'[k] = {"order", "ids", "path", "status"}
                                 /\ requests'[k].order = requests[k].order
                                 /\ requests'[k].status = "open" => requests[k].status = "open"
  BY <1>2, <1>5 DEF FillInv, ShapeInv
<1>7. OpenIn(requests') \subseteq OpenIn(requests) /\ OpenIn(requests) \subseteq DOMAIN requests
  BY <1>4, <1>6 DEF OpenIn
<1>8. RoundInv(round', world, ledger, requests', log, evidence, queued)
  <2>1. AskInv(round', requests', log)
    BY <1>4 DEF RoundInv, AskInv
  <2>2. WaitInv(round', ledger, requests')
    BY <1>6, <1>7 DEF RoundInv, WaitInv
  <2> QED  BY <2>1, <2>2 DEF RoundInv
<1>9. ShapeInv' /\ RowsInv(world', ledger') /\ ToldInv(world', ledger', requests', log')
  BY <1>4, <1>6 DEF FillInv, ShapeInv, ToldInv
<1>10. OnlyOwnOrders' /\ WrittenOnce' /\ AnnouncedIsQueued'
  BY DEF FillInv, OnlyOwnOrders, WrittenOnce, AnnouncedIsQueued, Written
<1> QED  BY <1>8, <1>9, <1>10 DEF FillInv

\* A row in the ledger, of the strategy, of the operator or of the round.
LEMMA RowMore ==
  ASSUME FillInv, NEW row, ledger' = Append(ledger, row),
         world.style = "trade" /\ ~IsCorrection(row) => row.ids \subseteq {Entry, Exit},
         row.by = "handler" =>
           /\ \A n \in Written : ledger[n].ids \cap row.ids \cap Orders = {}
           /\ \A x \in row.ids \cap Orders : world.origin[x] # "foreign",
         UNCHANGED <<world, log, evidence, queued>>
  PROVE  /\ Shape(ledger') /\ RowsInv(world', ledger') /\ OnlyOwnOrders' /\ WrittenOnce'
         /\ AnnouncedIsQueued'
         /\ ToldInv(world, ledger', requests, log) /\ round.seen \in 0 .. Len(ledger')
<1>1. /\ Shape(ledger') /\ Len(ledger) \in Nat /\ DOMAIN ledger = 1 .. Len(ledger)
      /\ DOMAIN ledger' = 1 .. Len(ledger) + 1 /\ ledger'[Len(ledger) + 1] = row
      /\ Len(ledger') = Len(ledger) + 1 /\ \A n \in DOMAIN ledger : ledger'[n] = ledger[n]
  BY Growing DEF FillInv, ShapeInv
<1>2. \A n \in DOMAIN ledger' : n \in DOMAIN ledger \/ n = Len(ledger) + 1
  BY <1>1
<1>3. RowsInv(world', ledger')
  BY <1>1, <1>2 DEF FillInv, RowsInv
<1>4. OnlyOwnOrders'
  BY <1>1, <1>2 DEF FillInv, OnlyOwnOrders, Written
<1>5. WrittenOnce'
  <2>1. WrittenOnce
    BY DEF FillInv
  <2> SUFFICES ASSUME NEW m \in Written', NEW n \in Written', m # n
               PROVE  ledger'[m].ids \cap ledger'[n].ids \cap Orders = {}
    BY DEF WrittenOnce
  <2>2. m \in DOMAIN ledger' /\ n \in DOMAIN ledger' /\ ledger'[m].by = "handler" /\ ledger'[n].by = "handler"
    BY DEF Written
  <2>3. CASE m \in DOMAIN ledger /\ n \in DOMAIN ledger
    <3>1. m \in Written /\ n \in Written
      BY <1>1, <2>2, <2>3 DEF Written
    <3> QED  BY <1>1, <2>1, <2>3, <3>1 DEF WrittenOnce
  <2>4. CASE m \in DOMAIN ledger /\ n = Len(ledger) + 1
    <3>1. m \in Written
      BY <1>1, <2>2, <2>4 DEF Written
    <3> QED  BY <1>1, <2>2, <2>4, <3>1
  <2>5. CASE n \in DOMAIN ledger /\ m = Len(ledger) + 1
    <3>1. n \in Written
      BY <1>1, <2>2, <2>5 DEF Written
    <3> QED  BY <1>1, <2>2, <2>5, <3>1
  <2> QED  BY <1>2, <2>2, <2>3, <2>4, <2>5
<1>6. AnnouncedIsQueued'
  BY DEF FillInv, AnnouncedIsQueued
<1>7. ToldInv(world, ledger', requests, log)
  <2>1. RecordedIds(ledger) \subseteq RecordedIds(ledger')
    BY OneRowMore DEF FillInv, ShapeInv
  <2> QED  BY <1>1, <2>1 DEF FillInv, ToldInv
<1>8. round.seen \in 0 .. Len(ledger')
  BY <1>1 DEF FillInv, ShapeInv
<1> QED  BY <1>1, <1>3, <1>4, <1>5, <1>6, <1>7, <1>8

-----------------------------------------------------------------------------
(* The steps of a round before it takes up the listed orders.               *)

LEMMA Fields ==
  ASSUME FillInv
  PROVE  /\ DOMAIN IdleRound = {"pc", "seen", "todo", "awaiting", "orders", "left", "handled", "wrote", "ids",
                                "fields", "path", "line", "failed", "request"}
         /\ DOMAIN round = DOMAIN IdleRound /\ round.seen \in 0 .. Len(ledger) /\ Len(ledger) \in Nat
         /\ RoundInv(round, world, ledger, requests, log, evidence, queued)
<1>1. Len(ledger) \in Nat
  BY Growing DEF FillInv, ShapeInv
<1> QED  BY <1>1 DEF FillInv, ShapeInv, IdleRound

LEMMA StartStep == ASSUME FillInv, Start PROVE FillInv'
<1> DEFINE ids == {q \in OpenRequests : ~Announced(q)}
           o == [IdleRound EXCEPT !.pc = "announce", !.seen = Len(ledger), !.todo = ids]
<1>1. round' = o /\ UNCHANGED <<world, ledger, requests, log, evidence, queued>>
  BY DEF Start, exchange, told, filesOfRound
<1>2. Len(ledger) \in Nat /\ DOMAIN o = DOMAIN IdleRound /\ o.seen = Len(ledger) /\ o.pc = "announce" /\ o.todo = ids
  BY Fields
<1>3. \A q \in ids : q \in DOMAIN requests /\ ~Told(log, q)
  BY DEF OpenRequests, Announced, Told
<1> HIDE DEF o, ids
<1>4. RoundInv(o, world, ledger, requests, log, evidence, queued)
  BY <1>2, <1>3 DEF RoundInv, AskInv, WaitInv, LeftInv, StageInv, FreshInv, NewsInv, AtWork, Staged
<1> QED  BY <1>1, <1>2, <1>4, Quiet

LEMMA AnnounceStep == ASSUME FillInv, Announce PROVE FillInv'
<1> DEFINE was == round
<1>1. PICK q \in was.todo :
        /\ Report("UNRESOLVED", 0, q, requests[q].path, requests[q].ids)
        /\ round' = [was EXCEPT !.todo = @ \ {q}]
  BY DEF Announce
<1> DEFINE e == [code |-> "UNRESOLVED", line |-> 0, request |-> q, path |-> requests[q].path,
                 ids |-> requests[q].ids, failed |-> FALSE]
           o == [was EXCEPT !.todo = @ \ {q}]
<1>2. was.pc = "announce" /\ UNCHANGED <<world, ledger, requests, evidence, queued>>
  BY DEF Announce, At, exchange, filesOfRound
<1>3. /\ DOMAIN was = DOMAIN IdleRound /\ "todo" \in DOMAIN was /\ "pc" \in DOMAIN was
      /\ was.seen \in 0 .. Len(ledger)
      /\ \A k \in was.todo : k \in DOMAIN requests /\ ~Told(log, k)
  BY <1>2, Fields DEF RoundInv, AskInv
<1>4. log' = Append(log, e)
  BY <1>1 DEF Report
<1>5. e.request = q /\ e.code # "CORRECTED" /\ e.line = 0
  OBVIOUS
<1> HIDE DEF e
<1>6. \A k \in was.todo \ {q} : ~Told(log', k)
  <2>1. /\ DOMAIN log' = 1 .. Len(log) + 1 /\ DOMAIN log = 1 .. Len(log) /\ Len(log) \in Nat
        /\ log'[Len(log) + 1] = e /\ \A k \in DOMAIN log : log'[k] = log[k]
    BY <1>4, Growing DEF FillInv, ShapeInv
  <2> QED  BY <1>3, <1>5, <2>1 DEF Told
<1> HIDE DEF was
<1>7. DOMAIN o = DOMAIN IdleRound /\ o.seen = was.seen /\ o.pc = "announce" /\ o.todo = was.todo \ {q}
  BY <1>2, <1>3
<1> HIDE DEF o
<1>8. RoundInv(o, world, ledger, requests, log', evidence, queued)
  BY <1>3, <1>6, <1>7 DEF RoundInv, AskInv, WaitInv, LeftInv, StageInv, FreshInv, NewsInv, AtWork, Staged
<1>9. round' = o
  BY <1>1 DEF o
<1>10. q \in DOMAIN requests \cup {0} /\ ~Told(log, q)
  BY <1>1, <1>3
<1> QED  BY <1>2, <1>3, <1>4, <1>5, <1>7, <1>8, <1>9, <1>10, Logging

LEMMA ListEvidenceStep == ASSUME FillInv, ListEvidence PROVE FillInv'
<1> DEFINE was == round
           ids == IF world.client_ids THEN DOMAIN evidence ELSE {}
           o == [was EXCEPT !.pc = "replay", !.todo = ids]
<1>1. round' = o /\ UNCHANGED <<world, ledger, requests, log, evidence, queued>>
  BY DEF ListEvidence, exchange, told, filesOfRound
<1>2. DOMAIN o = DOMAIN IdleRound /\ o.seen \in 0 .. Len(ledger) /\ o.pc = "replay"
  BY Fields
<1> HIDE DEF o
<1>3. RoundInv(o, world, ledger, requests, log, evidence, queued)
  BY <1>2 DEF RoundInv, AskInv, WaitInv, LeftInv, StageInv, FreshInv, NewsInv, AtWork, Staged
<1> QED  BY <1>1, <1>2, <1>3, Quiet

\* An evidence file is passed over.
LEMMA SkipInv ==
  ASSUME FillInv, NEW p, Skip(p), NEW G
  PROVE  /\ DOMAIN round' = DOMAIN IdleRound /\ round'.seen \in 0 .. Len(ledger)
         /\ RoundInv(round', world, ledger, requests, G, evidence, queued)
<1>1. DOMAIN round' = DOMAIN IdleRound /\ round'.seen \in 0 .. Len(ledger) /\ round'.pc = "replay"
  BY Fields DEF Skip
<1>2. RoundInv(round', world, ledger, requests, G, evidence, queued)
  BY <1>1 DEF RoundInv, AskInv, WaitInv, LeftInv, StageInv, FreshInv, NewsInv, AtWork, Staged
<1> QED  BY <1>1, <1>2

LEMMA NothingToReplayStep == ASSUME FillInv, NEW p, NothingToReplay(p) PROVE FillInv'
<1>1. Skip(p) /\ UNCHANGED <<world, ledger, requests, log, evidence, queued>>
  BY DEF NothingToReplay, exchange, told, filesOfRound
<1>2. /\ DOMAIN round' = DOMAIN IdleRound /\ round'.seen \in 0 .. Len(ledger)
      /\ RoundInv(round', world, ledger, requests, log, evidence, queued)
  BY <1>1, SkipInv
<1> QED  BY <1>1, <1>2, Quiet

\* A correction that is announced later is in the ledger and was not announced.
LEMMA UnannouncedIsNews ==
  ASSUME FillInv, NEW p, NEW n \in Unannounced(p), NEW o, o.line = n
  PROVE  News(o, world, ledger, log, evidence[p].ids)
<1> DEFINE was == round
<1>1. was.seen \in 0 .. Len(ledger) /\ Shape(ledger) /\ world.style \in {"trade", "spot"}
  BY DEF FillInv, ShapeInv, World
<1>2. RecordedIds(Seen) \subseteq RecordedIds(ledger) /\ 1 .. was.seen \subseteq DOMAIN ledger
  <2> HIDE DEF was
  <2>1. RecordedIds(SubSeq(ledger, 1, was.seen)) \subseteq RecordedIds(ledger)
    BY <1>1, OneRowMore
  <2>2. 1 .. was.seen \subseteq DOMAIN ledger
    BY <1>1, SeenRows
  <2> QED  BY <2>1, <2>2 DEF Seen, was
<1>3. CASE world.style = "trade"
  <2>1. n \in Matches(p) /\ ~LineTold(n)
    BY <1>3 DEF Unannounced
  <2>2. n \in DOMAIN ledger /\ ~TellsLine(log, n)
    BY <1>2, <2>1 DEF Matches, LineTold, TellsLine
  <2> QED  BY <1>3, <2>2 DEF News
<1>4. CASE world.style # "trade"
  <2>1. evidence[p].ids \subseteq RecordedIds(Seen) /\ ~IdsTold(evidence[p].ids)
    BY <1>4 DEF Unannounced
  <2>2. evidence[p].ids \subseteq RecordedIds(ledger) /\ ~TellsIds(log, evidence[p].ids)
    BY <1>2, <2>1 DEF IdsTold, TellsIds
  <2> QED  BY <1>4, <2>2 DEF News
<1> QED  BY <1>3, <1>4

LEMMA TakeUpInv ==
  ASSUME FillInv, NEW p, NEW n \in Unannounced(p), NEW failed \in BOOLEAN, TakeUp(p, n, failed),
         NEW Q, failed \/ n = 0 \/ n \in Q
  PROVE  /\ DOMAIN round' = DOMAIN IdleRound /\ round'.seen \in 0 .. Len(ledger)
         /\ RoundInv(round', world, ledger, requests, log, evidence, Q)
<1>1. /\ DOMAIN round' = DOMAIN IdleRound /\ round'.seen \in 0 .. Len(ledger) /\ round'.pc = "replayed"
      /\ round'.path = p /\ round'.line = n /\ round'.failed = failed
  BY Fields DEF TakeUp
<1> DEFINE o == round'
<1>2. News(o, world, ledger, log, evidence[p].ids)
  BY <1>1, UnannouncedIsNews
<1>3. NewsInv(o, world, ledger, log, evidence, Q)
  BY <1>1, <1>2 DEF NewsInv
<1>4. RoundInv(o, world, ledger, requests, log, evidence, Q)
  BY <1>1, <1>3 DEF RoundInv, AskInv, WaitInv, LeftInv, StageInv, FreshInv, AtWork, Staged
<1> QED  BY <1>1, <1>4

LEMMA ReplayStep == ASSUME FillInv, NEW p, Replay(p) PROVE FillInv'
<1>1. PICK n \in Unannounced(p) : TakeUp(p, n, FALSE) /\ queued' = IF n = 0 THEN queued ELSE queued \cup {n}
  BY DEF Replay
<1>2. UNCHANGED <<world, ledger, requests, log, evidence>>
  BY DEF Replay, exchange, told
<1>3. queued \subseteq queued' /\ (n = 0 \/ n \in queued')
  BY <1>1
<1>4. /\ DOMAIN round' = DOMAIN IdleRound /\ round'.seen \in 0 .. Len(ledger)
      /\ RoundInv(round', world, ledger, requests, log, evidence, queued')
  BY <1>1, <1>3, TakeUpInv
<1> QED  BY <1>2, <1>3, <1>4, Queueing

LEMMA ReplayHookFailsStep == ASSUME FillInv, NEW p, ReplayHookFails(p) PROVE FillInv'
<1>1. UNCHANGED <<world, ledger, requests, log, evidence, queued>>
  BY DEF ReplayHookFails, exchange, told
<1>2. Skip(p) \/ \E n \in Unannounced(p) : TakeUp(p, n, TRUE)
  BY DEF ReplayHookFails
<1>3. /\ DOMAIN round' = DOMAIN IdleRound /\ round'.seen \in 0 .. Len(ledger)
      /\ RoundInv(round', world, ledger, requests, log, evidence, queued)
  BY <1>2, SkipInv, TakeUpInv
<1> QED  BY <1>1, <1>3, Quiet

LEMMA ReplayedStep == ASSUME FillInv, Replayed PROVE FillInv'
<1> DEFINE was == round
           ids == evidence[was.path].ids
           e == [code |-> "CORRECTED", line |-> was.line, request |-> 0, path |-> was.path,
                 ids |-> ids, failed |-> "CORRECTED" = "CORRECTED" /\ was.failed]
<1>1. /\ was.pc = "replayed" /\ log' = Append(log, e) /\ Skip(was.path)
      /\ UNCHANGED <<world, ledger, requests, evidence, queued>>
  BY DEF Replayed, At, Report, exchange, filesOfRound
<1>2. NewsInv(was, world, ledger, log, evidence, queued)
  BY Fields DEF RoundInv
<1>3. /\ News(was, world, ledger, log, ids)
      /\ was.line # 0 /\ ~was.failed => was.line \in queued
  BY <1>1, <1>2 DEF NewsInv
<1>4. /\ DOMAIN round' = DOMAIN IdleRound /\ round'.seen \in 0 .. Len(ledger)
      /\ RoundInv(round', world, ledger, requests, log', evidence, queued)
  BY <1>1, SkipInv
<1>5. e.code = "CORRECTED" /\ e.request = 0 /\ e.line = was.line /\ e.ids = ids /\ (e.failed <=> was.failed)
  OBVIOUS
<1> HIDE DEF e, was
<1> QED  BY <1>1, <1>3, <1>4, <1>5, Logging DEF News

LEMMA ListRequestsStep == ASSUME FillInv, ListRequests PROVE FillInv'
<1> DEFINE was == round
           o == [was EXCEPT !.pc = "withdraw", !.todo = OpenRequests]
<1>1. round' = o /\ UNCHANGED <<world, ledger, requests, log, evidence, queued>>
  BY DEF ListRequests, exchange, told, filesOfRound
<1>2. DOMAIN o = DOMAIN IdleRound /\ o.seen \in 0 .. Len(ledger) /\ o.pc = "withdraw" /\ o.todo = OpenIn(requests)
  BY Fields DEF OpenRequests, OpenIn
<1> HIDE DEF o
<1>3. RoundInv(o, world, ledger, requests, log, evidence, queued)
  BY <1>2 DEF RoundInv, AskInv, WaitInv, LeftInv, StageInv, FreshInv, NewsInv, AtWork, Staged
<1> QED  BY <1>1, <1>2, <1>3, Quiet

LEMMA WithdrawStep == ASSUME FillInv, Withdraw PROVE FillInv'
<1> DEFINE was == round
           known == was.awaiting \cup was.handled \cup RecordedIds(Seen)
<1>1. UNCHANGED <<world, ledger, log, evidence, queued>> /\ was.pc = "withdraw"
  BY DEF Withdraw, At, exchange, filesOfRound
<1>2. DOMAIN was = DOMAIN IdleRound /\ was.seen \in 0 .. Len(ledger) /\ WaitInv(was, ledger, requests)
  BY Fields DEF RoundInv
<1>3. \A q \in OpenIn(requests) : q \in was.todo \/ requests[q].order \in known
  BY <1>1, <1>2 DEF WaitInv, Seen
<1>4. PICK q \in was.todo :
        CASE ~Overtaken(q) ->
               /\ round' = [was EXCEPT !.todo = @ \ {q},
                                       !.awaiting = @ \cup requests[q].ids \cup {requests[q].order}]
               /\ UNCHANGED requests
          [] Overtaken(q) /\ q \in OpenRequests ->
               /\ round' = [was EXCEPT !.todo = @ \ {q}]
               /\ requests' = [requests EXCEPT ![q].status = "WITHDRAWN"]
          [] OTHER -> round' = IdleRound /\ UNCHANGED requests
  BY DEF Withdraw
<1>5. CASE ~Overtaken(q)
  <2> DEFINE o == [was EXCEPT !.todo = @ \ {q}, !.awaiting = @ \cup requests[q].ids \cup {requests[q].order}]
  <2>1. round' = o /\ UNCHANGED requests
    BY <1>4, <1>5
  <2>2. /\ DOMAIN o = DOMAIN IdleRound /\ o.pc = "withdraw" /\ o.todo = was.todo \ {q}
        /\ o.awaiting = was.awaiting \cup requests[q].ids \cup {requests[q].order}
        /\ o.handled = was.handled /\ o.seen = was.seen
    BY <1>1, <1>2, Fields
  <2> HIDE DEF o
  <2>3. \A k \in OpenIn(requests) :
          k \in o.todo \/ requests[k].order \in o.awaiting \cup o.handled \cup RecordedIds(Seen)
    BY <1>3, <2>2
  <2>4. WaitInv(o, ledger, requests)
    BY <2>2, <2>3 DEF WaitInv, Seen, AtWork, Staged
  <2>5. RoundInv(o, world, ledger, requests, log, evidence, queued)
    BY <2>2, <2>4 DEF RoundInv, AskInv, LeftInv, StageInv, FreshInv, NewsInv, AtWork, Staged
  <2> QED  BY <1>1, <1>2, <2>1, <2>2, <2>5, Quiet
<1>6. CASE Overtaken(q) /\ q \in OpenRequests
  <2> DEFINE o == [was EXCEPT !.todo = @ \ {q}]
  <2>1. round' = o /\ requests' = [requests EXCEPT ![q].status = "WITHDRAWN"] /\ q \in DOMAIN requests
    BY <1>4, <1>6 DEF OpenRequests
  <2>2. /\ DOMAIN o = DOMAIN IdleRound /\ o.pc = "withdraw" /\ o.todo = was.todo \ {q}
        /\ o.awaiting = was.awaiting /\ o.handled = was.handled /\ o.seen = was.seen
    BY <1>1, <1>2, Fields
  <2> HIDE DEF o
  <2>3. \A k \in OpenIn(requests) :
          k \in o.todo \/ requests[k].order \in o.awaiting \cup o.handled \cup RecordedIds(Seen)
    BY <1>3, <1>6, <2>2 DEF Overtaken
  <2>4. WaitInv(o, ledger, requests)
    BY <2>2, <2>3 DEF WaitInv, Seen, AtWork, Staged
  <2>5. RoundInv(o, world, ledger, requests, log, evidence, queued)
    BY <2>2, <2>4 DEF RoundInv, AskInv, LeftInv, StageInv, FreshInv, NewsInv, AtWork, Staged
  <2> QED  BY <1>1, <1>2, <2>1, <2>2, <2>5, Closing
<1>7. CASE Overtaken(q) /\ q \notin OpenRequests
  <2>1. round' = IdleRound /\ UNCHANGED requests
    BY <1>4, <1>7
  <2>2. IdleRound.seen = 0 /\ 0 \in 0 .. Len(ledger)
    BY Fields DEF IdleRound
  <2> QED  BY <1>1, <2>1, <2>2, IdleInv, Quiet
<1> QED  BY <1>5, <1>6, <1>7

LEMMA ListOrdersStep == ASSUME FillInv, ListOrders PROVE FillInv'
<1> DEFINE was == round
           o == [was EXCEPT !.pc = "next", !.orders = UnrecordedOrders, !.left = UnrecordedOrders]
<1>1. /\ round' = o /\ UNCHANGED <<world, ledger, requests, log, evidence, queued>>
      /\ was.pc = "withdraw" /\ was.todo = {}
  BY DEF ListOrders, At, exchange, told, filesOfRound
<1>2. /\ DOMAIN o = DOMAIN IdleRound /\ o.seen \in 0 .. Len(ledger) /\ o.pc = "next"
      /\ o.left = UnrecordedOrders /\ o.seen = was.seen /\ o.awaiting = was.awaiting /\ o.handled = was.handled
      /\ WaitInv(was, ledger, requests)
  BY Fields DEF RoundInv
<1>3. UnrecordedOrders \cap RecordedIds(SubSeq(ledger, 1, was.seen)) = {}
  BY DEF UnrecordedOrders, Seen
<1> HIDE DEF o, was
<1>4. WaitInv(o, ledger, requests) /\ LeftInv(o, ledger)
  BY <1>1, <1>2, <1>3 DEF WaitInv, LeftInv
<1>5. RoundInv(o, world, ledger, requests, log, evidence, queued)
  BY <1>2, <1>4 DEF RoundInv, AskInv, StageInv, FreshInv, NewsInv, Staged
<1> QED  BY <1>1, <1>2, <1>5, Quiet

LEMMA EndRoundStep == ASSUME FillInv, EndRound PROVE FillInv'
<1>1. round' = IdleRound /\ UNCHANGED <<world, ledger, requests, log, evidence, queued>>
  BY DEF EndRound, exchange, told, filesOfRound
<1>2. IdleRound.seen = 0 /\ 0 \in 0 .. Len(ledger)
  BY Fields DEF IdleRound
<1> QED  BY <1>1, <1>2, IdleInv, Quiet

LEMMA LeaveAloneStep == ASSUME FillInv, NEW x, LeaveAlone(x) PROVE FillInv'
<1> DEFINE was == round
           o == [was EXCEPT !.left = @ \ {x}]
<1>1. /\ round' = o /\ UNCHANGED <<world, ledger, requests, log, evidence, queued>>
      /\ was.pc = "next"
  BY DEF LeaveAlone, Handling, At, exchange, told, filesOfRound
<1>2. /\ DOMAIN o = DOMAIN IdleRound /\ o.seen \in 0 .. Len(ledger) /\ o.pc = "next"
      /\ o.left = was.left \ {x} /\ o.seen = was.seen /\ o.awaiting = was.awaiting /\ o.handled = was.handled
      /\ WaitInv(was, ledger, requests) /\ LeftInv(was, ledger)
  BY <1>1, Fields DEF RoundInv
<1> HIDE DEF o, was
<1>3. WaitInv(o, ledger, requests) /\ LeftInv(o, ledger)
  BY <1>1, <1>2 DEF WaitInv, LeftInv, AtWork
<1>4. RoundInv(o, world, ledger, requests, log, evidence, queued)
  BY <1>2, <1>3 DEF RoundInv, AskInv, StageInv, FreshInv, NewsInv, Staged
<1> QED  BY <1>1, <1>2, <1>4, Quiet

-----------------------------------------------------------------------------
(* The steps about one order.                                               *)

LEMMA DeferInv ==
  ASSUME FillInv, NEW ids, Defer(ids), round.pc \in AtWork, round.pc = "ask" => round.ids \subseteq ids, NEW G
  PROVE  /\ DOMAIN round' = DOMAIN IdleRound /\ round'.seen \in 0 .. Len(ledger)
         /\ RoundInv(round', world, ledger, requests, G, evidence, queued)
<1> DEFINE was == round
           o == round'
<1>1. /\ DOMAIN o = DOMAIN IdleRound /\ o.seen \in 0 .. Len(ledger) /\ o.pc = "next"
      /\ o.left \subseteq was.left /\ o.seen = was.seen /\ o.awaiting = was.awaiting
      /\ o.handled = was.handled \cup ids
  BY Fields DEF Defer
<1>2. WaitInv(was, ledger, requests) /\ LeftInv(was, ledger)
  BY Fields DEF RoundInv
<1>3. was.pc \in AtWork /\ (was.pc = "ask" => was.ids \subseteq ids)
  OBVIOUS
<1> HIDE DEF o, was
<1>4. WaitInv(o, ledger, requests)
  BY <1>1, <1>2, <1>3 DEF WaitInv
<1>5. LeftInv(o, ledger)
  BY <1>1, <1>2, <1>3 DEF LeftInv
<1>6. RoundInv(o, world, ledger, requests, G, evidence, queued)
  BY <1>1, <1>4, <1>5 DEF RoundInv, AskInv, StageInv, FreshInv, NewsInv, Staged
<1> QED  BY <1>1, <1>6 DEF o

LEMMA DeferStep ==
  ASSUME FillInv, NEW ids, Defer(ids), round.pc \in AtWork, round.pc # "ask",
         UNCHANGED <<world, ledger, requests, log, evidence, queued>>
  PROVE  FillInv'
<1>1. /\ DOMAIN round' = DOMAIN IdleRound /\ round'.seen \in 0 .. Len(ledger)
      /\ RoundInv(round', world, ledger, requests, log, evidence, queued)
  BY DeferInv
<1> QED  BY <1>1, Quiet

\* Somebody is asked about an order nobody was asked about.  The ledger may have got a
\* row in the same step.
LEMMA AskStep ==
  ASSUME FillInv, NEW x, NEW ids, NEW path, NEW wrote, Ask(x, ids, path, wrote), x \in ids,
         round.pc \in AtWork \ {"ask"}, x \in round.left, x \notin round.awaiting \cup round.handled,
         UNCHANGED <<world, log, evidence, queued>>,
         Shape(ledger'), RowsInv(world', ledger'), OnlyOwnOrders', WrittenOnce', AnnouncedIsQueued',
         ToldInv(world, ledger', requests, log), round.seen \in 0 .. Len(ledger'),
         SubSeq(ledger', 1, round.seen) = SubSeq(ledger, 1, round.seen)
  PROVE  FillInv'
<1> DEFINE was == round
           known == was.awaiting \cup was.handled \cup RecordedIds(SubSeq(ledger, 1, was.seen))
<1>1. /\ DOMAIN was = DOMAIN IdleRound /\ WaitInv(was, ledger, requests) /\ LeftInv(was, ledger)
      /\ Shape(requests) /\ world \in World /\ Shape(log) /\ Shape(evidence)
      /\ \A q \in DOMAIN requests : DOMAIN requests[q] = {"order", "ids", "path", "status"}
  BY Fields DEF RoundInv, FillInv, ShapeInv
<1>2. \A q \in OpenIn(requests) : requests[q].order \in known
  BY <1>1 DEF WaitInv
<1>3. OpenOf(x) = {}
  BY <1>1, <1>2 DEF OpenOf, OpenRequests, OpenIn, LeftInv
<1> DEFINE r == [order |-> x, ids |-> ids, path |-> path, status |-> "open"]
           o == round'
<1>4. /\ requests' = Append(requests, r)
      /\ o = [was EXCEPT !.pc = "ask", !.request = Len(requests) + 1, !.ids = ids, !.path = path,
                         !.wrote = wrote, !.fields = NoFields]
  BY <1>3 DEF Ask
<1>5. /\ Shape(requests') /\ Len(requests) \in Nat /\ DOMAIN requests = 1 .. Len(requests)
      /\ DOMAIN requests' = 1 .. Len(requests) + 1 /\ requests'[Len(requests) + 1] = r
      /\ \A q \in DOMAIN requests : requests'[q] = requests[q]
  BY <1>1, <1>4, Growing
<1>6. DOMAIN r = {"order", "ids", "path", "status"} /\ r.order = x
  OBVIOUS
<1>7. /\ DOMAIN o = DOMAIN IdleRound /\ o.pc = "ask" /\ o.request = Len(requests) + 1 /\ o.ids = ids
      /\ o.seen = was.seen /\ o.awaiting = was.awaiting /\ o.handled = was.handled /\ o.left = was.left
  BY <1>1, <1>4, Fields
<1> HIDE DEF o, r
<1>8. ~Told(log, Len(requests) + 1)
  BY <1>5 DEF FillInv, ToldInv, Told
<1>9. AskInv(o, requests', log)
  BY <1>5, <1>7, <1>8 DEF AskInv
<1>10. \A q \in OpenIn(requests') : requests'[q].order \in known \cup ids
  <2> SUFFICES ASSUME NEW q \in OpenIn(requests') PROVE requests'[q].order \in known \cup ids
    OBVIOUS
  <2>1. CASE q \in DOMAIN requests
    BY <1>2, <1>5, <2>1 DEF OpenIn
  <2>2. CASE q = Len(requests) + 1
    BY <1>5, <1>6, <2>2
  <2> QED  BY <1>5, <2>1, <2>2 DEF OpenIn
<1>11. WaitInv(o, ledger', requests')
  <2>1. RecordedIds(SubSeq(ledger', 1, o.seen)) = RecordedIds(SubSeq(ledger, 1, was.seen))
    BY <1>7
  <2> QED  BY <1>7, <1>10, <2>1 DEF WaitInv
<1>12. LeftInv(o, ledger')
  BY <1>1, <1>7 DEF LeftInv
<1>13. RoundInv(o, world, ledger', requests', log, evidence, queued)
  BY <1>7, <1>9, <1>11, <1>12 DEF RoundInv, StageInv, FreshInv, NewsInv, Staged
<1>14. \A q \in DOMAIN requests' : DOMAIN requests'[q] = {"order", "ids", "path", "status"}
  BY <1>1, <1>5, <1>6
<1>15. ShapeInv'
  BY <1>1, <1>5, <1>7, <1>14 DEF ShapeInv, o
<1>16. ToldInv(world', ledger', requests', log')
  BY <1>5 DEF ToldInv
<1> QED  BY <1>13, <1>15, <1>16 DEF FillInv, o

LEMMA UnresolvedStep ==
  ASSUME FillInv, NEW x, NEW ids, Reading(x), Unresolved(x, ids), x \in ids, NoFileChanges
  PROVE  FillInv'
<1>1. UNCHANGED <<world, ledger, log, evidence, queued>>
  BY DEF NoFileChanges, exchange, filesOfRound
<1>2. /\ Ask(x, ids, 0, round.wrote) /\ x \in round.left /\ x \notin round.awaiting \cup round.handled
      /\ round.pc \in AtWork \ {"ask"}
  BY DEF Unresolved, Reading, Handling, At, Waits, First, AtWork
<1>3. /\ Shape(ledger') /\ RowsInv(world', ledger') /\ OnlyOwnOrders' /\ WrittenOnce' /\ AnnouncedIsQueued'
      /\ ToldInv(world, ledger', requests, log) /\ round.seen \in 0 .. Len(ledger')
      /\ SubSeq(ledger', 1, round.seen) = SubSeq(ledger, 1, round.seen)
  BY <1>1 DEF FillInv, ShapeInv, OnlyOwnOrders, WrittenOnce, AnnouncedIsQueued, Written
<1> QED  BY <1>1, <1>2, <1>3, AskStep

LEMMA DeferOrderStep ==
  ASSUME FillInv, NEW x, NEW ids, Reading(x), Defer(ids), UNCHANGED requests, NoFileChanges
  PROVE  FillInv'
<1>1. UNCHANGED <<world, ledger, requests, log, evidence, queued>>
  BY DEF NoFileChanges, exchange, filesOfRound
<1>2. round.pc \in AtWork /\ round.pc # "ask"
  BY DEF Reading, Handling, At, AtWork
<1> QED  BY <1>1, <1>2, DeferStep

LEMMA LookUpFailsStep == ASSUME FillInv, NEW x, LookUpFails(x) PROVE FillInv'
<1>1. NoFileChanges /\ Reading(x)
  BY DEF LookUpFails
<1>2. PICK ids : x \in ids /\ ((Defer(ids) /\ UNCHANGED requests) \/ Unresolved(x, ids))
  BY DEF LookUpFails, Group
<1> QED  BY <1>1, <1>2, DeferOrderStep, UnresolvedStep

LEMMA NotADuplicateStep == ASSUME FillInv, NEW x, NotADuplicate(x) PROVE FillInv'
  BY UnresolvedStep DEF NotADuplicate

LEMMA OneWritePerRoundStep == ASSUME FillInv, NEW x, OneWritePerRound(x) PROVE FillInv'
  BY DeferOrderStep DEF OneWritePerRound

\* What is staged is about the order in hand and only about orders of the strategy.
LEMMA StageStep ==
  ASSUME FillInv, NEW x, NEW ids, NEW fields, Reading(x), Stage(ids, fields), NoFileChanges, x \in ids,
         ids \subseteq fields.ids, fields.ids \cap Orders \subseteq ids,
         \A p \in fields.ids \cap Orders : world.origin[p] # "foreign",
         world.style = "trade" => IsCorrection(fields)
  PROVE  FillInv'
<1> DEFINE was == round
           o == [was EXCEPT !.pc = "persist", !.ids = ids, !.fields = fields]
<1>1. round' = o /\ UNCHANGED <<world, ledger, requests, log, evidence, queued>>
  BY DEF Stage, NoFileChanges, exchange, filesOfRound
<1>2. was.pc = "next" /\ First(x, was.left) /\ x \notin was.handled \cup was.awaiting
  BY DEF Reading, Handling, At, Waits
<1>3. /\ DOMAIN o = DOMAIN IdleRound /\ o.pc = "persist" /\ o.ids = ids /\ o.fields = fields
      /\ o.seen = was.seen /\ o.awaiting = was.awaiting /\ o.handled = was.handled /\ o.left = was.left
      /\ was.seen \in 0 .. Len(ledger) /\ WaitInv(was, ledger, requests) /\ LeftInv(was, ledger)
  BY Fields DEF RoundInv
<1> HIDE DEF o, was
<1>4. WaitInv(o, ledger, requests) /\ LeftInv(o, ledger)
  BY <1>2, <1>3 DEF WaitInv, LeftInv, AtWork
<1>5. StageInv(o, world)
  BY <1>2, <1>3 DEF StageInv
<1>6. RoundInv(o, world, ledger, requests, log, evidence, queued)
  BY <1>3, <1>4, <1>5 DEF RoundInv, AskInv, FreshInv, NewsInv
<1> QED  BY <1>1, <1>3, <1>6, Quiet

LEMMA CorrectTradeStep == ASSUME FillInv, NEW x, CorrectTrade(x) PROVE FillInv'
<1>1. NoFileChanges /\ Reading(x) /\ Matched(x) /\ world.style = "trade" /\ x \in Group(x)
  BY DEF CorrectTrade, MayCorrect, Group
<1>2. \/ Unresolved(x, {x}) \/ Unresolved(x, Group(x))
      \/ Defer(Group(x)) /\ UNCHANGED requests
      \/ /\ \A p \in Group(x) \ {x} : Attributed(p)
         /\ Stage(Group(x), Correction(Seen, Fetched(x), "handler", fills))
  BY DEF CorrectTrade
<1>3. ASSUME \A p \in Group(x) \ {x} : Attributed(p),
             Stage(Group(x), Correction(Seen, Fetched(x), "handler", fills))
      PROVE  FillInv'
  <2> DEFINE fields == Correction(Seen, Fetched(x), "handler", fills)
  <2>1. fields.ids = Fetched(x) /\ IsCorrection(fields)
    BY DEF Correction, IsCorrection
  <2>2. RowIds(Seen) \subseteq {Entry, Exit}
    <3>1. Shape(ledger) /\ RowsInv(world, ledger) /\ round.seen \in 0 .. Len(ledger)
      BY DEF FillInv, ShapeInv
    <3>2. /\ DOMAIN Seen = 1 .. round.seen /\ 1 .. round.seen \subseteq DOMAIN ledger
          /\ \A k \in 1 .. round.seen : Seen[k] = ledger[k]
      BY <3>1, SeenRows DEF Seen
    <3> QED  BY <1>1, <3>1, <3>2 DEF RowIds, RowsInv
  <2>3. RowIds(Seen) \cap Orders = {}
    BY <2>2, FillAssumption
  <2>4. fields.ids \cap Orders \subseteq Group(x) /\ Group(x) \subseteq fields.ids
    BY <2>1, <2>3 DEF Fetched
  <2>5. \A p \in Group(x) : world.origin[p] # "foreign"
    BY <1>1, <1>3 DEF Attributed, Matched
  <2> HIDE DEF fields
  <2> QED  BY <1>1, <1>3, <2>1, <2>4, <2>5, StageStep DEF fields
<1> QED  BY <1>1, <1>2, <1>3, UnresolvedStep, DeferOrderStep

LEMMA CorrectSpotStep == ASSUME FillInv, NEW x, CorrectSpot(x) PROVE FillInv'
<1> DEFINE fields == [StrategyRow("spot_fill", {x}) EXCEPT !.by = "handler"]
<1>1. NoFileChanges /\ Reading(x) /\ Matched(x) /\ world.style = "spot" /\ Stage({x}, fields)
  BY DEF CorrectSpot, MayCorrect
<1>2. fields.ids = {x}
  BY DEF StrategyRow
<1>3. world.origin[x] # "foreign"
  BY <1>1 DEF Matched
<1> HIDE DEF fields
<1> QED  BY <1>1, <1>2, <1>3, StageStep

LEMMA FetchFillsFailsStep == ASSUME FillInv, NEW x, FetchFillsFails(x) PROVE FillInv'
<1>1. NoFileChanges /\ Reading(x) /\ (Unresolved(x, {x}) \/ Unresolved(x, Group(x))) /\ x \in Group(x)
  BY DEF FetchFillsFails, MayCorrect, Group
<1> QED  BY <1>1, UnresolvedStep

LEMMA PersistStep == ASSUME FillInv, Persist PROVE FillInv'
<1> DEFINE was == round
<1>1. was.pc = "persist" /\ UNCHANGED <<world, ledger, requests, log, queued>>
  BY DEF Persist, At, exchange, told
<1>2. CASE Defer(was.ids) /\ UNCHANGED evidence
  BY <1>1, <1>2, DeferStep DEF AtWork, Staged
<1>3. ASSUME NEW e, evidence' = Append(evidence, e),
             round' = [was EXCEPT !.pc = "recheck", !.path = Len(evidence) + 1]
      PROVE  FillInv'
  <2> DEFINE o == [was EXCEPT !.pc = "recheck", !.path = Len(evidence) + 1]
  <2>1. /\ DOMAIN o = DOMAIN IdleRound /\ o.pc = "recheck" /\ o.ids = was.ids /\ o.fields = was.fields
        /\ o.seen = was.seen /\ o.awaiting = was.awaiting /\ o.handled = was.handled /\ o.left = was.left
        /\ was.seen \in 0 .. Len(ledger) /\ WaitInv(was, ledger, requests) /\ LeftInv(was, ledger)
        /\ StageInv(was, world)
    BY Fields DEF RoundInv
  <2>2. Shape(evidence')
    BY <1>3, Growing DEF FillInv, ShapeInv
  <2>3. round' = o
    BY <1>3
  <2> HIDE DEF o, was
  <2>4. WaitInv(o, ledger, requests) /\ LeftInv(o, ledger) /\ StageInv(o, world)
    BY <1>1, <2>1 DEF WaitInv, LeftInv, StageInv, AtWork, Staged
  <2>5. RoundInv(o, world, ledger, requests, log, evidence', queued)
    BY <2>1, <2>4 DEF RoundInv, AskInv, FreshInv, NewsInv
  <2>6. ShapeInv'
    BY <1>1, <2>1, <2>2, <2>3 DEF FillInv, ShapeInv
  <2>7. OnlyOwnOrders' /\ WrittenOnce' /\ AnnouncedIsQueued'
    BY <1>1 DEF FillInv, OnlyOwnOrders, WrittenOnce, AnnouncedIsQueued, Written
  <2>8. RowsInv(world', ledger') /\ ToldInv(world', ledger', requests', log')
    BY <1>1 DEF FillInv
  <2>9. RoundInv(round', world', ledger', requests', log', evidence', queued')
    BY <1>1, <2>3, <2>5
  <2> QED  BY <2>6, <2>7, <2>8, <2>9 DEF FillInv
<1> QED  BY <1>2, <1>3 DEF Persist

\* Behind the second reading, nothing in the ledger and nothing announced is about the
\* orders in hand.
LEMMA RecheckStep == ASSUME FillInv, Recheck PROVE FillInv'
<1> DEFINE was == round
<1>1. was.pc = "recheck" /\ UNCHANGED <<world, ledger, requests, log, evidence, queued>>
  BY DEF Recheck, At, exchange, told, filesOfRound
<1>2. CASE Defer(was.ids)
  BY <1>1, <1>2, DeferStep DEF AtWork, Staged
<1>3. CASE was.ids \cap RecordedIds(ledger) = {} /\ Goto("append")
  <2> DEFINE o == [was EXCEPT !.pc = "append"]
  <2>1. /\ DOMAIN o = DOMAIN IdleRound /\ o.pc = "append" /\ o.ids = was.ids /\ o.fields = was.fields
        /\ o.seen = was.seen /\ o.awaiting = was.awaiting /\ o.handled = was.handled /\ o.left = was.left
        /\ was.seen \in 0 .. Len(ledger) /\ WaitInv(was, ledger, requests) /\ LeftInv(was, ledger)
        /\ StageInv(was, world)
    BY Fields DEF RoundInv
  <2>2. round' = o
    BY <1>3 DEF Goto
  <2> HIDE DEF o
  <2>3. WaitInv(o, ledger, requests) /\ LeftInv(o, ledger) /\ StageInv(o, world)
    BY <1>1, <2>1 DEF WaitInv, LeftInv, StageInv, AtWork, Staged
  <2>4. \A n \in DOMAIN ledger : ledger[n].ids \subseteq RecordedIds(ledger)
    BY RecordedAre
  <2>5. PICK x : x \in was.ids
    BY <1>1, <2>1 DEF StageInv, Staged
  <2>6. world.style # "trade" => ~TellsIds(log, was.ids)
    <3>1. ToldInv(world, ledger, requests, log)
      BY DEF FillInv
    <3> QED  BY <1>3, <2>5, <3>1 DEF ToldInv, TellsIds
  <2>7. FreshInv(o, world, ledger, log)
    BY <1>3, <2>1, <2>4, <2>6 DEF FreshInv
  <2>8. RoundInv(o, world, ledger, requests, log, evidence, queued)
    BY <2>1, <2>3, <2>7 DEF RoundInv, AskInv, NewsInv
  <2> QED  BY <1>1, <2>1, <2>2, <2>8, Quiet
<1> QED  BY <1>2, <1>3 DEF Recheck

-----------------------------------------------------------------------------
(* The rows of the ledger, and what is said of them.                        *)

LEMMA AppendCorrectionStep == ASSUME FillInv, AppendCorrection PROVE FillInv'
<1> DEFINE was == round
           row == was.fields
           o == [was EXCEPT !.pc = IF world.style = "trade" THEN "hook" ELSE "tell",
                            !.line = IF world.style = "trade" THEN Len(ledger) + 1 ELSE 0, !.wrote = TRUE]
<1>1. /\ was.pc = "append" /\ ledger' = Append(ledger, row) /\ round' = o
      /\ UNCHANGED <<world, requests, log, evidence, queued>>
  BY DEF AppendCorrection, AppendRow, At, exchange, told, filesOfRound
<1>2. /\ DOMAIN was = DOMAIN IdleRound /\ was.seen \in 0 .. Len(ledger) /\ Len(ledger) \in Nat
      /\ WaitInv(was, ledger, requests) /\ LeftInv(was, ledger) /\ StageInv(was, world)
      /\ FreshInv(was, world, ledger, log) /\ Shape(ledger)
  BY Fields DEF RoundInv, FillInv, ShapeInv
<1>3. /\ was.ids \subseteq row.ids /\ row.ids \cap Orders \subseteq was.ids
      /\ \A x \in row.ids \cap Orders : world.origin[x] # "foreign"
      /\ world.style = "trade" => IsCorrection(row)
  BY <1>1, <1>2 DEF StageInv, Staged
<1>4. /\ \A n \in Written : ledger[n].ids \cap row.ids \cap Orders = {}
      /\ world.style # "trade" => ~TellsIds(log, was.ids)
  BY <1>1, <1>2, <1>3 DEF FreshInv, Written
<1>5. /\ Shape(ledger') /\ RowsInv(world', ledger') /\ OnlyOwnOrders' /\ WrittenOnce' /\ AnnouncedIsQueued'
      /\ ToldInv(world, ledger', requests, log) /\ round.seen \in 0 .. Len(ledger')
  <2> HIDE DEF row, o
  <2> QED  BY <1>1, <1>3, <1>4, RowMore
<1>6. /\ SubSeq(ledger', 1, was.seen) = SubSeq(ledger, 1, was.seen)
      /\ row.ids \subseteq RecordedIds(ledger')
  <2> HIDE DEF row, o
  <2> QED  BY <1>1, <1>2, OneRowMore
<1>7. Len(ledger) + 1 \in DOMAIN ledger' /\ Len(ledger) + 1 \notin DOMAIN ledger
  <2> HIDE DEF row, o
  <2> QED  BY <1>1, <1>2, Growing
<1>8. world.style = "trade" => ~TellsLine(log, Len(ledger) + 1)
  BY <1>7 DEF FillInv, ToldInv, TellsLine
<1>9. /\ DOMAIN o = DOMAIN IdleRound /\ o.pc = (IF world.style = "trade" THEN "hook" ELSE "tell")
      /\ o.line = (IF world.style = "trade" THEN Len(ledger) + 1 ELSE 0) /\ o.ids = was.ids
      /\ o.seen = was.seen /\ o.awaiting = was.awaiting /\ o.handled = was.handled /\ o.left = was.left
  BY <1>2, Fields
<1> HIDE DEF o, row, was
<1>10. WaitInv(o, ledger', requests) /\ LeftInv(o, ledger')
  BY <1>1, <1>2, <1>6, <1>9 DEF WaitInv, LeftInv, AtWork, Staged
<1>11. NewsInv(o, world, ledger', log, evidence, queued)
  BY <1>3, <1>4, <1>6, <1>7, <1>8, <1>9 DEF NewsInv, News
<1>12. RoundInv(o, world, ledger', requests, log, evidence, queued)
  BY <1>9, <1>10, <1>11 DEF RoundInv, AskInv, StageInv, FreshInv, Staged
<1>13. ShapeInv'
  BY <1>1, <1>5, <1>9 DEF FillInv, ShapeInv, was
<1> QED  BY <1>1, <1>5, <1>12, <1>13 DEF FillInv

LEMMA AppendFailsStep == ASSUME FillInv, AppendFails PROVE FillInv'
<1> DEFINE was == round
           row == was.fields
<1>1. /\ was.pc = "append" /\ (ledger' = Append(ledger, row) \/ ledger' = ledger)
      /\ UNCHANGED <<world, log, evidence, queued>>
  BY DEF AppendFails, AppendRow, At, exchange, filesOfRound
<1>2. PICK x : First(x, was.left) /\ Ask(x, was.ids, was.path, TRUE)
  BY DEF AppendFails
<1>3. /\ was.seen \in 0 .. Len(ledger) /\ StageInv(was, world)
      /\ FreshInv(was, world, ledger, log) /\ Shape(ledger)
  BY Fields DEF RoundInv, FillInv, ShapeInv
<1>4. /\ row.ids \cap Orders \subseteq was.ids
      /\ \A p \in row.ids \cap Orders : world.origin[p] # "foreign"
      /\ world.style = "trade" => IsCorrection(row)
      /\ \E p \in was.ids : First(p, was.left) /\ p \notin was.handled \cup was.awaiting
  BY <1>1, <1>3 DEF StageInv, Staged
<1>5. \A n \in Written : ledger[n].ids \cap row.ids \cap Orders = {}
  BY <1>1, <1>3, <1>4 DEF FreshInv, Written
<1>6. x \in was.ids /\ x \in was.left /\ x \notin was.awaiting \cup was.handled
  <2>1. PICK p \in was.ids : First(p, was.left) /\ p \notin was.handled \cup was.awaiting
    BY <1>4
  <2>2. p = x
    BY <1>2, <2>1, SameFirst
  <2> QED  BY <2>1, <2>2 DEF First
<1>7. /\ Shape(ledger') /\ RowsInv(world', ledger') /\ OnlyOwnOrders' /\ WrittenOnce' /\ AnnouncedIsQueued'
      /\ ToldInv(world, ledger', requests, log) /\ round.seen \in 0 .. Len(ledger')
      /\ SubSeq(ledger', 1, round.seen) = SubSeq(ledger, 1, round.seen)
  <2>1. CASE ledger' = Append(ledger, row)
    <3>1. SubSeq(ledger', 1, was.seen) = SubSeq(ledger, 1, was.seen)
      BY <1>3, <2>1, OneRowMore
    <3> HIDE DEF row
    <3> QED  BY <1>1, <1>4, <1>5, <2>1, <3>1, RowMore
  <2>2. CASE ledger' = ledger
    BY <1>1, <2>2 DEF FillInv, ShapeInv, OnlyOwnOrders, WrittenOnce, AnnouncedIsQueued, Written
  <2> QED  BY <1>1, <2>1, <2>2
<1>8. was.pc \in AtWork \ {"ask"}
  BY <1>1 DEF AtWork, Staged
<1> QED  BY <1>1, <1>2, <1>6, <1>7, <1>8, AskStep

LEMMA HookStep == ASSUME FillInv, Hook PROVE FillInv'
<1> DEFINE was == round
<1>1. was.pc = "hook" /\ UNCHANGED <<world, ledger, requests, log, evidence>>
  BY DEF Hook, At, exchange, told
<1>2. /\ DOMAIN was = DOMAIN IdleRound /\ was.seen \in 0 .. Len(ledger)
      /\ WaitInv(was, ledger, requests) /\ LeftInv(was, ledger)
      /\ News(was, world, ledger, log, was.ids)
  BY <1>1, Fields DEF RoundInv, NewsInv
<1>3. CASE Goto("tell") /\ queued' = queued \cup {was.line}
  <2> DEFINE o == [was EXCEPT !.pc = "tell"]
  <2>1. round' = o
    BY <1>3 DEF Goto
  <2>2. /\ DOMAIN o = DOMAIN IdleRound /\ o.pc = "tell" /\ o.ids = was.ids /\ o.line = was.line
        /\ o.seen = was.seen /\ o.awaiting = was.awaiting /\ o.handled = was.handled /\ o.left = was.left
    BY <1>2, Fields
  <2> HIDE DEF o, was
  <2>3. WaitInv(o, ledger, requests) /\ LeftInv(o, ledger)
    BY <1>1, <1>2, <2>2 DEF WaitInv, LeftInv, AtWork, Staged
  <2>4. NewsInv(o, world, ledger, log, evidence, queued')
    BY <1>2, <1>3, <2>2 DEF NewsInv, News
  <2>5. RoundInv(o, world, ledger, requests, log, evidence, queued')
    BY <2>2, <2>3, <2>4 DEF RoundInv, AskInv, StageInv, FreshInv, Staged
  <2> QED  BY <1>1, <1>2, <1>3, <2>1, <2>2, <2>5, Queueing
<1>4. CASE round' = [was EXCEPT !.pc = "tell", !.failed = TRUE] /\ UNCHANGED queued
  <2> DEFINE o == [was EXCEPT !.pc = "tell", !.failed = TRUE]
  <2>1. round' = o
    BY <1>4
  <2>2. /\ DOMAIN o = DOMAIN IdleRound /\ o.pc = "tell" /\ o.ids = was.ids /\ o.line = was.line
        /\ o.failed
        /\ o.seen = was.seen /\ o.awaiting = was.awaiting /\ o.handled = was.handled /\ o.left = was.left
    BY <1>2, Fields
  <2> HIDE DEF o, was
  <2>3. WaitInv(o, ledger, requests) /\ LeftInv(o, ledger)
    BY <1>1, <1>2, <2>2 DEF WaitInv, LeftInv, AtWork, Staged
  <2>4. NewsInv(o, world, ledger, log, evidence, queued)
    BY <1>2, <2>2 DEF NewsInv, News
  <2>5. RoundInv(o, world, ledger, requests, log, evidence, queued)
    BY <2>2, <2>3, <2>4 DEF RoundInv, AskInv, StageInv, FreshInv, Staged
  <2> QED  BY <1>1, <1>2, <1>4, <2>1, <2>2, <2>5, Quiet
<1> QED  BY <1>3, <1>4 DEF Hook

LEMMA TellStep == ASSUME FillInv, Tell PROVE FillInv'
<1> DEFINE e == [code |-> "CORRECTED", line |-> round.line, request |-> 0, path |-> round.path,
                 ids |-> round.ids, failed |-> "CORRECTED" = "CORRECTED" /\ round.failed]
<1>1. /\ round.pc = "tell" /\ log' = Append(log, e) /\ Defer(round.ids)
      /\ UNCHANGED <<world, ledger, requests, evidence, queued>>
  BY DEF Tell, Report, At, exchange, filesOfRound
<1>2. /\ e.request = 0 /\ e.line = round.line /\ e.ids = round.ids
      /\ e.failed = ("CORRECTED" = "CORRECTED" /\ round.failed)
  OBVIOUS
<1> HIDE DEF e
<1>3. News(round, world, ledger, log, round.ids) /\ (round.line # 0 /\ ~round.failed => round.line \in queued)
  BY <1>1, Fields DEF RoundInv, NewsInv
<1>4. e.line # 0 /\ ~e.failed => e.line \in queued
  BY <1>2, <1>3, Zenon
<1>5. IF world.style = "trade" THEN e.line \in DOMAIN ledger /\ ~TellsLine(log, e.line)
                               ELSE e.ids \subseteq RecordedIds(ledger) /\ ~TellsIds(log, e.ids)
  BY <1>2, <1>3 DEF News
<1>6. /\ DOMAIN round' = DOMAIN IdleRound /\ round'.seen \in 0 .. Len(ledger)
      /\ RoundInv(round', world, ledger, requests, log', evidence, queued)
  BY <1>1, DeferInv DEF AtWork
<1>7. e.request \in DOMAIN requests \cup {0} /\ (e.request # 0 => ~Told(log, e.request))
  BY <1>2
<1> QED  BY <1>1, <1>4, <1>5, <1>6, <1>7, Logging

LEMMA TellRequestStep == ASSUME FillInv, TellRequest PROVE FillInv'
<1> DEFINE e == [code |-> "UNRESOLVED", line |-> 0, request |-> round.request, path |-> round.path,
                 ids |-> round.ids, failed |-> "UNRESOLVED" = "CORRECTED" /\ round.failed]
<1>1. /\ round.pc = "ask" /\ log' = Append(log, e) /\ Defer(round.ids)
      /\ UNCHANGED <<world, ledger, requests, evidence, queued>>
  BY DEF TellRequest, Report, At, exchange, filesOfRound
<1>2. e.request = round.request /\ e.line = 0 /\ e.code # "CORRECTED"
  OBVIOUS
<1> HIDE DEF e
<1>3. round.request \in DOMAIN requests /\ ~Told(log, round.request)
  BY <1>1, Fields DEF RoundInv, AskInv
<1>4. /\ DOMAIN round' = DOMAIN IdleRound /\ round'.seen \in 0 .. Len(ledger)
      /\ RoundInv(round', world, ledger, requests, log', evidence, queued)
  BY <1>1, DeferInv DEF AtWork
<1> QED  BY <1>1, <1>2, <1>3, <1>4, Logging

LEMMA DieStep == ASSUME FillInv, Die PROVE FillInv'
<1>1. round' = IdleRound /\ UNCHANGED <<world, ledger, requests, log, evidence, queued>>
  BY DEF Die, exchange, told, filesOfRound
<1>2. IdleRound.seen = 0 /\ 0 \in 0 .. Len(ledger)
  BY Fields DEF IdleRound
<1> QED  BY <1>1, <1>2, IdleInv, Quiet

-----------------------------------------------------------------------------
(* Everybody else.                                                          *)

\* A row of the strategy or of the operator.
LEMMA RowOfOthers ==
  ASSUME FillInv, NEW row, AppendRow(row), row.by # "handler",
         world.style = "trade" /\ ~IsCorrection(row) => row.ids \subseteq {Entry, Exit},
         UNCHANGED <<world, requests, log, evidence, queued, round>>
  PROVE  FillInv'
<1>1. ledger' = Append(ledger, row)
  BY DEF AppendRow
<1>2. /\ Shape(ledger') /\ RowsInv(world', ledger') /\ OnlyOwnOrders' /\ WrittenOnce' /\ AnnouncedIsQueued'
      /\ ToldInv(world, ledger', requests, log) /\ round.seen \in 0 .. Len(ledger')
  BY <1>1, RowMore
<1>3. /\ DOMAIN ledger = 1 .. Len(ledger) /\ Len(ledger) \in Nat
      /\ DOMAIN ledger' = 1 .. Len(ledger) + 1 /\ ledger'[Len(ledger) + 1] = row
      /\ \A n \in DOMAIN ledger : ledger'[n] = ledger[n]
  BY <1>1, Growing DEF FillInv, ShapeInv
<1>4. /\ SubSeq(ledger', 1, round.seen) = SubSeq(ledger, 1, round.seen)
      /\ RecordedIds(ledger) \subseteq RecordedIds(ledger')
  BY <1>1, OneRowMore DEF FillInv, ShapeInv
<1>5. RoundInv(round, world, ledger, requests, log, evidence, queued)
  BY Fields
<1>6. WaitInv(round, ledger', requests) /\ LeftInv(round, ledger')
  BY <1>4, <1>5 DEF RoundInv, WaitInv, LeftInv
<1>7. FreshInv(round, world, ledger', log)
  <2>1. \A n \in DOMAIN ledger' : n \in DOMAIN ledger \/ n = Len(ledger) + 1
    BY <1>3
  <2> QED  BY <1>3, <1>5, <2>1 DEF RoundInv, FreshInv
<1>8. NewsInv(round, world, ledger', log, evidence, queued)
  <2>1. DOMAIN ledger \subseteq DOMAIN ledger'
    BY <1>3
  <2> QED  BY <1>4, <1>5, <2>1 DEF RoundInv, NewsInv, News
<1>9. RoundInv(round, world, ledger', requests, log, evidence, queued)
  BY <1>5, <1>6, <1>7, <1>8 DEF RoundInv
<1>10. ShapeInv'
  BY <1>2 DEF FillInv, ShapeInv
<1> QED  BY <1>2, <1>9, <1>10 DEF FillInv

LEMMA OfStrategy ==
  ASSUME NEW type, NEW ids
  PROVE  /\ StrategyRow(type, ids).by = "strategy" /\ StrategyRow(type, ids).ids = ids
         /\ StrategyRow(type, ids).type = type
  BY DEF StrategyRow

LEMMA OthersStep == ASSUME FillInv, Others PROVE FillInv'
<1>1. ASSUME Adopt PROVE FillInv'
  <2> DEFINE row == StrategyRow("position_recovered", {})
  <2>1. AppendRow(row) /\ UNCHANGED <<world, requests, log, evidence, queued, round>>
    BY <1>1 DEF Adopt, Record, exchange, told, filesOfRound
  <2>2. row.by # "handler" /\ row.ids \subseteq {Entry, Exit}
    BY OfStrategy
  <2> HIDE DEF row
  <2> QED  BY <2>1, <2>2, RowOfOthers
<1>2. ASSUME RecordExit PROVE FillInv'
  <2> DEFINE row == StrategyRow(IF world.style = "spot" THEN "spot_fill" ELSE "trade_close", {Exit})
  <2>1. AppendRow(row) /\ UNCHANGED <<world, requests, log, evidence, queued, round>>
    BY <1>2 DEF RecordExit, Record, exchange, told, filesOfRound
  <2>2. row.by # "handler" /\ row.ids \subseteq {Entry, Exit}
    BY OfStrategy
  <2> HIDE DEF row
  <2> QED  BY <2>1, <2>2, RowOfOthers
<1>3. ASSUME CorrectByHand PROVE FillInv'
  <2>1. PICK S : AppendRow(Correction(ledger, S, "human", fills))
    BY <1>3 DEF CorrectByHand
  <2> DEFINE row == Correction(ledger, S, "human", fills)
  <2>2. row.by # "handler" /\ IsCorrection(row)
    BY DEF Correction, IsCorrection
  <2>3. UNCHANGED <<world, requests, log, evidence, queued, round>>
    BY <1>3 DEF CorrectByHand, exchange, told, filesOfRound
  <2> HIDE DEF row
  <2> QED  BY <2>1, <2>2, <2>3, RowOfOthers DEF row
<1>4. ASSUME RecordByHand PROVE FillInv'
  <2>1. PICK o : AppendRow([StrategyRow("spot_fill", {o}) EXCEPT !.by = "human"])
    BY <1>4 DEF RecordByHand
  <2> DEFINE row == [StrategyRow("spot_fill", {o}) EXCEPT !.by = "human"]
  <2>2. row.by # "handler"
    BY DEF StrategyRow
  <2>3. UNCHANGED <<world, requests, log, evidence, queued, round>> /\ world.style = "spot"
    BY <1>4 DEF RecordByHand, exchange, told, filesOfRound
  <2> HIDE DEF row
  <2> QED  BY <2>1, <2>2, <2>3, RowOfOthers DEF row
<1>5. ASSUME ResolveByHand PROVE FillInv'
  <2>1. PICK q \in DOMAIN requests : requests' = [requests EXCEPT ![q].status = "RESOLVED_HUMAN"]
    BY <1>5 DEF ResolveByHand
  <2>2. UNCHANGED <<world, ledger, log, evidence, queued, round>>
    BY <1>5 DEF ResolveByHand, exchange, filesOfRound
  <2>3. "RESOLVED_HUMAN" # "open"
    OBVIOUS
  <2> QED  BY <2>1, <2>2, <2>3, Fields, Closing
<1>6. ASSUME Fill \/ Tick \/ Fetch \/ Compare PROVE FillInv'
  <2>1. UNCHANGED <<world, ledger, requests, log, evidence, queued, round>>
    BY <1>6 DEF Fill, Tick, Fetch, Compare, exchange, told, filesOfRound
  <2> QED  BY <2>1, Fields, Quiet
<1> QED  BY <1>1, <1>2, <1>3, <1>4, <1>5, <1>6 DEF Others

LEMMA InitInv == Init => FillInv
<1> SUFFICES ASSUME Init PROVE FillInv
  OBVIOUS
<1>1. /\ world \in World /\ requests = <<>> /\ log = <<>> /\ evidence = <<>> /\ round = IdleRound
  BY FillAssumption DEF Init
<1>2. Shape(<<>>)
  <2>1. <<>> \in Seq({})
    OBVIOUS
  <2> QED  BY <2>1 DEF Shape
<1>3. /\ Shape(ledger) /\ Len(ledger) \in Nat
      /\ \A n \in DOMAIN ledger : ledger[n].by = "strategy" /\ ledger[n].ids \subseteq {Entry, Exit}
  <2> DEFINE own == StrategyRow(IF world.style = "spot" THEN "spot_fill" ELSE "trade_open", {Entry})
             rec == StrategyRow("position_recovered", {Entry})
             opn == StrategyRow("trade_open", {Entry})
             mrk == StrategyRow("position_reconciliation_pending", {})
  <2>1. ledger = (CASE world.record = "adopted" -> <<>>
                    [] world.record = "twin" -> <<rec, opn>>
                    [] OTHER -> <<own>>)
                 \o (IF world.marker THEN <<mrk>> ELSE <<>>)
    BY DEF Init
  <2>2. \A r \in {own, rec, opn, mrk} : r.by = "strategy" /\ r.ids \subseteq {Entry, Exit}
    BY OfStrategy
  <2> HIDE DEF own, rec, opn, mrk
  <2> DEFINE Rows == {own, rec, opn, mrk}
  <2>3. <<>> \in Seq(Rows) /\ <<mrk>> \in Seq(Rows) /\ <<own>> \in Seq(Rows) /\ <<rec, opn>> \in Seq(Rows)
    OBVIOUS
  <2>4. ledger \in Seq(Rows)
    <3> HIDE DEF Rows
    <3>1. (CASE world.record = "adopted" -> <<>> [] world.record = "twin" -> <<rec, opn>>
             [] OTHER -> <<own>>) \in Seq(Rows)
      BY <2>3
    <3>2. (IF world.marker THEN <<mrk>> ELSE <<>>) \in Seq(Rows)
      BY <2>3
    <3>3. \A s, t \in Seq(Rows) : s \o t \in Seq(Rows)
      OBVIOUS
    <3> QED  BY <2>1, <3>1, <3>2, <3>3
  <2>5. \A n \in DOMAIN ledger : ledger[n] \in Rows
    BY <2>4
  <2> QED  BY <2>2, <2>4, <2>5 DEF Shape
<1>4. ShapeInv
  BY <1>1, <1>2, <1>3 DEF ShapeInv, IdleRound
<1>5. RowsInv(world, ledger) /\ ToldInv(world, ledger, requests, log)
  BY <1>1, <1>3 DEF RowsInv, ToldInv
<1>6. OnlyOwnOrders /\ WrittenOnce /\ AnnouncedIsQueued
  <2>1. Written = {}
    BY <1>3 DEF Written
  <2> QED  BY <1>1, <2>1 DEF OnlyOwnOrders, WrittenOnce, AnnouncedIsQueued
<1> QED  BY <1>1, <1>4, <1>5, <1>6, IdleInv DEF FillInv

-----------------------------------------------------------------------------
(* A verdict RECONCILED, and what it says of the ledger since.              *)

\* Induction, for the numbers that have a property.
LEMMA Induction ==
  ASSUME NEW T, 0 \in T, \A n \in Nat : n \in T => n + 1 \in T
  PROVE  Nat \subseteq T
<1> SUFFICES ASSUME Nat \ T # {} PROVE FALSE
  OBVIOUS
<1>1. PICK m \in Nat \ T : \A k \in Nat \ T : ~ (<<k, m>> \in OpToRel(<, Nat))
  BY NatLessThanWellFounded, WFMin
<1>2. \A k \in Nat \ T : ~ (k < m)
  BY <1>1 DEF OpToRel
<1>3. m # 0 /\ m - 1 \in Nat /\ m - 1 < m /\ (m - 1) + 1 = m
  OBVIOUS
<1>4. m - 1 \in T
  BY <1>2, <1>3
<1> QED  BY <1>3, <1>4

\* What the rows up to n explain is what the rows before n explain, and what row n does.
RowByRow(by, fills1, lines) ==
  /\ by[0] = {}
  /\ \A n \in 1 .. Len(lines) : by[n] = by[n - 1] \cup ExplainedAt(n, fills1 \ by[n - 1], lines)

LEMMA ExplainedRowByRow ==
  ASSUME NEW fills1, NEW lines, Len(lines) \in Nat
  PROVE  \E by : RowByRow(by, fills1, lines) /\ Explained(fills1, lines) = by[Len(lines)]
<1> DEFINE Next1(by, n) == IF n = 0 THEN {} ELSE by[n - 1] \cup ExplainedAt(n, fills1 \ by[n - 1], lines)
           T == {m \in Nat : \E by : by = [n \in 0 .. m |-> Next1(by, n)]}
<1>1. 0 \in T
  <2> DEFINE by == [n \in 0 .. 0 |-> {}]
  <2>1. by = [n \in 0 .. 0 |-> Next1(by, n)]
    OBVIOUS
  <2> QED  BY <2>1
<1>2. ASSUME NEW m \in Nat, m \in T PROVE m + 1 \in T
  <2>1. PICK f : f = [n \in 0 .. m |-> Next1(f, n)]
    BY <1>2
  <2> DEFINE g == [n \in 0 .. m + 1 |-> IF n = m + 1 THEN Next1(f, n) ELSE f[n]]
  <2>2. \A n \in 0 .. m : g[n] = f[n]
    OBVIOUS
  <2>3. \A n \in 0 .. m + 1 : g[n] = Next1(f, n)
    <3> HIDE DEF Next1
    <3>1. \A n \in 0 .. m : f[n] = Next1(f, n)
      BY <2>1
    <3> QED  BY <3>1
  <2>4. \A n \in 0 .. m + 1 : Next1(g, n) = Next1(f, n)
    <3> HIDE DEF g
    <3>1. \A n \in 0 .. m + 1 : n # 0 => n - 1 \in 0 .. m
      OBVIOUS
    <3> QED  BY <2>2, <3>1
  <2>5. g = [n \in 0 .. m + 1 |-> Next1(g, n)]
    <3>1. g = [n \in 0 .. m + 1 |-> g[n]]
      OBVIOUS
    <3> HIDE DEF g, Next1
    <3> QED  BY <2>3, <2>4, <3>1
  <2>6. \E by : by = [n \in 0 .. m + 1 |-> Next1(by, n)]
    <3> HIDE DEF g, Next1
    <3> QED  BY <2>5, Zenon
  <2>7. m + 1 \in Nat
    OBVIOUS
  <2> HIDE DEF Next1
  <2> QED  BY <2>6, <2>7, Zenon
<1>3. Len(lines) \in T
  <2> HIDE DEF T
  <2> QED  BY <1>1, <1>2, Induction
<1> DEFINE upTo[n \in 0 .. Len(lines)] ==
             IF n = 0 THEN {} ELSE upTo[n - 1] \cup ExplainedAt(n, fills1 \ upTo[n - 1], lines)
<1>4. Explained(fills1, lines) = upTo[Len(lines)]
  BY DEF Explained
<1>5. upTo = [n \in 0 .. Len(lines) |->
                IF n = 0 THEN {} ELSE upTo[n - 1] \cup ExplainedAt(n, fills1 \ upTo[n - 1], lines)]
  <2>1. \E by : by = [n \in 0 .. Len(lines) |->
                        IF n = 0 THEN {} ELSE by[n - 1] \cup ExplainedAt(n, fills1 \ by[n - 1], lines)]
    BY <1>3
  <2> QED  BY <2>1, Zenon
<1> HIDE DEF upTo
<1>6. RowByRow(upTo, fills1, lines)
  <2>1. \A n \in 0 .. Len(lines) :
          upTo[n] = IF n = 0 THEN {} ELSE upTo[n - 1] \cup ExplainedAt(n, fills1 \ upTo[n - 1], lines)
    BY <1>5, Zenon
  <2>2. 0 \in 0 .. Len(lines) /\ \A n \in 1 .. Len(lines) : n \in 0 .. Len(lines) /\ n # 0
    OBVIOUS
  <2> QED  BY <2>1, <2>2, Zenon DEF RowByRow
<1> QED  BY <1>4, <1>6, Zenon

\* Each explained fill has a row of its own that it looks like.
LEMMA ExplainedOnce ==
  ASSUME NEW fills1, NEW lines, Shape(lines)
  PROVE  \E f \in [Explained(fills1, lines) -> Adoptions(lines)] :
           \A o, p \in Explained(fills1, lines) : StandsFor(lines[f[o]], o) /\ (f[o] = f[p] => o = p)
<1>1. Len(lines) \in Nat /\ DOMAIN lines = 1 .. Len(lines)
  BY DEF Shape
<1>2. PICK by : RowByRow(by, fills1, lines) /\ Explained(fills1, lines) = by[Len(lines)]
  BY <1>1, ExplainedRowByRow, Zenon
<1> DEFINE Rows(n) == {k \in Adoptions(lines) : k <= n}
           Once(n) == \E f \in [by[n] -> Rows(n)] :
                        \A o, p \in by[n] : StandsFor(lines[f[o]], o) /\ (f[o] = f[p] => o = p)
           T == {n \in Nat : n <= Len(lines) => Once(n)}
<1>3. 0 \in T
  <2>1. by[0] = {}
    BY <1>2 DEF RowByRow
  <2>2. [x \in {} |-> 0] \in [by[0] -> Rows(0)]
    BY <2>1
  <2>3. Once(0)
    BY <2>1, <2>2
  <2> QED  BY <2>3
<1>4. ASSUME NEW m \in Nat, m \in T PROVE m + 1 \in T
  <2> DEFINE n == m + 1
  <2> SUFFICES ASSUME n <= Len(lines) PROVE Once(n)
    OBVIOUS
  <2>1. n \in 1 .. Len(lines) /\ n - 1 = m /\ n \in Nat /\ m < n
    BY <1>1
  <2>2. PICK f \in [by[m] -> Rows(m)] : \A o, p \in by[m] : StandsFor(lines[f[o]], o) /\ (f[o] = f[p] => o = p)
    BY <1>1, <1>4
  <2> DEFINE more == ExplainedAt(n, fills1 \ by[m], lines)
  <2>3. by[n] = by[m] \cup more
    BY <1>2, <2>1 DEF RowByRow
  <2>4. /\ more # {} => n \in Adoptions(lines)
        /\ \A o \in more : o \notin by[m] /\ StandsFor(lines[n], o)
        /\ \A o, p \in more : o = p
    BY SameFirst DEF ExplainedAt
  <2>5. Rows(m) \subseteq Rows(n) /\ (n \in Adoptions(lines) => n \in Rows(n)) /\ n \notin Rows(m)
    BY <1>1, <2>1 DEF Adoptions
  <2> DEFINE g == [o \in by[n] |-> IF o \in more THEN n ELSE f[o]]
  <2> HIDE DEF more, n, Rows
  <2>6. g \in [by[n] -> Rows(n)]
    BY <2>2, <2>3, <2>4, <2>5
  <2>7. \A o \in by[n] : g[o] = IF o \in more THEN n ELSE f[o]
    OBVIOUS
  <2> HIDE DEF g
  <2>8. ASSUME NEW o \in by[n], NEW p \in by[n]
        PROVE  StandsFor(lines[g[o]], o) /\ (g[o] = g[p] => o = p)
    <3>1. CASE o \in more
      BY <2>2, <2>3, <2>4, <2>5, <2>7, <3>1
    <3>2. CASE o \notin more
      BY <2>2, <2>3, <2>4, <2>5, <2>7, <3>2
    <3> QED  BY <3>1, <3>2
  <2> QED  BY <2>6, <2>8
<1>5. Once(Len(lines))
  <2>1. Len(lines) \in T
    <3> HIDE DEF T
    <3> QED  BY <1>1, <1>3, <1>4, Induction
  <2> QED  BY <1>1, <2>1
<1>6. Rows(Len(lines)) = Adoptions(lines)
  BY <1>1 DEF Adoptions
<1> HIDE DEF Rows
<1> QED  BY <1>2, <1>5, <1>6

\* Nobody but the comparison changes the status, and everybody else appends at most.
LEMMA StatusOrLedger ==
  ASSUME Next
  PROVE  \/ Compare /\ UNCHANGED ledger
         \/ UNCHANGED status /\ (UNCHANGED ledger \/ \E row : ledger' = Append(ledger, row))
<1>1. CASE Start
  BY <1>1 DEF Start, audit
<1>2. CASE Die
  BY <1>2 DEF Die, audit
<1>3. CASE Others
  BY <1>3 DEF Others, Fill, Adopt, RecordExit, Tick, Fetch, Compare, CorrectByHand, RecordByHand,
              ResolveByHand, Record, AppendRow, audit
<1>4. CASE RoundStep
  <2>1. ASSUME NEW p, NothingToReplay(p) \/ Replay(p) \/ ReplayHookFails(p) PROVE UNCHANGED <<ledger, status>>
    BY <2>1 DEF NothingToReplay, Replay, ReplayHookFails, audit
  <2>2. ASSUME NEW o, \/ LeaveAlone(o) \/ LookUpFails(o) \/ NotADuplicate(o) \/ OneWritePerRound(o)
                      \/ CorrectTrade(o) \/ CorrectSpot(o) \/ FetchFillsFails(o)
        PROVE  UNCHANGED <<ledger, status>>
    BY <2>2 DEF LeaveAlone, LookUpFails, NotADuplicate, OneWritePerRound, CorrectTrade, CorrectSpot,
                FetchFillsFails, NoFileChanges, audit
  <2>3. CASE AppendCorrection \/ AppendFails
    BY <2>3 DEF AppendCorrection, AppendFails, AppendRow, audit
  <2>4. CASE \/ Announce \/ ListEvidence \/ Replayed \/ ListRequests \/ Withdraw \/ ListOrders \/ EndRound
             \/ Persist \/ Recheck \/ Hook \/ Tell \/ TellRequest
    BY <2>4 DEF Announce, ListEvidence, Replayed, ListRequests, Withdraw, ListOrders, EndRound,
                Persist, Recheck, Hook, Tell, TellRequest, audit
  <2> QED  BY <1>4, <2>1, <2>2, <2>3, <2>4 DEF RoundStep
<1> QED  BY <1>1, <1>2, <1>3, <1>4 DEF Next

LEMMA EarnedStep == ASSUME ShapeInv, ReconciledIsEarned, [Next]_vars PROVE ReconciledIsEarned'
<1> DEFINE loose == status.listed \ RecordedIds(ledger)
<1>1. Shape(ledger)
  BY DEF ShapeInv
<1>2. ASSUME UNCHANGED <<status, ledger>> PROVE ReconciledIsEarned'
  BY <1>2 DEF ReconciledIsEarned
<1>3. ASSUME Compare, UNCHANGED ledger PROVE ReconciledIsEarned'
  <2>1. /\ status'.value = Verdict(snap[1], ledger, waited = LookupGrace)
        /\ status'.listed = snap[1].listed
    BY <1>3 DEF Compare
  <2> SUFFICES ASSUME status'.value = "RECONCILED"
               PROVE  \E f \in [loose' -> Adoptions(ledger)] :
                        \A o, p \in loose' : StandsFor(ledger[f[o]], o) /\ (f[o] = f[p] => o = p)
    BY <1>3 DEF ReconciledIsEarned
  <2>2. Unmatched(snap[1], ledger) = {}
    BY <2>1 DEF Verdict, Differs
  <2> DEFINE known == Explained(loose', ledger)
  <2>3. loose' \subseteq known
    BY <1>3, <2>1, <2>2 DEF Unmatched
  <2>4. PICK f \in [known -> Adoptions(ledger)] :
          \A o, p \in known : StandsFor(ledger[f[o]], o) /\ (f[o] = f[p] => o = p)
    BY <1>1, ExplainedOnce
  <2> DEFINE g == [o \in loose' |-> f[o]]
  <2> HIDE DEF known, loose
  <2>5. g \in [loose' -> Adoptions(ledger)] /\ \A o \in loose' : g[o] = f[o]
    BY <2>3, <2>4
  <2> QED  BY <2>3, <2>4, <2>5
<1>4. ASSUME UNCHANGED status, NEW row, ledger' = Append(ledger, row) PROVE ReconciledIsEarned'
  <2>1. /\ DOMAIN ledger \subseteq DOMAIN ledger' /\ \A n \in DOMAIN ledger : ledger'[n] = ledger[n]
        /\ RecordedIds(ledger) \subseteq RecordedIds(ledger')
    <3>1. /\ DOMAIN ledger = 1 .. Len(ledger) /\ DOMAIN ledger' = 1 .. Len(ledger) + 1 /\ Len(ledger) \in Nat
          /\ \A n \in DOMAIN ledger : ledger'[n] = ledger[n]
      BY <1>1, <1>4, Growing
    <3>2. RecordedIds(ledger) \subseteq RecordedIds(ledger')
      <4>1. DOMAIN ledger \subseteq DOMAIN ledger'
        BY <3>1
      <4> QED  BY <3>1, <4>1, RecordedAre
    <3> QED  BY <3>1, <3>2
  <2> SUFFICES ASSUME status.value = "RECONCILED"
               PROVE  \E f \in [loose' -> Adoptions(ledger')] :
                        \A o, p \in loose' : StandsFor(ledger'[f[o]], o) /\ (f[o] = f[p] => o = p)
    BY <1>4 DEF ReconciledIsEarned
  <2>2. PICK f \in [loose -> Adoptions(ledger)] :
          \A o, p \in loose : StandsFor(ledger[f[o]], o) /\ (f[o] = f[p] => o = p)
    BY DEF ReconciledIsEarned
  <2>3. loose' \subseteq loose
    BY <1>4, <2>1
  <2>4. \A n \in Adoptions(ledger) : n \in Adoptions(ledger') /\ ledger'[n] = ledger[n]
    BY <2>1 DEF Adoptions
  <2> DEFINE g == [o \in loose' |-> f[o]]
  <2> HIDE DEF loose
  <2>5. g \in [loose' -> Adoptions(ledger')] /\ \A o \in loose' : g[o] = f[o] /\ f[o] \in Adoptions(ledger)
    BY <2>2, <2>3, <2>4
  <2> QED  BY <2>2, <2>3, <2>4, <2>5
<1>5. CASE UNCHANGED vars
  BY <1>2, <1>5 DEF vars
<1> QED  BY <1>2, <1>3, <1>4, <1>5, StatusOrLedger

-----------------------------------------------------------------------------
(* Every step, and what follows.                                            *)

LEMMA RoundStepInv == ASSUME FillInv, RoundStep PROVE FillInv'
<1>1. ASSUME NEW p, NothingToReplay(p) \/ Replay(p) \/ ReplayHookFails(p) PROVE FillInv'
  BY <1>1, NothingToReplayStep, ReplayStep, ReplayHookFailsStep
<1>2. ASSUME NEW o, \/ LeaveAlone(o) \/ LookUpFails(o) \/ NotADuplicate(o) \/ OneWritePerRound(o)
                    \/ CorrectTrade(o) \/ CorrectSpot(o) \/ FetchFillsFails(o)
      PROVE  FillInv'
  BY <1>2, LeaveAloneStep, LookUpFailsStep, NotADuplicateStep, OneWritePerRoundStep, CorrectTradeStep,
     CorrectSpotStep, FetchFillsFailsStep
<1> QED  BY <1>1, <1>2, AnnounceStep, ListEvidenceStep, ReplayedStep, ListRequestsStep, WithdrawStep,
            ListOrdersStep, EndRoundStep, PersistStep, RecheckStep, AppendCorrectionStep, AppendFailsStep,
            HookStep, TellStep, TellRequestStep DEF RoundStep

LEMMA NextInv == FillInv /\ [Next]_vars => FillInv'
<1> SUFFICES ASSUME FillInv, [Next]_vars PROVE FillInv'
  OBVIOUS
<1>1. ASSUME UNCHANGED vars PROVE FillInv'
  <2>1. UNCHANGED <<world, ledger, requests, log, evidence, queued, round>>
    BY <1>1 DEF vars
  <2> QED  BY <2>1, Fields, Quiet
<1> QED  BY <1>1, StartStep, RoundStepInv, DieStep, OthersStep DEF Next

\* What the rounds write, announce and wait for stays consistent, whatever is killed
\* and whoever works on the same files.
THEOREM FillInvariant == Spec => []FillInv
<1>1. Init => FillInv
  BY InitInv
<1>2. FillInv /\ [Next]_vars => FillInv'
  BY NextInv
<1> QED  BY <1>1, <1>2, PTL DEF Spec

\* A round writes no order that its clientOrderId does not prove to be the strategy's
\* own (_handle, _correct_trade and _correct_spot).
THEOREM ForeignOrdersAreLeftAlone == Spec => []OnlyOwnOrders
<1>1. FillInv => OnlyOwnOrders
  BY DEF FillInv
<1> QED  BY <1>1, FillInvariant, PTL

\* No two rows of the rounds account for the same order (the second reading of the
\* ledger in _correct_trade and _correct_spot, and the evidence of a killed round).
THEOREM NoOrderIsWrittenTwice == Spec => []WrittenOnce
<1>1. FillInv => WrittenOnce
  BY DEF FillInv
<1> QED  BY <1>1, FillInvariant, PTL

\* A correction is announced once, by the round that wrote it or by the one that makes
\* up for it, and so is a request (_replay_corrections, replay_unannounced_requests).
THEOREM NothingIsToldTwice == Spec => []ToldOnce
<1>1. FillInv => ToldOnce
  <2> SUFFICES ASSUME FillInv, NEW j \in DOMAIN log, NEW k \in DOMAIN log, j # k
               PROVE  /\ ~\E n \in Written : TellsRow(j, n) /\ TellsRow(k, n)
                      /\ log[j].request = log[k].request => log[j].request = 0
    BY DEF ToldOnce
  <2>1. /\ log[j].request = log[k].request => log[j].request = 0
        /\ log[j].code = "CORRECTED" /\ log[k].code = "CORRECTED" =>
             IF world.style = "trade" THEN log[j].line # log[k].line ELSE log[j].ids # log[k].ids
    BY DEF FillInv, ToldInv
  <2>2. ASSUME NEW n \in Written, TellsRow(j, n), TellsRow(k, n) PROVE FALSE
    BY <2>1, <2>2 DEF TellsRow
  <2> QED  BY <2>1, <2>2
<1> QED  BY <1>1, FillInvariant, PTL

\* An announcement that does not admit a failed hook stands for a projection that was
\* queued, also when the announcement was made up for (after_trade_correction).
THEOREM AnnouncementsAreBacked == Spec => []AnnouncedIsQueued
<1>1. FillInv => AnnouncedIsQueued
  BY DEF FillInv
<1> QED  BY <1>1, FillInvariant, PTL

\* Whatever is appended after a verdict RECONCILED, the fills it found without a row have
\* adopted positions that stand for them, one each (match_fills_to_adopted_events).
THEOREM ReconciliationIsEarned == Spec => []ReconciledIsEarned
<1>1. Init => ReconciledIsEarned
  BY DEF Init, ReconciledIsEarned
<1>2. ShapeInv /\ ReconciledIsEarned /\ [Next]_vars => ReconciledIsEarned'
  BY EarnedStep
<1>3. FillInv => ShapeInv
  BY DEF FillInv
<1> QED  BY <1>1, <1>2, <1>3, FillInvariant, PTL DEF Spec
=============================================================================
