-------------------------- MODULE RepairRunnerProofs --------------------------
(***************************************************************************)
(* One repair process for a strategy, which may die and start again at any *)
(* step, among operators, comparisons and late writers: what a round has   *)
(* read stays true of the trades it has not handled yet, so it writes no   *)
(* batch behind an earlier one and announces no request twice.             *)
(***************************************************************************)
EXTENDS RepairRunner, TLAPS

\* The rounds of a strategy do not overlap.
OneRound == \A r, s \in Rounds : r = s

InHand     == {"fetch", "write", "append"}
Between    == {"next", "queue", "report", "resolve", "escalate", "block", "supersede"}
AfterQueue == {"withdraw", "plan"} \cup Between \cup InHand

\* The trades a round may still handle.
Pending(o) == CASE o.pc \in {"read_log", "read_queue", "withdraw", "plan"} -> Trades \ o.closed
                [] o.pc \in Between -> o.cands
                [] o.pc \in InHand -> o.cands \cup {o.trade}
                [] OTHER -> {}

OpenIn(q)  == {k \in DOMAIN q : q[k].status = "open"}
Told(l, k) == \E n \in DOMAIN l : l[n].request = k

\* Of the requests of one trade the failure is the older one and there is one of each.
InOrder(ids, q) ==
  \A a, b \in ids : (a < b /\ q[a].trade = q[b].trade) => q[a].code = "FAILED" /\ q[b].code = "BLOCKED"

RequestsInv == InOrder(OpenIn(requests), requests)
LogInv      == \A n \in DOMAIN log : log[n].request \in DOMAIN requests \cup {0}

ReadsInv(o, q) == o.todo \subseteq DOMAIN q /\ o.open \subseteq DOMAIN q /\ InOrder(o.open, q)

\* What a round is about to announce has not been announced.
TellsInv(o, q, l) ==
  /\ o.pc = "announce" => \A k \in o.todo : ~Told(l, k)
  /\ o.pc \in {"escalate", "block"} => o.request \in DOMAIN q /\ ~Told(l, o.request)

\* A request of a trade that the round may still handle was open when it read the queue.
KnowsInv(o, q) ==
  o.pc \in AfterQueue => \A k \in OpenIn(q) : q[k].trade \in Pending(o) => k \in o.open

\* The trade in hand is not taken again, nobody was asked about it, what is to be written
\* is no second batch, and a request that is to be closed has been read.
HandInv(o, q) ==
  /\ o.pc \in InHand => /\ o.trade \notin o.cands
                        /\ \A k \in o.open : q[k].trade = o.trade => q[k].code = "FAILED"
  /\ o.pc \in {"write", "append"} => o.trade \notin o.traced
  /\ o.pc \in {"supersede", "resolve"} => \E k \in o.open : q[k].trade = o.trade

\* What the runner left in the ledger of a trade still to be handled, the round has read.
TraceInv(o, x) == \A t \in Pending(o) : "runner" \in x[t] => t \in o.traced

RoundInv(o, q, l, x) ==
  ReadsInv(o, q) /\ TellsInv(o, q, l) /\ KnowsInv(o, q) /\ HandInv(o, q) /\ TraceInv(o, x)

RepairInv ==
  /\ TypeOK /\ RequestsInv /\ LogInv /\ AnnouncedOnce
  /\ \A r \in Rounds : RoundInv(round[r], requests, log, trace)

-----------------------------------------------------------------------------
(* What the files' operations keep.                                         *)

LEMMA IdleInv ==
  ASSUME NEW q, NEW l, NEW x
  PROVE  RoundInv(IdleRound, q, l, x)
  BY DEF RoundInv, IdleRound, ReadsInv, TellsInv, KnowsInv, HandInv, TraceInv, Pending, InOrder,
         AfterQueue, Between, InHand

LEMMA IdleIsRound == IdleRound \in Round
  BY RepairAssumption DEF IdleRound, Round, Pcs, Codes

\* A request that is closed, by whomever.
LEMMA Closing ==
  ASSUME RepairInv, NEW k \in DOMAIN requests, NEW status \in Statuses \ {"open"},
         requests' = [requests EXCEPT ![k].status = status]
  PROVE  /\ requests' \in Seq(Request) /\ DOMAIN requests' = DOMAIN requests
         /\ InOrder(OpenIn(requests'), requests')
         /\ \A o \in Round : \A l, x : RoundInv(o, requests, l, x) => RoundInv(o, requests', l, x)
<1>1. requests \in Seq(Request) /\ RequestsInv
  BY DEF RepairInv, TypeOK
<1>2. requests' \in Seq(Request) /\ DOMAIN requests' = DOMAIN requests
  <2> DEFINE closed == [requests[k] EXCEPT !.status = status]
  <2>1. requests[k] \in Request
    BY <1>1
  <2>2. closed \in Request
    BY <2>1 DEF Request
  <2>3. requests' = [requests EXCEPT ![k] = closed]
    OBVIOUS
  <2> HIDE DEF closed
  <2> QED  BY <1>1, <2>2, <2>3
<1>3. \A n \in DOMAIN requests : /\ requests'[n].code = requests[n].code
                                 /\ requests'[n].trade = requests[n].trade
  BY <1>1, <1>2 DEF Request
<1>4. OpenIn(requests') \subseteq OpenIn(requests)
  BY <1>1, <1>2 DEF Request, OpenIn, Statuses
<1>5. OpenIn(requests) \subseteq DOMAIN requests
  BY DEF OpenIn
<1>6. InOrder(OpenIn(requests'), requests')
  BY <1>1, <1>3, <1>4, <1>5 DEF RequestsInv, InOrder
<1>7. ASSUME NEW o \in Round, NEW l, NEW x, RoundInv(o, requests, l, x)
      PROVE  RoundInv(o, requests', l, x)
  <2>1. ReadsInv(o, requests')
    BY <1>2, <1>3, <1>7 DEF RoundInv, ReadsInv, InOrder
  <2>2. TellsInv(o, requests', l)
    BY <1>2, <1>7 DEF RoundInv, TellsInv
  <2>3. KnowsInv(o, requests')
    BY <1>3, <1>4, <1>5, <1>7 DEF RoundInv, KnowsInv
  <2>4. HandInv(o, requests')
    BY <1>3, <1>7 DEF RoundInv, HandInv, ReadsInv
  <2> QED  BY <1>7, <2>1, <2>2, <2>3, <2>4 DEF RoundInv
<1> QED  BY <1>2, <1>6, <1>7

\* A request that is opened for a trade without an open one, or with a failure only.
LEMMA Opening ==
  ASSUME RepairInv, NEW c \in Codes, NEW t \in Trades,
         \A k \in OpenIn(requests) :
           requests[k].trade = t => requests[k].code = "FAILED" /\ c = "BLOCKED",
         requests' = Append(requests, [code |-> c, trade |-> t, status |-> "open"])
  PROVE  /\ requests' \in Seq(Request) /\ Len(requests) + 1 \in DOMAIN requests'
         /\ DOMAIN requests \subseteq DOMAIN requests'
         /\ InOrder(OpenIn(requests'), requests')
         /\ \A n \in DOMAIN requests : requests'[n] = requests[n]
         /\ \A n \in OpenIn(requests') :
              n \in OpenIn(requests) \/ (n = Len(requests) + 1 /\ requests'[n].trade = t)
         /\ ~Told(log, Len(requests) + 1)
<1>1. requests \in Seq(Request) /\ log \in Seq(Event) /\ RequestsInv /\ LogInv
  BY DEF RepairInv, TypeOK
<1>2. [code |-> c, trade |-> t, status |-> "open"] \in Request
  BY DEF Request, Statuses
<1>3. /\ requests' \in Seq(Request) /\ DOMAIN requests = 1 .. Len(requests)
      /\ DOMAIN requests' = 1 .. Len(requests) + 1 /\ Len(requests) \in Nat
      /\ \A n \in DOMAIN requests : requests'[n] = requests[n]
      /\ requests'[Len(requests) + 1] = [code |-> c, trade |-> t, status |-> "open"]
  BY <1>1, <1>2
<1>4. \A n \in OpenIn(requests') :
        n \in OpenIn(requests) \/ (n = Len(requests) + 1 /\ requests'[n].trade = t)
  BY <1>3 DEF OpenIn
<1>5. InOrder(OpenIn(requests'), requests')
  <2> SUFFICES ASSUME NEW a \in OpenIn(requests'), NEW b \in OpenIn(requests'), a < b,
                      requests'[a].trade = requests'[b].trade
               PROVE  requests'[a].code = "FAILED" /\ requests'[b].code = "BLOCKED"
    BY DEF InOrder
  <2>1. a \in DOMAIN requests' /\ b \in DOMAIN requests'
    BY DEF OpenIn
  <2>2. a \in OpenIn(requests)
    BY <1>3, <1>4, <2>1
  <2>3. a \in DOMAIN requests
    BY <2>2 DEF OpenIn
  <2>4. CASE b \in OpenIn(requests)
    BY <1>1, <1>3, <2>2, <2>3, <2>4 DEF RequestsInv, InOrder, OpenIn
  <2>5. CASE b = Len(requests) + 1
    BY <1>3, <2>2, <2>3, <2>5
  <2> QED  BY <1>4, <2>4, <2>5
<1>6. ~Told(log, Len(requests) + 1)
  BY <1>1, <1>3 DEF LogInv, Told
<1> QED  BY <1>3, <1>4, <1>5, <1>6

\* A line in the log that tells of a request the first time, or of none.
LEMMA Logging ==
  ASSUME RepairInv, NEW e \in Event, e.request \in DOMAIN requests \cup {0},
         e.request # 0 => ~Told(log, e.request), log' = Append(log, e),
         DOMAIN requests \subseteq DOMAIN requests'
  PROVE  /\ log' \in Seq(Event) /\ LogInv' /\ AnnouncedOnce'
         /\ \A k : Told(log', k) <=> Told(log, k) \/ k = e.request
<1>1. log \in Seq(Event) /\ LogInv /\ AnnouncedOnce
  BY DEF RepairInv, TypeOK
<1>2. /\ log' \in Seq(Event) /\ DOMAIN log = 1 .. Len(log) /\ DOMAIN log' = 1 .. Len(log) + 1
      /\ Len(log) \in Nat /\ log'[Len(log) + 1] = e /\ \A n \in DOMAIN log : log'[n] = log[n]
  BY <1>1
<1>3. LogInv'
  BY <1>1, <1>2 DEF LogInv
<1>4. AnnouncedOnce'
  BY <1>1, <1>2 DEF AnnouncedOnce, Told
<1>5. \A k : Told(log', k) <=> Told(log, k) \/ k = e.request
  BY <1>2 DEF Told
<1> QED  BY <1>2, <1>3, <1>4, <1>5

\* The request a round has read of a trade is the newest one it has read.
LEMMA RequestForIsRead ==
  ASSUME RepairInv, NEW r \in Rounds, NEW t
  PROVE  /\ RequestFor(r, t) = 0 => \A k \in round[r].open : requests[k].trade # t
         /\ RequestFor(r, t) # 0 => /\ RequestFor(r, t) \in round[r].open
                                    /\ requests[RequestFor(r, t)].trade = t
                                    /\ \A k \in round[r].open :
                                         requests[k].trade = t => k <= RequestFor(r, t)
<1> DEFINE mine == {q \in round[r].open : requests[q].trade = t}
<1>1. /\ mine \subseteq DOMAIN requests /\ DOMAIN requests \subseteq Nat \ {0}
      /\ InOrder(round[r].open, requests)
  BY DEF RepairInv, TypeOK, RoundInv, ReadsInv
<1>2. CASE mine = {}
  BY <1>2 DEF RequestFor
<1>3. CASE mine # {}
  <2>1. PICK a \in mine : TRUE
    BY <1>3
  <2>2. \E q \in mine : \A s \in mine : q >= s
    <3>1. CASE \A s \in mine : a >= s
      BY <2>1, <3>1
    <3>2. CASE \E b \in mine : b > a
      <4>1. PICK b \in mine : b > a
        BY <3>2
      <4>2. \A s \in mine : b >= s
        BY <1>1, <2>1, <4>1 DEF InOrder
      <4> QED  BY <4>2
    <3> QED  BY <1>1, <2>1, <3>1, <3>2
  <2>3. RequestFor(r, t) = CHOOSE q \in mine : \A s \in mine : q >= s
    BY <1>3 DEF RequestFor
  <2>4. RequestFor(r, t) \in mine /\ \A s \in mine : RequestFor(r, t) >= s
    BY <2>2, <2>3
  <2> QED  BY <1>1, <2>4
<1> QED  BY <1>2, <1>3

-----------------------------------------------------------------------------
(* The steps of a round.  With one process the others' rounds need no care.  *)

LEMMA Assemble ==
  ASSUME OneRound, RepairInv, NEW r \in Rounds, NEW o \in Round, round' = [round EXCEPT ![r] = o],
         closes' \in [Trades -> Seq({"runner", "other"})],
         trace' \in [Trades -> SUBSET {"runner", "other"}],
         queued' \subseteq Trades, diverged' \subseteq Symbols, faults' \in 0 .. MaxFaults,
         requests' \in Seq(Request), log' \in Seq(Event),
         InOrder(OpenIn(requests'), requests'), LogInv', AnnouncedOnce',
         RoundInv(o, requests', log', trace')
  PROVE  RepairInv'
<1>1. round' \in [Rounds -> Round] /\ round'[r] = o
  BY DEF RepairInv, TypeOK
<1>2. TypeOK'
  BY <1>1 DEF TypeOK
<1>3. \A s \in Rounds : RoundInv(round'[s], requests', log', trace')
  BY <1>1 DEF OneRound
<1>4. RequestsInv'
  BY DEF RequestsInv
<1> QED  BY <1>2, <1>3, <1>4 DEF RepairInv

\* A step that changes no file.
LEMMA Quiet ==
  ASSUME OneRound, RepairInv, NEW r \in Rounds, NEW o \in Round, round' = [round EXCEPT ![r] = o],
         UNCHANGED <<files, faults>>, RoundInv(o, requests, log, trace)
  PROVE  RepairInv'
<1>1. InOrder(OpenIn(requests'), requests') /\ LogInv' /\ AnnouncedOnce'
  BY DEF RepairInv, RequestsInv, files, LogInv, AnnouncedOnce
<1> QED
  <2> USE DEF files
  <2>1. /\ closes' \in [Trades -> Seq({"runner", "other"})]
        /\ trace' \in [Trades -> SUBSET {"runner", "other"}]
        /\ queued' \subseteq Trades /\ diverged' \subseteq Symbols /\ faults' \in 0 .. MaxFaults
        /\ requests' \in Seq(Request) /\ log' \in Seq(Event)
    BY DEF RepairInv, TypeOK
  <2>2. RoundInv(o, requests', log', trace')
    OBVIOUS
  <2> HIDE DEF files
  <2> QED  BY <1>1, <2>1, <2>2, Assemble

LEMMA StartStep ==
  ASSUME OneRound, RepairInv, NEW r \in Rounds, Start(r)
  PROVE  RepairInv'
<1> DEFINE o == [IdleRound EXCEPT !.pc = "replay"]
<1>1. o \in Round
  BY IdleIsRound DEF Round, Pcs
<1>2. RoundInv(o, requests, log, trace)
  BY DEF RoundInv, IdleRound, ReadsInv, TellsInv, KnowsInv, HandInv, TraceInv, Pending, InOrder,
         AfterQueue, Between, InHand
<1>3. round' = [round EXCEPT ![r] = o] /\ UNCHANGED <<files, faults>>
  BY DEF Start
<1> HIDE DEF o
<1> QED  BY <1>1, <1>2, <1>3, Quiet

LEMMA ReplayStep ==
  ASSUME OneRound, RepairInv, NEW r \in Rounds, Replay(r)
  PROVE  RepairInv'
<1> DEFINE was == round[r]
           ids == Unannounced(round[r].code)
           o   == [was EXCEPT !.pc = "announce", !.todo = ids]
<1>1. was \in Round /\ RoundInv(was, requests, log, trace) /\ requests \in Seq(Request)
  BY DEF RepairInv, TypeOK
<1>2. ids \subseteq DOMAIN requests /\ DOMAIN requests \subseteq Nat /\ \A k \in ids : ~Told(log, k)
  BY <1>1 DEF Unannounced, OpenIds, Announced, Told
<1>3. round' = [round EXCEPT ![r] = o] /\ UNCHANGED <<files, faults>>
  BY DEF Replay
<1> HIDE DEF was, ids
<1>4. o \in Round
  BY <1>1, <1>2 DEF Round, Pcs
<1>5. RoundInv(o, requests, log, trace)
  BY <1>1, <1>2 DEF RoundInv, Round, ReadsInv, TellsInv, KnowsInv, HandInv, TraceInv, Pending,
         AfterQueue, Between, InHand
<1> HIDE DEF o
<1> QED  BY <1>3, <1>4, <1>5, Quiet

LEMMA AnnounceStep ==
  ASSUME OneRound, RepairInv, NEW r \in Rounds, Announce(r)
  PROVE  RepairInv'
<1> DEFINE was == round[r]
<1>1. /\ was \in Round /\ RoundInv(was, requests, log, trace) /\ was.pc = "announce"
      /\ requests \in Seq(Request)
  BY DEF RepairInv, TypeOK, Announce, At
<1>2. /\ closes \in [Trades -> Seq({"runner", "other"})]
      /\ trace \in [Trades -> SUBSET {"runner", "other"}]
      /\ queued \subseteq Trades /\ diverged \subseteq Symbols /\ faults \in 0 .. MaxFaults
      /\ InOrder(OpenIn(requests), requests)
  BY DEF RepairInv, TypeOK, RequestsInv
<1>3. ASSUME NEW q \in was.todo,
             LogEvent(requests[q].code, requests[q].trade, requests[q].code = "FAILED", q),
             round' = [round EXCEPT ![r].todo = @ \ {q}],
             UNCHANGED <<closes, trace, queued, diverged, requests, faults>>
      PROVE  RepairInv'
  <2> DEFINE o == [was EXCEPT !.todo = @ \ {q}]
             e == [code |-> requests[q].code, trade |-> requests[q].trade,
                   escalated |-> requests[q].code = "FAILED", request |-> q]
  <2>1. q \in DOMAIN requests /\ q \in Nat /\ ~Told(log, q)
    BY <1>1 DEF RoundInv, ReadsInv, TellsInv
  <2>2. e \in Event
    <3>1. requests[q].code \in Codes \cup {"REPAIRED"} /\ requests[q].trade \in Trades
      <4> HIDE DEF e
      <4>1. requests[q] \in Request
        BY <1>1, <2>1
      <4> QED  BY <4>1 DEF Request
    <3>2. (requests[q].code = "FAILED") \in BOOLEAN
      OBVIOUS
    <3> QED  BY <2>1, <3>1, <3>2, Zenon DEF Event
  <2>3. e.request = q /\ log' = Append(log, e) /\ round' = [round EXCEPT ![r] = o]
    BY <1>3 DEF LogEvent
  <2> HIDE DEF e, was
  <2>4. /\ log' \in Seq(Event) /\ LogInv' /\ AnnouncedOnce'
        /\ \A k : Told(log', k) <=> Told(log, k) \/ k = q
    BY <1>3, <2>1, <2>2, <2>3, Logging
  <2>5. o \in Round
    BY <1>1 DEF Round
  <2>6. RoundInv(o, requests, log', trace)
    BY <1>1, <2>4 DEF RoundInv, Round, ReadsInv, TellsInv, KnowsInv, HandInv, TraceInv, Pending,
         AfterQueue, Between, InHand
  <2> HIDE DEF o
  <2> QED  BY <1>1, <1>2, <1>3, <2>3, <2>4, <2>5, <2>6, Assemble
<1>4. ASSUME round' = [round EXCEPT ![r].pc = IF round[r].code = "FAILED" THEN "replay" ELSE "read_ledger",
                                    ![r].code = "BLOCKED"],
             UNCHANGED <<files, faults>>
      PROVE  RepairInv'
  <2> DEFINE o == [was EXCEPT !.pc = IF was.code = "FAILED" THEN "replay" ELSE "read_ledger",
                              !.code = "BLOCKED"]
  <2>1. round' = [round EXCEPT ![r] = o]
    BY <1>4
  <2> HIDE DEF was
  <2>2. o \in Round
    BY <1>1 DEF Round, Pcs, Codes
  <2>3. RoundInv(o, requests, log, trace)
    BY <1>1 DEF RoundInv, Round, ReadsInv, TellsInv, KnowsInv, HandInv, TraceInv, Pending,
         AfterQueue, Between, InHand
  <2> HIDE DEF o
  <2> QED  BY <1>4, <2>1, <2>2, <2>3, Quiet
<1>5. \/ \E q \in was.todo :
            /\ LogEvent(requests[q].code, requests[q].trade, requests[q].code = "FAILED", q)
            /\ round' = [round EXCEPT ![r].todo = @ \ {q}]
            /\ UNCHANGED <<closes, trace, queued, diverged, requests, faults>>
      \/ /\ round' = [round EXCEPT ![r].pc = IF round[r].code = "FAILED" THEN "replay" ELSE "read_ledger",
                                   ![r].code = "BLOCKED"]
         /\ UNCHANGED <<files, faults>>
  BY DEF Announce, files
<1> QED  BY <1>3, <1>4, <1>5

LEMMA ReadLedgerStep ==
  ASSUME OneRound, RepairInv, NEW r \in Rounds, ReadLedger(r)
  PROVE  RepairInv'
<1> DEFINE was == round[r]
           traced == {t \in Trades : trace[t] # {}}
           closed == {t \in Trades : closes[t] # <<>>}
           o == [was EXCEPT !.pc = "read_log", !.traced = traced, !.closed = closed]
<1>1. was \in Round /\ RoundInv(was, requests, log, trace)
  BY DEF RepairInv, TypeOK
<1>2. traced \subseteq Trades /\ closed \subseteq Trades /\ \A t \in Trades : "runner" \in trace[t] => t \in traced
  OBVIOUS
<1>3. round' = [round EXCEPT ![r] = o] /\ UNCHANGED <<files, faults>>
  BY DEF ReadLedger
<1> HIDE DEF was, traced, closed
<1>4. o \in Round
  BY <1>1, <1>2 DEF Round, Pcs
<1>5. RoundInv(o, requests, log, trace)
  BY <1>1, <1>2 DEF RoundInv, Round, ReadsInv, TellsInv, KnowsInv, HandInv, TraceInv, Pending,
         AfterQueue, Between, InHand
<1> HIDE DEF o
<1> QED  BY <1>3, <1>4, <1>5, Quiet

LEMMA ReadLogStep ==
  ASSUME OneRound, RepairInv, NEW r \in Rounds, ReadLog(r)
  PROVE  RepairInv'
<1> DEFINE was == round[r]
           o == [was EXCEPT !.pc = "read_queue", !.events = Len(log)]
<1>1. /\ was \in Round /\ RoundInv(was, requests, log, trace) /\ was.pc = "read_log"
      /\ Len(log) \in Nat
  BY DEF RepairInv, TypeOK, ReadLog, At
<1>2. round' = [round EXCEPT ![r] = o] /\ UNCHANGED <<files, faults>>
  BY DEF ReadLog
<1> HIDE DEF was
<1>3. o \in Round
  BY <1>1 DEF Round, Pcs
<1>4. RoundInv(o, requests, log, trace)
  BY <1>1 DEF RoundInv, Round, ReadsInv, TellsInv, KnowsInv, HandInv, TraceInv, Pending,
         AfterQueue, Between, InHand
<1> HIDE DEF o
<1> QED  BY <1>2, <1>3, <1>4, Quiet

LEMMA ReadQueueStep ==
  ASSUME OneRound, RepairInv, NEW r \in Rounds, ReadQueue(r)
  PROVE  RepairInv'
<1> DEFINE was  == round[r]
           over == Overtaken(r)
           o == [was EXCEPT !.pc = "withdraw", !.open = OpenIds \ over, !.todo = over]
<1>1. /\ was \in Round /\ RoundInv(was, requests, log, trace) /\ was.pc = "read_queue"
      /\ requests \in Seq(Request) /\ InOrder(OpenIds, requests) /\ OpenIds = OpenIn(requests)
  BY DEF RepairInv, TypeOK, ReadQueue, At, RequestsInv, OpenIds, OpenIn
<1>2. /\ over \subseteq OpenIds /\ OpenIds \subseteq DOMAIN requests /\ DOMAIN requests \subseteq Nat
      /\ \A k \in OpenIds : k \in over <=> requests[k].trade \in was.closed
  BY <1>1 DEF Overtaken, OpenIds
<1>3. round' = [round EXCEPT ![r] = o] /\ UNCHANGED <<files, faults>>
  BY DEF ReadQueue
<1> HIDE DEF was, over
<1>4. o \in Round
  BY <1>1, <1>2 DEF Round, Pcs
<1>5. ReadsInv(o, requests)
  BY <1>1, <1>2 DEF ReadsInv, InOrder, Round
<1>6. KnowsInv(o, requests)
  <2>1. o.pc = "withdraw" /\ o.open = OpenIds \ over /\ o.closed = was.closed
    BY <1>1 DEF Round
  <2>2. Pending(o) = Trades \ was.closed
    BY <2>1 DEF Pending, Between, InHand
  <2> HIDE DEF o
  <2> QED  BY <1>1, <1>2, <2>1, <2>2 DEF KnowsInv
<1>7. TellsInv(o, requests, log) /\ HandInv(o, requests) /\ TraceInv(o, trace)
  BY <1>1, <1>2 DEF RoundInv, Round, TellsInv, HandInv, TraceInv, Pending, InHand, Between
<1>8. RoundInv(o, requests, log, trace)
  BY <1>5, <1>6, <1>7 DEF RoundInv
<1> HIDE DEF o
<1> QED  BY <1>3, <1>4, <1>8, Quiet

\* A request is closed, or the round ends where somebody else has closed it.
LEMMA CloseStep ==
  ASSUME OneRound, RepairInv, NEW r \in Rounds, NEW k \in DOMAIN requests, NEW next \in Round,
         NEW status \in Statuses \ {"open"}, CloseRequest(r, k, status, next),
         RoundInv(next, requests, log, trace),
         UNCHANGED <<closes, trace, queued, diverged, log, faults>>
  PROVE  RepairInv'
<1>1. /\ closes \in [Trades -> Seq({"runner", "other"})]
      /\ trace \in [Trades -> SUBSET {"runner", "other"}]
      /\ queued \subseteq Trades /\ diverged \subseteq Symbols /\ faults \in 0 .. MaxFaults
      /\ log \in Seq(Event) /\ LogInv /\ AnnouncedOnce
  BY DEF RepairInv, TypeOK
<1>2. CASE requests[k].status = "open"
  <2>1. requests' = [requests EXCEPT ![k].status = status] /\ round' = [round EXCEPT ![r] = next]
    BY <1>2 DEF CloseRequest
  <2>2. /\ requests' \in Seq(Request) /\ DOMAIN requests' = DOMAIN requests
        /\ InOrder(OpenIn(requests'), requests')
        /\ RoundInv(next, requests', log, trace)
    BY <2>1, Closing
  <2>3. LogInv' /\ AnnouncedOnce'
    BY <1>1, <2>2 DEF LogInv, AnnouncedOnce
  <2> QED  BY <1>1, <2>1, <2>2, <2>3, Assemble
<1>3. CASE requests[k].status # "open"
  <2>1. UNCHANGED <<files, faults>> /\ round' = [round EXCEPT ![r] = IdleRound]
    BY <1>3 DEF CloseRequest, files
  <2> QED  BY <2>1, IdleInv, IdleIsRound, Quiet
<1> QED  BY <1>2, <1>3

LEMMA WithdrawStep ==
  ASSUME OneRound, RepairInv, NEW r \in Rounds, Withdraw(r)
  PROVE  RepairInv'
<1> DEFINE was == round[r]
<1>1. was \in Round /\ RoundInv(was, requests, log, trace) /\ was.pc = "withdraw"
  BY DEF RepairInv, TypeOK, Withdraw, At
<1>2. CASE round[r].todo = {} /\ Goto(r, "plan") /\ UNCHANGED requests
  <2> DEFINE o == [was EXCEPT !.pc = "plan"]
  <2>1. round' = [round EXCEPT ![r] = o] /\ UNCHANGED <<files, faults>>
    BY <1>2 DEF Withdraw, Goto, files
  <2> HIDE DEF was
  <2>2. o \in Round
    BY <1>1 DEF Round, Pcs
  <2>3. RoundInv(o, requests, log, trace)
    BY <1>1 DEF RoundInv, Round, ReadsInv, TellsInv, KnowsInv, HandInv, TraceInv, Pending,
         AfterQueue, Between, InHand
  <2> HIDE DEF o
  <2> QED  BY <2>1, <2>2, <2>3, Quiet
<1>3. ASSUME NEW q \in was.todo,
             CloseRequest(r, q, "WITHDRAWN", [was EXCEPT !.todo = @ \ {q}])
      PROVE  RepairInv'
  <2> DEFINE o == [was EXCEPT !.todo = @ \ {q}]
  <2>1. UNCHANGED <<closes, trace, queued, diverged, log, faults>> /\ CloseRequest(r, q, "WITHDRAWN", o)
    BY <1>3 DEF Withdraw
  <2>2. q \in DOMAIN requests
    BY <1>1 DEF RoundInv, ReadsInv
  <2> HIDE DEF was
  <2>3. o \in Round
    BY <1>1 DEF Round, Pcs
  <2>4. RoundInv(o, requests, log, trace)
    BY <1>1 DEF RoundInv, Round, ReadsInv, TellsInv, KnowsInv, HandInv, TraceInv, Pending,
         AfterQueue, Between, InHand
  <2>5. "WITHDRAWN" \in Statuses \ {"open"}
    BY DEF Statuses
  <2> HIDE DEF o
  <2> QED  BY <2>1, <2>2, <2>3, <2>4, <2>5, CloseStep
<1> QED  BY <1>2, <1>3 DEF Withdraw

LEMMA PlanStep ==
  ASSUME OneRound, RepairInv, NEW r \in Rounds, Plan(r)
  PROVE  RepairInv'
<1> DEFINE was == round[r]
           cands == Candidates(r)
           o == [was EXCEPT !.pc = "next", !.cands = cands]
<1>1. was \in Round /\ RoundInv(was, requests, log, trace) /\ was.pc = "plan"
  BY DEF RepairInv, TypeOK, Plan, At
<1>2. round' = [round EXCEPT ![r] = o] /\ UNCHANGED <<files, faults>>
  BY DEF Plan
<1>3. cands \subseteq Trades \ was.closed
  <2> SUFFICES ASSUME NEW t \in cands PROVE t \in Trades \ was.closed
    OBVIOUS
  <2>1. t \in StillOpen(r, SymbolOf[t])
    BY DEF Candidates
  <2> QED  BY <2>1 DEF StillOpen
<1> HIDE DEF was, cands
<1>4. o \in Round
  BY <1>1, <1>3 DEF Round, Pcs
<1>5. RoundInv(o, requests, log, trace)
  BY <1>1, <1>3 DEF RoundInv, Round, ReadsInv, TellsInv, KnowsInv, HandInv, TraceInv, Pending,
         AfterQueue, Between, InHand
<1> HIDE DEF o
<1> QED  BY <1>2, <1>4, <1>5, Quiet

\* A candidate whose turn it is has no request, or only an older failure.
LEMMA TakeNextStep ==
  ASSUME OneRound, RepairInv, NEW r \in Rounds, TakeNext(r)
  PROVE  RepairInv'
<1> DEFINE was == round[r]
<1>1. /\ was \in Round /\ RoundInv(was, requests, log, trace) /\ was.pc = "next"
      /\ requests \in Seq(Request)
  BY DEF RepairInv, TypeOK, TakeNext, At
<1>2. PICK t \in was.cands :
        round' = [round EXCEPT ![r].cands = @ \ {t}, ![r].trade = t,
                     ![r].pc = IF Awaiting(r, t) \/ round[r].wrote THEN "next" ELSE "fetch"]
  BY DEF TakeNext
<1> DEFINE o == [was EXCEPT !.cands = @ \ {t}, !.trade = t,
                     !.pc = IF Awaiting(r, t) \/ was.wrote THEN "next" ELSE "fetch"]
<1>3. round' = [round EXCEPT ![r] = o] /\ UNCHANGED <<files, faults>>
  BY <1>2 DEF TakeNext
<1>4. ~Awaiting(r, t) => \A k \in was.open : requests[k].trade = t => requests[k].code = "FAILED"
  <2> SUFFICES ASSUME ~Awaiting(r, t), NEW k \in was.open, requests[k].trade = t
               PROVE  requests[k].code = "FAILED"
    OBVIOUS
  <2>1. /\ RequestFor(r, t) \in was.open /\ requests[RequestFor(r, t)].trade = t
        /\ k <= RequestFor(r, t) /\ RequestFor(r, t) # 0
    BY RequestForIsRead
  <2>2. was.open \subseteq DOMAIN requests /\ InOrder(was.open, requests)
    BY <1>1 DEF RoundInv, ReadsInv
  <2>3. requests[RequestFor(r, t)] \in Request
    BY <1>1, <2>1, <2>2
  <2>4. requests[RequestFor(r, t)].code = "FAILED"
    BY <2>1, <2>3 DEF Awaiting, Request, Codes
  <2> HIDE DEF was
  <2>5. k \in Nat /\ RequestFor(r, t) \in Nat
    BY <1>1, <2>1, <2>2
  <2> QED  BY <2>1, <2>2, <2>4, <2>5 DEF InOrder
<1> HIDE DEF was
<1>5. o \in Round
  BY <1>1, <1>2 DEF Round, Pcs
<1>6. RoundInv(o, requests, log, trace)
  BY <1>1, <1>2, <1>4 DEF RoundInv, Round, ReadsInv, TellsInv, KnowsInv, HandInv, TraceInv, Pending,
         AfterQueue, Between, InHand
<1> HIDE DEF o
<1> QED  BY <1>3, <1>5, <1>6, Quiet

LEMMA EndRoundStep ==
  ASSUME OneRound, RepairInv, NEW r \in Rounds, EndRound(r)
  PROVE  RepairInv'
<1>1. round' = [round EXCEPT ![r] = IdleRound] /\ UNCHANGED <<files, faults>>
  BY DEF EndRound
<1> QED  BY <1>1, IdleInv, IdleIsRound, Quiet

\* Opening a request for the trade in hand: none like it was open.
LEMMA AskStep ==
  ASSUME OneRound, RepairInv, NEW r \in Rounds, NEW c \in Codes, NEW q, NEW o \in Round,
         round[r].pc \in InHand,
         c = "FAILED" => RequestFor(r, round[r].trade) = 0,
         OpenRequest(c, round[r].trade, q), UNCHANGED log,
         round' = [round EXCEPT ![r] = o],
         o.pc \in {"escalate", "block"}, o.request = q, o.cands = round[r].cands,
         o.todo = round[r].todo, o.open = round[r].open, o.traced = round[r].traced,
         closes' \in [Trades -> Seq({"runner", "other"})],
         trace' \in [Trades -> SUBSET {"runner", "other"}],
         \A t \in Trades \ {round[r].trade} : trace'[t] = trace[t],
         UNCHANGED <<queued, diverged>>, faults' \in 0 .. MaxFaults
  PROVE  RepairInv'
<1> DEFINE was == round[r]
           t == was.trade
<1>1. /\ was \in Round /\ RoundInv(was, requests, log, trace) /\ was.pc \in InHand
      /\ requests \in Seq(Request) /\ log \in Seq(Event) /\ t \in Trades
      /\ queued \subseteq Trades /\ diverged \subseteq Symbols /\ LogInv /\ AnnouncedOnce
  BY DEF RepairInv, TypeOK, Round
<1>2. \A k \in OpenIn(requests) : requests[k].trade = t => k \in was.open
  BY <1>1 DEF RoundInv, KnowsInv, Pending, InHand, AfterQueue, Between
<1>3. \A k \in OpenIn(requests) : requests[k].trade = t => requests[k].code = "FAILED" /\ c = "BLOCKED"
  BY <1>1, <1>2, RequestForIsRead DEF RoundInv, HandInv, Codes
<1>4. OpenOf(c, t) = {}
  BY <1>3 DEF OpenOf, OpenIds, OpenIn
<1>5. q = Len(requests) + 1 /\ requests' = Append(requests, [code |-> c, trade |-> t, status |-> "open"])
  BY <1>4 DEF OpenRequest
<1> HIDE DEF t
<1>6. /\ requests' \in Seq(Request) /\ q \in DOMAIN requests'
      /\ DOMAIN requests \subseteq DOMAIN requests' /\ InOrder(OpenIn(requests'), requests')
      /\ \A n \in DOMAIN requests : requests'[n] = requests[n]
      /\ \A n \in OpenIn(requests') :
           n \in OpenIn(requests) \/ (n = Len(requests) + 1 /\ requests'[n].trade = t)
      /\ ~Told(log, q)
  BY <1>1, <1>3, <1>5, Opening
<1>7. LogInv' /\ AnnouncedOnce'
  BY <1>1, <1>6 DEF LogInv, AnnouncedOnce
<1>8. Pending(o) = was.cands /\ Pending(was) = was.cands \cup {t} /\ t \notin was.cands /\ was.cands \subseteq Trades
  BY <1>1 DEF Pending, Between, InHand, RoundInv, HandInv, t, Round
<1>9. ReadsInv(o, requests')
  BY <1>1, <1>6 DEF RoundInv, ReadsInv, InOrder
<1>10. TellsInv(o, requests', log)
  BY <1>6 DEF TellsInv
<1>11. KnowsInv(o, requests')
  <2>1. OpenIn(requests) \subseteq DOMAIN requests
    BY DEF OpenIn
  <2>2. was.pc \in AfterQueue
    BY <1>1 DEF AfterQueue
  <2> QED  BY <1>1, <1>6, <1>8, <2>1, <2>2 DEF RoundInv, KnowsInv
<1>12. HandInv(o, requests')
  BY DEF HandInv, InHand
<1>13. TraceInv(o, trace')
  BY <1>1, <1>8 DEF RoundInv, TraceInv, t
<1>14. RoundInv(o, requests', log', trace')
  BY <1>9, <1>10, <1>11, <1>12, <1>13 DEF RoundInv
<1>15. log' \in Seq(Event) /\ queued' \subseteq Trades /\ diverged' \subseteq Symbols
  BY <1>1
<1> QED  BY <1>6, <1>7, <1>14, <1>15, Assemble

LEMMA BlockStep ==
  ASSUME OneRound, RepairInv, NEW r \in Rounds, NEW wrote \in BOOLEAN, Block(r, wrote),
         round[r].pc \in InHand,
         closes' \in [Trades -> Seq({"runner", "other"})],
         trace' \in [Trades -> SUBSET {"runner", "other"}],
         \A t \in Trades \ {round[r].trade} : trace'[t] = trace[t],
         UNCHANGED <<queued, diverged>>, faults' \in 0 .. MaxFaults
  PROVE  RepairInv'
<1> DEFINE was == round[r]
<1>1. was \in Round /\ requests \in Seq(Request)
  BY DEF RepairInv, TypeOK
<1>2. PICK q \in 1 .. Len(requests) + 1 :
        /\ OpenRequest("BLOCKED", was.trade, q)
        /\ round' = [round EXCEPT ![r].pc = "block", ![r].request = q, ![r].wrote = wrote]
        /\ UNCHANGED log
  BY DEF Block
<1> DEFINE o == [was EXCEPT !.pc = "block", !.request = q, !.wrote = wrote]
<1>3. round' = [round EXCEPT ![r] = o]
  BY <1>2
<1>4. q \in Nat
  BY <1>1
<1>5. /\ o.pc \in {"escalate", "block"} /\ o.request = q /\ o.cands = was.cands
      /\ o.todo = was.todo /\ o.open = was.open /\ o.traced = was.traced /\ o \in Round
  <2> HIDE DEF was
  <2> QED  BY <1>1, <1>4 DEF Round, Pcs
<1>6. "BLOCKED" \in Codes
  BY DEF Codes
<1> HIDE DEF o
<1> QED  BY <1>2, <1>3, <1>5, <1>6, AskStep

LEMMA FailStep ==
  ASSUME OneRound, RepairInv, NEW r \in Rounds, NEW wrote \in BOOLEAN, Fail(r, wrote),
         round[r].pc \in InHand, UNCHANGED <<closes, trace, queued, diverged, faults>>
  PROVE  RepairInv'
<1> DEFINE was == round[r]
<1>1. /\ was \in Round /\ RoundInv(was, requests, log, trace) /\ was.pc \in InHand /\ was.trade \in Trades
      /\ requests \in Seq(Request)
      /\ closes \in [Trades -> Seq({"runner", "other"})]
      /\ trace \in [Trades -> SUBSET {"runner", "other"}]
      /\ queued \subseteq Trades /\ diverged \subseteq Symbols /\ faults \in 0 .. MaxFaults
      /\ InOrder(OpenIn(requests), requests)
  BY DEF RepairInv, TypeOK, RequestsInv, Round
<1> DEFINE next == [was EXCEPT !.pc = "next", !.wrote = wrote]
<1>2. next \in Round
  <2> HIDE DEF was
  <2> QED  BY <1>1 DEF Round, Pcs
<1>3. ASSUME NEW l, \A k : Told(l, k) => Told(log, k) \/ k = 0
      PROVE  RoundInv(next, requests, l, trace)
  <2> HIDE DEF was
  <2> QED  BY <1>1 DEF RoundInv, Round, ReadsInv, TellsInv, KnowsInv, HandInv, TraceInv, Pending,
               AfterQueue, Between, InHand
<1>4. CASE round' = [round EXCEPT ![r].pc = "next", ![r].wrote = wrote] /\ UNCHANGED <<requests, log>>
  <2>1. round' = [round EXCEPT ![r] = next] /\ UNCHANGED <<files, faults>>
    BY <1>4 DEF files
  <2>2. RoundInv(next, requests, log, trace)
    BY <1>3
  <2> HIDE DEF next
  <2> QED  BY <1>2, <2>1, <2>2, Quiet
<1>5. CASE /\ round' = [round EXCEPT ![r].pc = "next", ![r].wrote = wrote]
           /\ LogEvent("FAILED", was.trade, FALSE, 0) /\ UNCHANGED requests
  <2> DEFINE e == [code |-> "FAILED", trade |-> was.trade, escalated |-> FALSE, request |-> 0]
  <2>1. round' = [round EXCEPT ![r] = next] /\ log' = Append(log, e) /\ e.request = 0
    BY <1>5 DEF LogEvent
  <2>2. e \in Event
    BY <1>1 DEF Event, Codes
  <2> HIDE DEF e
  <2>3. log' \in Seq(Event) /\ LogInv' /\ AnnouncedOnce' /\ \A k : Told(log', k) <=> Told(log, k) \/ k = 0
    BY <1>5, <2>1, <2>2, Logging
  <2>4. RoundInv(next, requests, log', trace)
    BY <1>3, <2>3
  <2> HIDE DEF next
  <2> QED  BY <1>1, <1>2, <1>5, <2>1, <2>3, <2>4, Assemble
<1>6. ASSUME NEW q \in 1 .. Len(requests) + 1, RequestFor(r, was.trade) = 0,
             OpenRequest("FAILED", was.trade, q),
             round' = [round EXCEPT ![r].pc = "escalate", ![r].request = q, ![r].wrote = wrote],
             UNCHANGED log
      PROVE  RepairInv'
  <2> DEFINE o == [was EXCEPT !.pc = "escalate", !.request = q, !.wrote = wrote]
  <2>1. round' = [round EXCEPT ![r] = o]
    BY <1>6
  <2>2. q \in Nat
    BY <1>1
  <2>3. /\ o.pc \in {"escalate", "block"} /\ o.request = q /\ o.cands = was.cands
        /\ o.todo = was.todo /\ o.open = was.open /\ o.traced = was.traced /\ o \in Round
    <3> HIDE DEF was
    <3> QED  BY <1>1, <2>2 DEF Round, Pcs
  <2>4. "FAILED" \in Codes
    BY DEF Codes
  <2> HIDE DEF o, next
  <2> QED  BY <1>1, <1>6, <2>1, <2>3, <2>4, AskStep
<1>7. \/ round' = [round EXCEPT ![r].pc = "next", ![r].wrote = wrote] /\ UNCHANGED <<requests, log>>
      \/ /\ round' = [round EXCEPT ![r].pc = "next", ![r].wrote = wrote]
         /\ LogEvent("FAILED", was.trade, FALSE, 0) /\ UNCHANGED requests
      \/ \E q \in 1 .. Len(requests) + 1 :
           /\ RequestFor(r, was.trade) = 0 /\ OpenRequest("FAILED", was.trade, q)
           /\ round' = [round EXCEPT ![r].pc = "escalate", ![r].request = q, ![r].wrote = wrote]
           /\ UNCHANGED log
  BY DEF Fail
<1> QED  BY <1>4, <1>5, <1>6, <1>7

\* The round goes on to another step between two candidates and no file changes.
LEMMA MoveOn ==
  ASSUME OneRound, RepairInv, NEW r \in Rounds, NEW p \in {"next", "queue", "report"},
         round[r].pc \in Between \cup InHand, round' = [round EXCEPT ![r].pc = p],
         UNCHANGED <<closes, trace, requests, log>>,
         queued' \subseteq Trades, diverged' \subseteq Symbols, faults' \in 0 .. MaxFaults
  PROVE  RepairInv'
<1> DEFINE was == round[r]
           o == [was EXCEPT !.pc = p]
<1>1. /\ was \in Round /\ RoundInv(was, requests, log, trace) /\ was.pc \in Between \cup InHand
      /\ closes \in [Trades -> Seq({"runner", "other"})]
      /\ trace \in [Trades -> SUBSET {"runner", "other"}]
      /\ requests \in Seq(Request) /\ log \in Seq(Event)
      /\ InOrder(OpenIn(requests), requests) /\ LogInv /\ AnnouncedOnce
  BY DEF RepairInv, TypeOK, RequestsInv
<1>2. round' = [round EXCEPT ![r] = o]
  OBVIOUS
<1> HIDE DEF was
<1>3. o \in Round
  BY <1>1 DEF Round, Pcs, Between
<1>4. RoundInv(o, requests, log, trace)
  BY <1>1 DEF RoundInv, Round, ReadsInv, TellsInv, KnowsInv, HandInv, TraceInv, Pending,
         AfterQueue, Between, InHand
<1>5. LogInv' /\ AnnouncedOnce'
  BY <1>1 DEF LogInv, AnnouncedOnce
<1> HIDE DEF o
<1> QED  BY <1>1, <1>2, <1>3, <1>4, <1>5, Assemble

\* ... or one line is added to the log.
LEMMA TellStep ==
  ASSUME OneRound, RepairInv, NEW r \in Rounds, NEW p \in {"next", "supersede", "resolve"},
         p # "next" => \E k \in round[r].open : requests[k].trade = round[r].trade,
         round[r].pc \in Between, round' = [round EXCEPT ![r].pc = p],
         NEW e \in Event, e.request \in DOMAIN requests \cup {0},
         e.request # 0 => ~Told(log, e.request), log' = Append(log, e),
         UNCHANGED <<closes, trace, queued, diverged, requests, faults>>
  PROVE  RepairInv'
<1> DEFINE was == round[r]
           o == [was EXCEPT !.pc = p]
<1>1. /\ was \in Round /\ RoundInv(was, requests, log, trace) /\ was.pc \in Between
      /\ closes \in [Trades -> Seq({"runner", "other"})]
      /\ trace \in [Trades -> SUBSET {"runner", "other"}]
      /\ queued \subseteq Trades /\ diverged \subseteq Symbols /\ faults \in 0 .. MaxFaults
      /\ requests \in Seq(Request) /\ InOrder(OpenIn(requests), requests)
  BY DEF RepairInv, TypeOK, RequestsInv
<1>2. /\ round' = [round EXCEPT ![r] = o]
      /\ p # "next" => \E k \in was.open : requests[k].trade = was.trade
  OBVIOUS
<1> HIDE DEF was
<1>3. o \in Round
  BY <1>1 DEF Round, Pcs, Between
<1>4. RoundInv(o, requests, log', trace)
  BY <1>1, <1>2 DEF RoundInv, Round, ReadsInv, TellsInv, KnowsInv, HandInv, TraceInv, Pending,
         AfterQueue, Between, InHand
<1>5. log' \in Seq(Event) /\ LogInv' /\ AnnouncedOnce'
  BY Logging
<1> HIDE DEF o
<1> QED  BY <1>1, <1>2, <1>3, <1>4, <1>5, Assemble

LEMMA FetchStep ==
  ASSUME OneRound, RepairInv, NEW r \in Rounds, Fetch(r)
  PROVE  RepairInv'
<1> DEFINE was == round[r]
<1>1. /\ was \in Round /\ RoundInv(was, requests, log, trace) /\ was.pc = "fetch"
      /\ closes \in [Trades -> Seq({"runner", "other"})]
      /\ trace \in [Trades -> SUBSET {"runner", "other"}]
      /\ queued \subseteq Trades /\ diverged \subseteq Symbols
      /\ faults \in 0 .. MaxFaults /\ MaxFaults \in Nat
  BY RepairAssumption DEF RepairInv, TypeOK, Fetch, At
<1>2. UNCHANGED <<closes, trace, queued, diverged>>
  BY DEF Fetch
<1>3. was.pc \in InHand
  BY <1>1 DEF InHand
<1>4. \/ /\ faults > 0 /\ faults' = faults - 1 /\ Goto(r, "next") /\ UNCHANGED <<requests, log>>
      \/ faults' = faults /\ Block(r, FALSE)
      \/ /\ faults' = faults /\ was.trade \notin was.traced
         /\ Goto(r, "write") /\ UNCHANGED <<requests, log>>
      \/ faults' = faults /\ Fail(r, FALSE)
  BY DEF Fetch, Halts
<1>5. CASE /\ faults > 0 /\ faults' = faults - 1 /\ Goto(r, "next") /\ UNCHANGED <<requests, log>>
  <2>1. was.pc \in Between \cup InHand
    BY <1>1 DEF Between, InHand
  <2>2. faults' \in 0 .. MaxFaults /\ round' = [round EXCEPT ![r].pc = "next"]
    BY <1>1, <1>5 DEF Goto
  <2> QED  BY <1>1, <1>2, <1>5, <2>1, <2>2, MoveOn
<1>6. CASE faults' = faults /\ Block(r, FALSE)
  BY <1>1, <1>2, <1>3, <1>6, BlockStep
<1>7. CASE /\ faults' = faults /\ was.trade \notin was.traced
           /\ Goto(r, "write") /\ UNCHANGED <<requests, log>>
  <2> DEFINE o == [was EXCEPT !.pc = "write"]
  <2>1. round' = [round EXCEPT ![r] = o] /\ UNCHANGED <<files, faults>>
    BY <1>2, <1>7 DEF Goto, files
  <2> HIDE DEF was
  <2>2. o \in Round
    BY <1>1 DEF Round, Pcs
  <2>3. RoundInv(o, requests, log, trace)
    BY <1>1, <1>7 DEF RoundInv, Round, ReadsInv, TellsInv, KnowsInv, HandInv, TraceInv, Pending,
         AfterQueue, Between, InHand
  <2> HIDE DEF o
  <2> QED  BY <2>1, <2>2, <2>3, Quiet
<1>8. CASE faults' = faults /\ Fail(r, FALSE)
  BY <1>2, <1>3, <1>8, FailStep
<1> QED  BY <1>4, <1>5, <1>6, <1>7, <1>8

LEMMA EscalateStep ==
  ASSUME OneRound, RepairInv, NEW r \in Rounds, Escalate(r)
  PROVE  RepairInv'
<1> DEFINE was == round[r]
           e == [code |-> "FAILED", trade |-> was.trade, escalated |-> TRUE, request |-> was.request]
<1>1. was \in Round /\ RoundInv(was, requests, log, trace) /\ was.pc = "escalate"
  BY DEF RepairInv, TypeOK, Escalate, At
<1>2. /\ log' = Append(log, e) /\ round' = [round EXCEPT ![r].pc = "next"]
      /\ UNCHANGED <<closes, trace, queued, diverged, requests, faults>>
  BY DEF Escalate, LogEvent, Goto
<1>3. e \in Event /\ e.request = was.request
  BY <1>1 DEF Event, Codes, Round
<1>4. was.request \in DOMAIN requests /\ ~Told(log, was.request)
  BY <1>1 DEF RoundInv, TellsInv
<1>5. was.pc \in Between
  BY <1>1 DEF Between
<1> HIDE DEF e
<1> QED  BY <1>2, <1>3, <1>4, <1>5, TellStep

LEMMA BlockReportStep ==
  ASSUME OneRound, RepairInv, NEW r \in Rounds, BlockReport(r)
  PROVE  RepairInv'
<1> DEFINE was == round[r]
           p == IF RequestFor(r, was.trade) # 0 THEN "supersede" ELSE "next"
           e == [code |-> "BLOCKED", trade |-> was.trade, escalated |-> FALSE, request |-> was.request]
<1>1. was \in Round /\ RoundInv(was, requests, log, trace) /\ was.pc = "block"
  BY DEF RepairInv, TypeOK, BlockReport, At
<1>2. /\ log' = Append(log, e) /\ round' = [round EXCEPT ![r].pc = p]
      /\ UNCHANGED <<closes, trace, queued, diverged, requests, faults>>
  BY DEF BlockReport, LogEvent, Goto
<1>3. e \in Event /\ e.request = was.request
  BY <1>1 DEF Event, Codes, Round
<1>4. was.request \in DOMAIN requests /\ ~Told(log, was.request)
  BY <1>1 DEF RoundInv, TellsInv
<1>5. p \in {"next", "supersede"} /\ was.pc \in Between
  BY <1>1 DEF Between
<1>6. p # "next" => \E k \in was.open : requests[k].trade = was.trade
  BY RequestForIsRead
<1> HIDE DEF e, p
<1> QED  BY <1>2, <1>3, <1>4, <1>5, <1>6, TellStep

LEMMA ReportStep ==
  ASSUME OneRound, RepairInv, NEW r \in Rounds, Report(r)
  PROVE  RepairInv'
<1> DEFINE was == round[r]
           p == IF RequestFor(r, was.trade) # 0 THEN "resolve" ELSE "next"
           e == [code |-> "REPAIRED", trade |-> was.trade, escalated |-> FALSE, request |-> 0]
<1>1. was \in Round /\ was.pc = "report"
  BY DEF RepairInv, TypeOK, Report, At
<1>2. /\ log' = Append(log, e) /\ round' = [round EXCEPT ![r].pc = p]
      /\ UNCHANGED <<closes, trace, queued, diverged, requests, faults>>
  BY DEF Report, LogEvent, Goto
<1>3. e \in Event /\ e.request = 0
  BY <1>1 DEF Event, Codes, Round
<1>4. p \in {"next", "resolve"} /\ was.pc \in Between
  BY <1>1 DEF Between
<1>5. p # "next" => \E k \in was.open : requests[k].trade = was.trade
  BY RequestForIsRead
<1> HIDE DEF e, p
<1> QED  BY <1>2, <1>3, <1>4, <1>5, TellStep

\* Supersede and Resolve close the request the round has read of the trade.
LEMMA CloseOneStep ==
  ASSUME OneRound, RepairInv, NEW r \in Rounds, NEW status \in Statuses \ {"open"},
         round[r].pc \in {"supersede", "resolve"},
         CloseRequest(r, RequestFor(r, round[r].trade), status, [round[r] EXCEPT !.pc = "next"]),
         UNCHANGED <<closes, trace, queued, diverged, log, faults>>
  PROVE  RepairInv'
<1> DEFINE was == round[r]
           o == [was EXCEPT !.pc = "next"]
           k == RequestFor(r, was.trade)
<1>1. was \in Round /\ RoundInv(was, requests, log, trace) /\ was.pc \in {"supersede", "resolve"}
  BY DEF RepairInv, TypeOK
<1>2. k \in DOMAIN requests
  BY <1>1, RequestForIsRead DEF RoundInv, ReadsInv, HandInv
<1>3. CloseRequest(r, k, status, o)
  OBVIOUS
<1> HIDE DEF was, k
<1>4. o \in Round
  BY <1>1 DEF Round, Pcs
<1>5. RoundInv(o, requests, log, trace)
  BY <1>1 DEF RoundInv, Round, ReadsInv, TellsInv, KnowsInv, HandInv, TraceInv, Pending,
         AfterQueue, Between, InHand
<1> HIDE DEF o
<1> QED  BY <1>2, <1>3, <1>4, <1>5, CloseStep

LEMMA SupersedeStep ==
  ASSUME OneRound, RepairInv, NEW r \in Rounds, Supersede(r)
  PROVE  RepairInv'
<1>1. "SUPERSEDED" \in Statuses \ {"open"} /\ round[r].pc \in {"supersede", "resolve"}
  BY DEF Statuses, Supersede, At
<1> QED  BY <1>1, CloseOneStep DEF Supersede

LEMMA ResolveStep ==
  ASSUME OneRound, RepairInv, NEW r \in Rounds, Resolve(r)
  PROVE  RepairInv'
<1>1. "RESOLVED_AUTO" \in Statuses \ {"open"} /\ round[r].pc \in {"supersede", "resolve"}
  BY DEF Statuses, Resolve, At
<1> QED  BY <1>1, CloseOneStep DEF Resolve

LEMMA WriteStep ==
  ASSUME OneRound, RepairInv, NEW r \in Rounds, Write(r)
  PROVE  RepairInv'
<1> DEFINE was == round[r]
<1>1. /\ was \in Round /\ RoundInv(was, requests, log, trace) /\ was.pc = "write"
      /\ closes \in [Trades -> Seq({"runner", "other"})]
      /\ trace \in [Trades -> SUBSET {"runner", "other"}] /\ faults \in 0 .. MaxFaults
  BY DEF RepairInv, TypeOK, Write, At
<1>2. UNCHANGED <<closes, trace, queued, diverged, faults>>
  BY DEF Write
<1>3. was.pc \in InHand
  BY <1>1 DEF InHand
<1>4. CASE Fail(r, TRUE)
  BY <1>2, <1>3, <1>4, FailStep
<1>5. CASE Block(r, TRUE)
  BY <1>1, <1>2, <1>3, <1>5, BlockStep
<1>6. CASE /\ round' = [round EXCEPT ![r].pc = "append", ![r].wrote = TRUE]
           /\ UNCHANGED <<requests, log>>
  <2> DEFINE o == [was EXCEPT !.pc = "append", !.wrote = TRUE]
  <2>1. round' = [round EXCEPT ![r] = o] /\ UNCHANGED <<files, faults>>
    BY <1>2, <1>6 DEF files
  <2> HIDE DEF was
  <2>2. o \in Round
    BY <1>1 DEF Round, Pcs
  <2>3. RoundInv(o, requests, log, trace)
    BY <1>1 DEF RoundInv, Round, ReadsInv, TellsInv, KnowsInv, HandInv, TraceInv, Pending,
         AfterQueue, Between, InHand
  <2> HIDE DEF o
  <2> QED  BY <2>1, <2>2, <2>3, Quiet
<1> QED  BY <1>4, <1>5, <1>6 DEF Write

\* What an append, whole or broken off, leaves in the ledger of the trade in hand.
LEMMA Landing ==
  ASSUME RepairInv, NEW t \in Trades,
         \/ UNCHANGED <<closes, trace>>
         \/ LeaveTrace(t, "runner") /\ UNCHANGED closes
         \/ Land(t)
  PROVE  /\ closes' \in [Trades -> Seq({"runner", "other"})]
         /\ trace' \in [Trades -> SUBSET {"runner", "other"}]
         /\ \A s \in Trades \ {t} : trace'[s] = trace[s]
<1>1. /\ closes \in [Trades -> Seq({"runner", "other"})]
      /\ trace \in [Trades -> SUBSET {"runner", "other"}]
  BY DEF RepairInv, TypeOK
<1>2. Append(closes[t], "runner") \in Seq({"runner", "other"})
  BY <1>1
<1> QED  BY <1>1, <1>2 DEF LeaveTrace, Land

LEMMA AppendBatchStep ==
  ASSUME OneRound, RepairInv, NEW r \in Rounds, AppendBatch(r)
  PROVE  RepairInv'
<1> DEFINE was == round[r]
           o == [was EXCEPT !.pc = "queue"]
<1>1. /\ was \in Round /\ RoundInv(was, requests, log, trace) /\ was.pc = "append"
      /\ was.trade \in Trades /\ queued \subseteq Trades /\ diverged \subseteq Symbols
      /\ faults \in 0 .. MaxFaults /\ requests \in Seq(Request) /\ log \in Seq(Event)
      /\ InOrder(OpenIn(requests), requests) /\ LogInv /\ AnnouncedOnce
  BY DEF RepairInv, TypeOK, AppendBatch, At, Round, RequestsInv
<1>2. /\ closes' \in [Trades -> Seq({"runner", "other"})]
      /\ trace' \in [Trades -> SUBSET {"runner", "other"}]
      /\ \A s \in Trades \ {was.trade} : trace'[s] = trace[s]
  BY <1>1, Landing DEF AppendBatch
<1>3. round' = [round EXCEPT ![r] = o] /\ UNCHANGED <<queued, diverged, requests, log, faults>>
  BY DEF AppendBatch, Goto
<1> HIDE DEF was
<1>4. o \in Round
  BY <1>1 DEF Round, Pcs
<1>5. RoundInv(o, requests, log, trace')
  BY <1>1, <1>2 DEF RoundInv, Round, ReadsInv, TellsInv, KnowsInv, HandInv, TraceInv, Pending,
         AfterQueue, Between, InHand
<1>6. LogInv' /\ AnnouncedOnce'
  BY <1>1, <1>3 DEF LogInv, AnnouncedOnce
<1> HIDE DEF o
<1> QED  BY <1>1, <1>2, <1>3, <1>4, <1>5, <1>6, Assemble

LEMMA AppendFailsStep ==
  ASSUME OneRound, RepairInv, NEW r \in Rounds, AppendFails(r)
  PROVE  RepairInv'
<1> DEFINE was == round[r]
<1>1. /\ was \in Round /\ was.pc \in InHand /\ was.trade \in Trades
      /\ faults \in 0 .. MaxFaults /\ MaxFaults \in Nat
  BY RepairAssumption DEF RepairInv, TypeOK, AppendFails, At, Round, InHand
<1>2. /\ closes' \in [Trades -> Seq({"runner", "other"})]
      /\ trace' \in [Trades -> SUBSET {"runner", "other"}]
      /\ \A s \in Trades \ {was.trade} : trace'[s] = trace[s]
  BY <1>1, Landing DEF AppendFails
<1>3. UNCHANGED <<queued, diverged>> /\ faults' \in 0 .. MaxFaults
  BY <1>1 DEF AppendFails
<1>4. Block(r, TRUE)
  BY DEF AppendFails
<1> QED  BY <1>1, <1>2, <1>3, <1>4, BlockStep

LEMMA QueueProjectionStep ==
  ASSUME OneRound, RepairInv, NEW r \in Rounds, QueueProjection(r)
  PROVE  RepairInv'
<1>1. /\ round[r].pc = "queue" /\ round[r].trade \in Trades /\ queued \subseteq Trades
      /\ diverged \subseteq Symbols /\ faults \in 0 .. MaxFaults
  BY DEF RepairInv, TypeOK, QueueProjection, At, Round
<1>2. queued' \subseteq Trades /\ diverged' \subseteq Symbols /\ faults' \in 0 .. MaxFaults
  BY <1>1 DEF QueueProjection
<1>3. round[r].pc \in Between \cup InHand
  BY <1>1 DEF Between
<1> QED  BY <1>2, <1>3, MoveOn DEF QueueProjection, Goto

LEMMA DieStep ==
  ASSUME OneRound, RepairInv, NEW r \in Rounds, Die(r)
  PROVE  RepairInv'
<1>1. /\ round[r] \in Round /\ round[r].trade \in Trades
      /\ closes \in [Trades -> Seq({"runner", "other"})]
      /\ trace \in [Trades -> SUBSET {"runner", "other"}]
      /\ queued \subseteq Trades /\ diverged \subseteq Symbols
      /\ faults \in 0 .. MaxFaults /\ MaxFaults \in Nat
      /\ requests \in Seq(Request) /\ log \in Seq(Event)
      /\ InOrder(OpenIn(requests), requests) /\ LogInv /\ AnnouncedOnce
  BY RepairAssumption DEF RepairInv, TypeOK, Round, RequestsInv
<1>2. closes' \in [Trades -> Seq({"runner", "other"})] /\ trace' \in [Trades -> SUBSET {"runner", "other"}]
  BY <1>1, Landing DEF Die
<1>3. /\ round' = [round EXCEPT ![r] = IdleRound] /\ UNCHANGED <<queued, diverged, requests, log>>
      /\ faults' \in 0 .. MaxFaults
  BY <1>1 DEF Die
<1>4. LogInv' /\ AnnouncedOnce'
  BY <1>1, <1>3 DEF LogInv, AnnouncedOnce
<1>5. RoundInv(IdleRound, requests', log', trace')
  BY IdleInv
<1> QED  BY <1>1, <1>2, <1>3, <1>4, <1>5, IdleIsRound, Assemble

-----------------------------------------------------------------------------
(* The other writers.                                                       *)

\* They leave the rounds alone and write no trace in the runner's name.
LEMMA OthersStep ==
  ASSUME RepairInv, Compare \/ \E t \in Trades : RecordByHand(t) \/ CloseByOther(t)
  PROVE  RepairInv'
<1>1. /\ closes \in [Trades -> Seq({"runner", "other"})]
      /\ trace \in [Trades -> SUBSET {"runner", "other"}]
      /\ faults \in 0 .. MaxFaults /\ MaxFaults \in Nat
  BY RepairAssumption DEF RepairInv, TypeOK
<1>2. \A t \in Trades : Append(closes[t], "other") \in Seq({"runner", "other"})
  BY <1>1
<1>3. /\ UNCHANGED <<queued, requests, log, round>> /\ diverged' \subseteq Symbols
      /\ closes' \in [Trades -> Seq({"runner", "other"})]
      /\ trace' \in [Trades -> SUBSET {"runner", "other"}]
      /\ faults' \in 0 .. MaxFaults
      /\ \A t \in Trades : "runner" \in trace'[t] => "runner" \in trace[t]
  <2>1. queued \subseteq Trades /\ diverged \subseteq Symbols
    BY DEF RepairInv, TypeOK
  <2>2. CASE Compare
    BY <1>1, <2>1, <2>2 DEF Compare, Symbols
  <2>3. ASSUME NEW t \in Trades, RecordByHand(t)
        PROVE  /\ UNCHANGED <<closes, queued, diverged, requests, log, round>> /\ faults' \in 0 .. MaxFaults
               /\ trace' \in [Trades -> SUBSET {"runner", "other"}]
               /\ \A s \in Trades : "runner" \in trace'[s] => "runner" \in trace[s]
    BY <1>1, <2>3 DEF RecordByHand, OthersMayWrite, LeaveTrace
  <2>4. ASSUME NEW t \in Trades, CloseByOther(t)
        PROVE  /\ UNCHANGED <<trace, queued, diverged, requests, log, round>> /\ faults' \in 0 .. MaxFaults
               /\ closes' \in [Trades -> Seq({"runner", "other"})]
    BY <1>1, <1>2, <2>4 DEF CloseByOther, OthersMayWrite
  <2> QED  BY <1>1, <2>1, <2>2, <2>3, <2>4
<1>4. TypeOK'
  BY <1>3 DEF RepairInv, TypeOK
<1>5. RequestsInv' /\ LogInv' /\ AnnouncedOnce'
  BY <1>3 DEF RepairInv, RequestsInv, LogInv, AnnouncedOnce
<1>6. ASSUME NEW r \in Rounds
      PROVE  RoundInv(round'[r], requests', log', trace')
  <2> DEFINE was == round[r]
  <2>1. RoundInv(was, requests, log, trace) /\ was \in Round
    BY DEF RepairInv, TypeOK
  <2>2. round'[r] = was
    BY <1>3
  <2> HIDE DEF was
  <2>3. Pending(was) \subseteq Trades
    BY <2>1 DEF Pending, Round, Between, InHand
  <2>4. RoundInv(was, requests, log, trace')
    BY <1>3, <2>1, <2>3 DEF RoundInv, TraceInv
  <2> QED  BY <1>3, <2>2, <2>4
<1> QED  BY <1>4, <1>5, <1>6 DEF RepairInv

LEMMA ResolveByHandStep ==
  ASSUME RepairInv, NEW k \in DOMAIN requests, ResolveByHand(k)
  PROVE  RepairInv'
<1>1. "RESOLVED_HUMAN" \in Statuses \ {"open"}
  BY DEF Statuses
<1>2. /\ requests' = [requests EXCEPT ![k].status = "RESOLVED_HUMAN"]
      /\ UNCHANGED <<closes, trace, queued, diverged, log, round>> /\ faults' = faults - 1 /\ faults > 0
  BY DEF ResolveByHand
<1>3. /\ requests' \in Seq(Request) /\ DOMAIN requests' = DOMAIN requests
      /\ InOrder(OpenIn(requests'), requests')
      /\ \A o \in Round : \A l, x : RoundInv(o, requests, l, x) => RoundInv(o, requests', l, x)
  BY <1>1, <1>2, Closing
<1>4. TypeOK'
  BY <1>2, <1>3, RepairAssumption DEF RepairInv, TypeOK
<1>5. RequestsInv' /\ LogInv' /\ AnnouncedOnce'
  BY <1>2, <1>3 DEF RepairInv, RequestsInv, LogInv, AnnouncedOnce
<1>6. \A r \in Rounds : RoundInv(round'[r], requests', log', trace')
  BY <1>2, <1>3 DEF RepairInv, TypeOK
<1> QED  BY <1>4, <1>5, <1>6 DEF RepairInv

-----------------------------------------------------------------------------
(* The theorems.                                                            *)

LEMMA InitInv == Init => RepairInv
<1> SUFFICES ASSUME Init PROVE RepairInv
  OBVIOUS
<1>1. /\ closes = [t \in Trades |-> <<>>] /\ trace = [t \in Trades |-> {}] /\ queued = {} /\ diverged = {}
      /\ requests = <<>> /\ log = <<>> /\ round = [r \in Rounds |-> IdleRound] /\ faults = MaxFaults
  BY DEF Init
<1>2. TypeOK
  BY <1>1, IdleIsRound, RepairAssumption DEF TypeOK
<1>3. RequestsInv /\ LogInv /\ AnnouncedOnce
  BY <1>1 DEF RequestsInv, InOrder, OpenIn, LogInv, AnnouncedOnce
<1>4. \A r \in Rounds : RoundInv(round[r], requests, log, trace)
  BY <1>1, IdleInv
<1> QED  BY <1>2, <1>3, <1>4 DEF RepairInv

LEMMA NextInv ==
  ASSUME OneRound, RepairInv, [Next]_vars
  PROVE  RepairInv'
<1>1. ASSUME NEW r \in Rounds, Start(r) \/ Step(r) \/ AppendFails(r) \/ Die(r)
      PROVE  RepairInv'
  BY <1>1, StartStep, ReplayStep, AnnounceStep, ReadLedgerStep, ReadLogStep, ReadQueueStep,
     WithdrawStep, PlanStep, TakeNextStep, EndRoundStep, FetchStep, EscalateStep,
     BlockReportStep, SupersedeStep, WriteStep, AppendBatchStep, AppendFailsStep,
     QueueProjectionStep, ReportStep, ResolveStep, DieStep DEF Step
<1>2. CASE Compare \/ Others
  BY <1>2, OthersStep, ResolveByHandStep DEF Others
<1>3. CASE UNCHANGED vars
  <2>1. TypeOK' /\ RequestsInv' /\ LogInv' /\ AnnouncedOnce'
    BY <1>3 DEF RepairInv, TypeOK, RequestsInv, LogInv, AnnouncedOnce, vars
  <2>2. \A r \in Rounds : RoundInv(round'[r], requests', log', trace')
    BY <1>3 DEF RepairInv, vars
  <2> QED  BY <2>1, <2>2 DEF RepairInv
<1> QED  BY <1>1, <1>2, <1>3 DEF Next

\* With one repair process for a strategy (the timer does not start a second round while
\* one runs), RepairInv holds in every reachable state: what a round has read of the
\* ledger and the queue stays good for the trades it has not handled.
THEOREM RepairInvariant == ASSUME OneRound PROVE Spec => []RepairInv
<1>1. Init => RepairInv
  BY InitInv
<1>2. RepairInv /\ [Next]_vars => RepairInv'
  BY NextInv
<1> QED  BY <1>1, <1>2, PTL DEF Spec

\* AnnouncedOnce: the operator is told of a request at most once, wherever earlier rounds
\* died between opening it and announcing it.
THEOREM RequestsAreAnnouncedOnce == ASSUME OneRound PROVE Spec => []AnnouncedOnce
<1>1. RepairInv => AnnouncedOnce
  BY DEF RepairInv
<1> QED  BY <1>1, RepairInvariant, PTL

\* OneBatch: no batch of the runner lands behind another one of its own, whole or broken
\* off, whatever rounds died and whoever else wrote in the ledger meanwhile.
THEOREM NoSecondBatch == ASSUME OneRound PROVE Spec => OneBatch
<1> DEFINE Once == \A t \in Trades : closes'[t] = Append(closes[t], "runner") => "runner" \notin trace[t]
<1>1. ASSUME RepairInv, Next
      PROVE  Once
  <2>1. closes \in [Trades -> Seq({"runner", "other"})]
    BY <1>1 DEF RepairInv, TypeOK
  <2>2. \A t \in Trades : closes[t] # Append(closes[t], "runner")
    <3> SUFFICES ASSUME NEW t \in Trades PROVE closes[t] # Append(closes[t], "runner")
      OBVIOUS
    <3>1. Len(Append(closes[t], "runner")) = Len(closes[t]) + 1 /\ Len(closes[t]) \in Nat
      BY <2>1
    <3> QED  BY <3>1
  <2>3. \A t \in Trades : Append(closes[t], "other") # Append(closes[t], "runner")
    <3> SUFFICES ASSUME NEW t \in Trades
                 PROVE  Append(closes[t], "other") # Append(closes[t], "runner")
      OBVIOUS
    <3>1. /\ Append(closes[t], "other")[Len(closes[t]) + 1] = "other"
          /\ Append(closes[t], "runner")[Len(closes[t]) + 1] = "runner"
      BY <2>1
    <3> QED  BY <3>1
  <2>4. CASE UNCHANGED closes
    BY <2>2, <2>4
  <2>5. ASSUME NEW t \in Trades, CloseByOther(t)
        PROVE  Once
    BY <2>1, <2>2, <2>3, <2>5 DEF CloseByOther
  <2>6. ASSUME NEW r \in Rounds, At(r, "append"), Land(round[r].trade)
        PROVE  Once
    <3> DEFINE was == round[r]
    <3>1. was \in Round /\ RoundInv(was, requests, log, trace) /\ was.pc = "append"
      BY <1>1, <2>6 DEF RepairInv, TypeOK, At
    <3>2. was.trade \notin was.traced /\ was.trade \in Pending(was) /\ was.trade \in Trades
      BY <3>1 DEF RoundInv, HandInv, Pending, InHand, Between, Round
    <3>3. "runner" \notin trace[was.trade]
      BY <3>1, <3>2 DEF RoundInv, TraceInv
    <3>4. closes' = [closes EXCEPT ![was.trade] = Append(@, "runner")]
      BY <2>6 DEF Land
    <3> QED  BY <2>1, <2>2, <3>2, <3>3, <3>4
  <2>7. \/ UNCHANGED closes
        \/ \E t \in Trades : CloseByOther(t)
        \/ \E r \in Rounds : At(r, "append") /\ Land(round[r].trade)
    BY <1>1 DEF Next, Step, Others, Start, Replay, Announce, ReadLedger, ReadLog, ReadQueue, Withdraw,
       Plan, TakeNext, EndRound, Fetch, Escalate, BlockReport, Supersede, Write, AppendBatch,
       AppendFails, QueueProjection, Report, Resolve, Die, Compare, RecordByHand, ResolveByHand, files
  <2> QED  BY <2>4, <2>5, <2>6, <2>7
<1>2. RepairInv /\ [Next]_vars => [Once]_vars
  BY <1>1
<1>3. Spec => []RepairInv /\ [][Next]_vars
  BY RepairInvariant, PTL DEF Spec
<1>4. Spec => [][Once]_vars
  BY <1>2, <1>3, PTL
<1> QED  BY <1>4 DEF OneBatch
=============================================================================
