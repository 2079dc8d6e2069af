----------------------------- MODULE RepairRunner -----------------------------
(***************************************************************************)
(* The repair rounds that write missing closes into a strategy's ledger    *)
(* (src/src/trade_alerts/repair_runner.py with verified_close_backfill,    *)
(* notice_replay and atomic_ledger_append).                                *)
(*                                                                         *)
(* A timer starts a round.  It announces requests nobody was told about,   *)
(* reads the ledger, the event log and the request queue, withdraws        *)
(* requests the ledger has overtaken, and then takes the candidates in     *)
(* order: fetch evidence, write the close, or count a failure, or stop.    *)
(* Each append is atomic; the round may die between any two of them.       *)
(***************************************************************************)
EXTENDS Naturals, Sequences, FiniteSets

CONSTANTS
  Trades,         \* trades whose trade_open is in the ledger
  SymbolOf,       \* the symbol of a trade
  Order,          \* the trades in the order of their symbols
  Rounds,         \* repair processes of one strategy
  EscalateAfter,  \* catalog: failures in a row until a human is told
  Outcomes,       \* what fetching and assessing evidence can come to
  EvidenceFails,  \* trades whose evidence file can never be persisted
  MaxFaults       \* bound on deaths, failed writes and operators' actions

Symbols == {SymbolOf[t] : t \in Trades}

FetchOutcomes == {"still_open", "error", "unmappable", "ok"}

ASSUME RepairAssumption ==
  /\ Trades # {} /\ Order \in Seq(Trades) /\ \A t \in Trades : \E i \in DOMAIN Order : Order[i] = t
  /\ EscalateAfter \in Nat \ {0} /\ MaxFaults \in Nat
  /\ Outcomes \subseteq FetchOutcomes /\ EvidenceFails \subseteq Trades

VARIABLES
  closes,    \* closes[t]: who wrote the trade_close lines of t, in order
  trace,     \* trace[t]: who left lines of a reconciliation record of t
  queued,    \* the trades whose close was queued for the Google sheet
  diverged,  \* the symbols whose position ledger_status.json reports as different
  requests,  \* the request queue; a request is identified by its position
  log,       \* the fleet event log
  round,     \* round[r]: what the process r is doing and has read
  faults     \* faults left

vars == <<closes, trace, queued, diverged, requests, log, round, faults>>
files == <<closes, trace, queued, diverged, requests, log>>

Codes    == {"FAILED", "BLOCKED"}
Statuses == {"open", "RESOLVED_AUTO", "RESOLVED_HUMAN", "SUPERSEDED", "WITHDRAWN"}
Request  == [code : Codes, trade : Trades, status : Statuses]

\* request is 0 in an event that names none; only FAILED events can be escalated.
Event == [code : Codes \cup {"REPAIRED"}, trade : Trades, escalated : BOOLEAN, request : Nat]

Pcs == {"idle", "replay", "announce", "read_ledger", "read_log", "read_queue", "withdraw",
        "plan", "next", "fetch", "write", "append", "queue", "report", "resolve",
        "escalate", "block", "supersede"}
Round == [pc     : Pcs,
          code   : Codes,            \* the code being replayed
          todo   : SUBSET Nat,       \* requests to announce or to withdraw, the oldest first
          closed : SUBSET Trades,    \* ledger_events, as read
          traced : SUBSET Trades,    \* ... and its incident_traces
          events : Nat,              \* fleet_events: this much of the log
          open   : SUBSET Nat,       \* open_requests
          cands  : SUBSET Trades,    \* candidates left, to be taken in their order
          trade  : Trades,           \* the candidate in hand
          request: Nat,              \* the request just opened
          wrote  : BOOLEAN]          \* write_attempted
IdleRound == [pc |-> "idle", code |-> "FAILED", todo |-> {}, closed |-> {}, traced |-> {},
              events |-> 0, open |-> {}, cands |-> {}, trade |-> CHOOSE t \in Trades : TRUE,
              request |-> 0, wrote |-> FALSE]

-----------------------------------------------------------------------------
\* Definitions on the files.

OpenIds == {q \in DOMAIN requests : requests[q].status = "open"}
OpenOf(c, t) == {q \in OpenIds : requests[q].code = c /\ requests[q].trade = t}

\* announced_request_ids
Announced(q) == \E k \in DOMAIN log : log[k].request = q

\* _failures_since_last_escalation in the first n events.
FailuresIn(n, t) ==
  LET FailedAt(k)    == log[k].code = "FAILED" /\ log[k].trade = t
      EscalatedAt(k) == FailedAt(k) /\ log[k].escalated
  IN  Cardinality({k \in 1 .. n : FailedAt(k) /\ \A m \in k .. n : ~EscalatedAt(m)})

\* open_requests.get(trade_id): the newest of the open requests that were read.
RequestFor(r, t) ==
  LET mine == {q \in round[r].open : requests[q].trade = t}
  IN  IF mine = {} THEN 0 ELSE CHOOSE q \in mine : \A s \in mine : q >= s

Oldest(q, requestIds) == q \in requestIds /\ \A s \in requestIds : q <= s
First(t, trades) == \E i \in DOMAIN Order : /\ Order[i] = t /\ t \in trades
                                           /\ \A j \in 1 .. i - 1 : Order[j] \notin trades

At(r, pc) == round[r].pc = pc
Goto(r, pc) == round' = [round EXCEPT ![r].pc = pc]
LogEvent(c, t, escalated, q) ==
  log' = Append(log, [code |-> c, trade |-> t, escalated |-> escalated, request |-> q])

\* open_error_request: the position of the request that is open afterwards.
OpenRequest(c, t, q) ==
  IF OpenOf(c, t) # {} THEN q \in OpenOf(c, t) /\ UNCHANGED requests
  ELSE /\ q = Len(requests) + 1
       /\ requests' = Append(requests, [code |-> c, trade |-> t, status |-> "open"])

\* record_request_outcome raises when somebody closed the request meanwhile; the
\* round ends there.
CloseRequest(r, q, status, next) ==
  IF requests[q].status = "open"
    THEN requests' = [requests EXCEPT ![q].status = status] /\ round' = [round EXCEPT ![r] = next]
    ELSE UNCHANGED requests /\ round' = [round EXCEPT ![r] = IdleRound]

-----------------------------------------------------------------------------
Init ==
  /\ closes = [t \in Trades |-> <<>>] /\ trace = [t \in Trades |-> {}] /\ queued = {} /\ diverged = {}
  /\ requests = <<>> /\ log = <<>> /\ round = [r \in Rounds |-> IdleRound]
  /\ faults = MaxFaults

\* The timer starts a round that is not paused; a paused one changes nothing here.
Start(r) ==
  /\ At(r, "idle")
  /\ round' = [round EXCEPT ![r] = [IdleRound EXCEPT !.pc = "replay"]]
  /\ UNCHANGED <<files, faults>>

\* Mutant of Unannounced: the announced ones too.
AnyOpen(c) == {q \in OpenIds : requests[q].code = c}

Unannounced(c) == {q \in OpenIds : requests[q].code = c /\ ~Announced(q)}

\* replay_unannounced_requests, first for one code and then for the other.
Replay(r) ==
  /\ At(r, "replay")
  /\ round' = [round EXCEPT ![r].pc = "announce",
                            ![r].todo = Unannounced(round[r].code)]
  /\ UNCHANGED <<files, faults>>

Announce(r) ==
  /\ At(r, "announce")
  /\ \/ \E q \in round[r].todo :
            /\ Oldest(q, round[r].todo)
            /\ LogEvent(requests[q].code, requests[q].trade, requests[q].code = "FAILED", q)
            /\ round' = [round EXCEPT ![r].todo = @ \ {q}]
     \/ /\ round[r].todo = {}
        /\ round' = [round EXCEPT ![r].pc = IF round[r].code = "FAILED" THEN "replay" ELSE "read_ledger",
                                  ![r].code = "BLOCKED"]
        /\ UNCHANGED log
  /\ UNCHANGED <<closes, trace, queued, diverged, requests, faults>>

\* read_ledger
ReadLedger(r) ==
  /\ At(r, "read_ledger")
  /\ round' = [round EXCEPT ![r].pc = "read_log", ![r].traced = {t \in Trades : trace[t] # {}},
                            ![r].closed = {t \in Trades : closes[t] # <<>>}]
  /\ UNCHANGED <<files, faults>>

\* read_fleet_events
ReadLog(r) ==
  /\ At(r, "read_log")
  /\ round' = [round EXCEPT ![r].pc = "read_queue", ![r].events = Len(log)]
  /\ UNCHANGED <<files, faults>>

\* Mutant of Overtaken: a blocked request is kept whatever the ledger says.
OvertakenFailures(r) ==
  {q \in OpenIds : requests[q].trade \in round[r].closed /\ requests[q].code = "FAILED"}

Overtaken(r) == {q \in OpenIds : requests[q].trade \in round[r].closed}

\* _close_overtaken_requests: the queue is read, then each request closed.
ReadQueue(r) ==
  /\ At(r, "read_queue")
  /\ round' = [round EXCEPT ![r].pc = "withdraw",
                            ![r].open = OpenIds \ Overtaken(r),
                            ![r].todo = Overtaken(r)]
  /\ UNCHANGED <<files, faults>>

Withdraw(r) ==
  /\ At(r, "withdraw")
  /\ \/ round[r].todo = {} /\ Goto(r, "plan") /\ UNCHANGED requests
     \/ \E q \in round[r].todo :
          /\ Oldest(q, round[r].todo)
          /\ CloseRequest(r, q, "WITHDRAWN", [round[r] EXCEPT !.todo = @ \ {q}])
  /\ UNCHANGED <<closes, trace, queued, diverged, log, faults>>

\* The trades of a symbol that the round takes to be open.
StillOpen(r, s) == {t \in Trades \ round[r].closed : SymbolOf[t] = s}

\* Mutant of Candidates: several missing closes at a time are left to a human.
CandidatesUnlessSeveral(r) ==
  LET cands == {t \in Trades : SymbolOf[t] \in diverged /\ StillOpen(r, SymbolOf[t]) = {t}}
  IN  IF Cardinality(cands) > 1 THEN {} ELSE cands

\* detect_repair_candidates: of a symbol that differs, its trade that is still open; a
\* symbol with several of them is skipped, nobody guesses which one it is.
Candidates(r) == {t \in Trades : SymbolOf[t] \in diverged /\ StillOpen(r, SymbolOf[t]) = {t}}

\* The candidates of the status document and the ledger as it was read.
Plan(r) ==
  /\ At(r, "plan")
  /\ round' = [round EXCEPT ![r].pc = "next", ![r].cands = Candidates(r)]
  /\ UNCHANGED <<files, faults>>

Awaiting(r, t) == RequestFor(r, t) # 0 /\ requests[RequestFor(r, t)].code = "BLOCKED"

\* The next candidate waits for a human or for another round, or it is its turn.
TakeNext(r) ==
  /\ At(r, "next")
  /\ \E t \in round[r].cands :
       /\ First(t, round[r].cands)
       /\ round' = [round EXCEPT ![r].cands = @ \ {t}, ![r].trade = t,
                      ![r].pc = IF Awaiting(r, t) \/ round[r].wrote THEN "next" ELSE "fetch"]
  /\ UNCHANGED <<files, faults>>

EndRound(r) ==
  /\ At(r, "next") /\ round[r].cands = {}
  /\ round' = [round EXCEPT ![r] = IdleRound]
  /\ UNCHANGED <<files, faults>>

\* _fail: silent once escalated; else a counted failure, or the request that escalates.
Fail(r, wrote) ==
  LET t == round[r].trade
  IN  CASE RequestFor(r, t) # 0 ->
             /\ round' = [round EXCEPT ![r].pc = "next", ![r].wrote = wrote]
             /\ UNCHANGED <<requests, log>>
        [] RequestFor(r, t) = 0 /\ FailuresIn(round[r].events, t) + 1 < EscalateAfter ->
             /\ round' = [round EXCEPT ![r].pc = "next", ![r].wrote = wrote]
             /\ LogEvent("FAILED", t, FALSE, 0)
             /\ UNCHANGED requests
        [] OTHER -> \E q \in 1 .. Len(requests) + 1 :
             /\ OpenRequest("FAILED", t, q)
             /\ round' = [round EXCEPT ![r].pc = "escalate", ![r].request = q, ![r].wrote = wrote]
             /\ UNCHANGED log

\* _block opens its request first.
Block(r, wrote) ==
  \E q \in 1 .. Len(requests) + 1 :
    /\ OpenRequest("BLOCKED", round[r].trade, q)
    /\ round' = [round EXCEPT ![r].pc = "block", ![r].request = q, ![r].wrote = wrote]
    /\ UNCHANGED log

\* Mutant of Halts: the traces of an earlier repair are not looked for.
HaltsNever(r, outcome) == FALSE

\* assess_repair: any trace in the ledger as it was read, and there is evidence.
Halts(r, outcome) == round[r].trade \in round[r].traced /\ outcome \in {"unmappable", "ok"}

\* _handle: fetch_evidence and assess_repair. The exchange shows the position as
\* still open only so many times: an orphan's position is flat or becomes so.
Fetch(r) ==
  /\ At(r, "fetch")
  /\ \E outcome \in Outcomes :
       /\ faults' = IF outcome = "still_open" THEN faults - 1 ELSE faults
       /\ CASE outcome = "still_open" -> faults > 0 /\ Goto(r, "next") /\ UNCHANGED <<requests, log>>
            [] Halts(r, outcome) -> Block(r, FALSE)
            [] outcome = "ok" /\ ~Halts(r, outcome) -> Goto(r, "write") /\ UNCHANGED <<requests, log>>
            [] OTHER -> Fail(r, FALSE)
  /\ UNCHANGED <<closes, trace, queued, diverged>>

Escalate(r) ==
  /\ At(r, "escalate")
  /\ LogEvent("FAILED", round[r].trade, TRUE, round[r].request)
  /\ Goto(r, "next")
  /\ UNCHANGED <<closes, trace, queued, diverged, requests, faults>>

BlockReport(r) ==
  /\ At(r, "block")
  /\ LogEvent("BLOCKED", round[r].trade, FALSE, round[r].request)
  /\ Goto(r, IF RequestFor(r, round[r].trade) # 0 THEN "supersede" ELSE "next")
  /\ UNCHANGED <<closes, trace, queued, diverged, requests, faults>>

Supersede(r) ==
  /\ At(r, "supersede")
  /\ CloseRequest(r, RequestFor(r, round[r].trade), "SUPERSEDED", [round[r] EXCEPT !.pc = "next"])
  /\ UNCHANGED <<closes, trace, queued, diverged, log, faults>>

\* _write: the evidence file, then the ledger once more, then the lines are staged.
Write(r) ==
  /\ At(r, "write")
  /\ CASE round[r].trade \in EvidenceFails -> Fail(r, TRUE)
       [] round[r].trade \notin EvidenceFails /\ closes[round[r].trade] # <<>> -> Block(r, TRUE)
       [] OTHER -> /\ round' = [round EXCEPT ![r].pc = "append", ![r].wrote = TRUE]
                   /\ UNCHANGED <<requests, log>>
  /\ UNCHANGED <<closes, trace, queued, diverged, faults>>

LeaveTrace(t, who) == trace' = [trace EXCEPT ![t] = @ \cup {who}]

Land(t) == /\ closes' = [closes EXCEPT ![t] = Append(@, "runner")]
           /\ LeaveTrace(t, "runner")

\* append_lines_atomically puts the whole batch in the ledger.
AppendBatch(r) ==
  /\ At(r, "append")
  /\ Land(round[r].trade)
  /\ Goto(r, "queue")
  /\ UNCHANGED <<queued, diverged, requests, log, faults>>

\* It raises: nothing was written, or the lines before the trade_close, or all of it but
\* another writer's line is behind it when the batch is read back.
AppendFails(r) ==
  /\ At(r, "append") /\ faults > 0 /\ faults' = faults - 1
  /\ \/ UNCHANGED <<closes, trace>>
     \/ LeaveTrace(round[r].trade, "runner") /\ UNCHANGED closes
     \/ Land(round[r].trade)
  /\ Block(r, TRUE)
  /\ UNCHANGED <<queued, diverged>>

\* queue_projection; an error of it is only noted.
QueueProjection(r) ==
  /\ At(r, "queue")
  /\ queued' \in {queued, queued \cup {round[r].trade}}
  /\ Goto(r, "report")
  /\ UNCHANGED <<closes, trace, diverged, requests, log, faults>>

Report(r) ==
  /\ At(r, "report")
  /\ LogEvent("REPAIRED", round[r].trade, FALSE, 0)
  /\ Goto(r, IF RequestFor(r, round[r].trade) # 0 THEN "resolve" ELSE "next")
  /\ UNCHANGED <<closes, trace, queued, diverged, requests, faults>>

Resolve(r) ==
  /\ At(r, "resolve")
  /\ CloseRequest(r, RequestFor(r, round[r].trade), "RESOLVED_AUTO", [round[r] EXCEPT !.pc = "next"])
  /\ UNCHANGED <<closes, trace, queued, diverged, log, faults>>

\* The process dies, or a file it needs cannot be read.  In the middle of the batch it
\* may leave the first lines of it, or all.
Die(r) ==
  /\ ~At(r, "idle") /\ faults > 0 /\ faults' = faults - 1
  /\ round' = [round EXCEPT ![r] = IdleRound]
  /\ \/ UNCHANGED <<closes, trace>>
     \/ At(r, "append") /\ LeaveTrace(round[r].trade, "runner") /\ UNCHANGED closes
     \/ At(r, "append") /\ Land(round[r].trade)
  /\ UNCHANGED <<queued, diverged, requests, log>>

-----------------------------------------------------------------------------
\* The other writers.

\* ledger_reconcile publishes its verdict; the document is stale from then on.  Trades of
\* one symbol do not cancel out.
Compare ==
  /\ diverged' = {SymbolOf[t] : t \in {u \in Trades : closes[u] = <<>>}}
  /\ UNCHANGED <<closes, trace, queued, requests, log, round, faults>>

\* An operator's repair tool records its evidence, and later the close; or the strategy
\* writes its close late.  Neither looks at what a round is doing.
OthersMayWrite == faults > 0 /\ faults' = faults - 1

RecordByHand(t) ==
  /\ OthersMayWrite /\ closes[t] = <<>>
  /\ LeaveTrace(t, "other")
  /\ UNCHANGED <<closes, queued, diverged, requests, log, round>>

CloseByOther(t) ==
  /\ OthersMayWrite /\ closes[t] = <<>>
  /\ closes' = [closes EXCEPT ![t] = Append(@, "other")]
  /\ UNCHANGED <<trace, queued, diverged, requests, log, round>>

\* An operator closes a request.
ResolveByHand(q) ==
  /\ q \in OpenIds /\ faults > 0 /\ faults' = faults - 1
  /\ requests' = [requests EXCEPT ![q].status = "RESOLVED_HUMAN"]
  /\ UNCHANGED <<closes, trace, queued, diverged, log, round>>

Step(r) == \/ Replay(r) \/ Announce(r) \/ ReadLedger(r) \/ ReadLog(r) \/ ReadQueue(r)
           \/ Withdraw(r) \/ Plan(r) \/ TakeNext(r) \/ EndRound(r) \/ Fetch(r)
           \/ Escalate(r) \/ BlockReport(r) \/ Supersede(r) \/ Write(r) \/ AppendBatch(r)
           \/ QueueProjection(r) \/ Report(r) \/ Resolve(r)

Others == \/ \E t \in Trades : RecordByHand(t) \/ CloseByOther(t)
          \/ \E q \in DOMAIN requests : ResolveByHand(q)

Next == \/ \E r \in Rounds : Start(r) \/ Step(r) \/ AppendFails(r) \/ Die(r)
        \/ Compare \/ Others

Spec == Init /\ [][Next]_vars

\* The timers of the rounds and of the comparison go off again and again, and a round
\* that is not killed goes on.
FairSpec == Spec /\ WF_vars(Compare) /\ \A r \in Rounds : WF_vars(Start(r)) /\ WF_vars(Step(r))

-----------------------------------------------------------------------------
TypeOK ==
  /\ closes \in [Trades -> Seq({"runner", "other"})]
  /\ trace \in [Trades -> SUBSET {"runner", "other"}]
  /\ queued \subseteq Trades /\ diverged \subseteq Symbols
  /\ requests \in Seq(Request) /\ log \in Seq(Event)
  /\ round \in [Rounds -> Round]
  /\ faults \in 0 .. MaxFaults

\* The runner never repairs twice: behind a batch of its own, whole or broken off, it
\* writes no second one, whatever rounds died and whoever else wrote meanwhile.
OneBatch ==
  [][\A t \in Trades :
       closes'[t] = Append(closes[t], "runner") => "runner" \notin trace[t]]_vars

\* The operator is told of a request at most once.
AnnouncedOnce ==
  \A k, l \in DOMAIN log : (log[k].request = log[l].request /\ log[k].request # 0) => k = l

\* The one trade of its symbol without a close.
OnlyOrphan(t) == \A u \in Trades : SymbolOf[u] = SymbolOf[t] => (closes[u] = <<>> <=> u = t)

\* A missing close is written in the end, or somebody is asked to look at it, once no
\* other trade of its symbol lacks one; until then the code leaves both alone.
OrphansSettle ==
  \A t \in Trades : OnlyOrphan(t) ~> (closes[t] # <<>> \/ \E c \in Codes : OpenOf(c, t) # {})

\* A request does not stay as it is: the operator is told of it or it is closed, and
\* once its trade has a close it is closed.
RequestsSettle ==
  \A t \in Trades, c \in Codes :
    /\ (\E q \in OpenOf(c, t) : ~Announced(q)) ~> (\A q \in OpenOf(c, t) : Announced(q))
    /\ (closes[t] # <<>>) ~> (OpenOf(c, t) = {})
=============================================================================
