---------------------------- MODULE UnrecordedFill ----------------------------
(***************************************************************************)
(* The rounds that take exchange fills the ledger does not account for to  *)
(* a correction or to a human (src/src/trade_alerts/unrecorded_fill.py     *)
(* with notice_replay, trade_correction and exchange_ledger_compare).      *)
(*                                                                         *)
(* The reconciliation lists unmatched fills; a timer starts a round. The   *)
(* round announces what a killed one wrote and did not announce, withdraws *)
(* requests the ledger has overtaken, and takes the listed orders one by   *)
(* one. It may die between any two of its writes, and an operator works on *)
(* the same ledger and queue at the same time. Rounds do not overlap: one  *)
(* timer unit runs them.                                                   *)
(***************************************************************************)
EXTENDS LedgerCompare

CONSTANTS
  Orders,       \* orders the strategy does not record when they are filled
  Entry, Exit,  \* the two it does record
  Worlds,       \* the strategies, ledgers and origins of orders to look at
  Grace,        \* _FILL_GRACE_MS, SETTLE_GRACE_MS and LOOKUP_GRACE_MS, in ticks
  SettleGrace,
  LookupGrace,
  MaxFaults     \* bound on deaths, failed writes and operators' actions

Origins == {"duplicate", "owned", "foreign"}
World == [style      : {"trade", "spot"},
          client_ids : BOOLEAN,
          record     : {"opened", "adopted", "twin"},  \* how the ledger got the entry
          marker     : BOOLEAN,                        \* a reconciliation is marked pending
          estimate   : BOOLEAN,                        \* the close records estimated figures
          origin     : [Orders -> Origins]]            \* what the clientOrderIds prove

ASSUME FillAssumption ==
  /\ Worlds \subseteq World /\ MaxFaults \in Nat
  /\ AllOrders = Orders \cup {Entry, Exit} /\ Entry # Exit /\ Timeline[1] = Entry
  /\ {Entry, Exit} \cap Orders = {}
  /\ Grace \in Nat \ {0} /\ SettleGrace \in Nat /\ LookupGrace \in Nat
  /\ Grace <= SettleGrace /\ SettleGrace <= LookupGrace

VARIABLES
  world,     \* fixed: the strategy's adapter and what the exchange knows
  fills,     \* how much of the timeline the exchange has filled
  age,       \* age[o]: ticks since o was filled, up to LookupGrace
  ledger,    \* the rows of the trade
  waited,    \* ticks the pending marker has waited, up to LookupGrace
  snap,      \* the exchange snapshot that waits to be compared, if any
  status,    \* ledger_status.json
  requests,  \* the request queue; a request is identified by its position
  log,       \* the fleet event log
  evidence,  \* the evidence files, in the order of their names
  queued,    \* the corrections whose Google projection was queued
  held,      \* replay-first-seen.json: ticks since a replay was held back
  round,     \* what the round is doing and has read
  faults     \* faults left

vars == <<world, fills, age, ledger, waited, snap, status, requests, log, evidence, queued, held, round, faults>>
exchange == <<world, fills, age, waited>>
audit    == <<snap, status>>
told     == <<requests, log>>
filesOfRound == <<evidence, queued, held>>

Filled == ToSet(SubSeq(Timeline, 1, fills))
Status  == [value : Verdicts, unmatched : SUBSET AllOrders, listed : SUBSET AllOrders]
Request == [order : Orders, ids : SUBSET Orders, path : Nat,
            status : {"open", "WITHDRAWN", "RESOLVED_HUMAN"}]
\* line is the correction an event announces, path the evidence file it names, 0 for none.
Event == [code : {"CORRECTED", "UNRESOLVED"}, line : Nat, request : Nat, path : Nat, ids : SUBSET Orders,
          failed : BOOLEAN]   \* it says that the projection could not be queued
Evidence == [ids : SUBSET Orders, corrected : Figures]

Pcs == {"idle", "announce", "replay", "replayed", "withdraw", "list", "next",
        "persist", "recheck", "append", "hook", "tell", "ask"}
Round == [pc       : Pcs,
          seen     : Nat,            \* ledger_events: this much of the ledger
          todo     : SUBSET Nat,     \* requests, or evidence files, to go through in order
          awaiting : SUBSET Orders,  \* open_requests
          orders   : SUBSET Orders,  \* unrecorded orders
          left     : SUBSET Orders,  \* ... those to come, in the order of their fills
          handled  : SUBSET Orders,
          wrote    : BOOLEAN,        \* write_attempted
          ids      : SUBSET Orders,  \* the orders of the correction in hand
          fields   : Line,           \* the correction in hand
          path     : Nat,            \* its evidence file
          line     : Nat,            \* its row in the ledger
          failed   : BOOLEAN,        \* its hook failed
          request  : Nat]            \* the request just opened
NoFields == [type |-> "trade_correction", by |-> "handler", at |-> 0,
             ids |-> {}, previous |-> {}, corrected |-> {}]
IdleRound == [pc |-> "idle", seen |-> 0, todo |-> {}, awaiting |-> {}, orders |-> {}, left |-> {},
              handled |-> {}, wrote |-> FALSE, ids |-> {}, fields |-> NoFields, path |-> 0, line |-> 0,
              failed |-> FALSE, request |-> 0]

-----------------------------------------------------------------------------
\* The exchange, the strategy and the reconciliation.

StrategyRow(type, ids) == [type |-> type, by |-> "strategy", at |-> fills, ids |-> ids, previous |-> {},
                           corrected |-> IF type = "trade_close" /\ ~world.estimate THEN {Entry, Exit} ELSE {}]
Recorded(type) == OfType(ledger, {type}) # <<>>
AppendRow(row) == ledger' = Append(ledger, row)

Init ==
  /\ world \in Worlds /\ fills = 1
  /\ age = [o \in AllOrders |-> 0] /\ waited = 0
  /\ ledger = (CASE world.record = "adopted" -> <<>>
                 [] world.record = "twin" -> <<StrategyRow("position_recovered", {Entry}),
                                               StrategyRow("trade_open", {Entry})>>
                 [] OTHER -> <<StrategyRow(IF world.style = "spot" THEN "spot_fill" ELSE "trade_open", {Entry})>>)
              \o (IF world.marker THEN <<StrategyRow("position_reconciliation_pending", {})>> ELSE <<>>)
  /\ snap = <<>> /\ status = [value |-> "UNKNOWN", unmatched |-> {}, listed |-> {}]
  /\ requests = <<>> /\ log = <<>> /\ evidence = <<>> /\ queued = {} /\ held = <<>>
  /\ round = IdleRound /\ faults = MaxFaults

\* Nothing a round does between its reads of the ledger and of the status file can
\* tell whether the exchange and the reconciliation moved before it or during it.
BetweenReads == round.pc \in {"idle", "withdraw"}

\* The exchange fills the next order, whoever sent it.
Fill == /\ BetweenReads /\ snap = <<>>
        /\ fills < Len(Timeline) /\ fills' = fills + 1
        /\ UNCHANGED <<world, age, waited, ledger, audit, told, filesOfRound, round, faults>>

\* The strategy's own row of an order, or the position it adopts after a restart.
Record(row) == /\ AppendRow(row)
               /\ UNCHANGED <<exchange, audit, told, filesOfRound, round, faults>>
Adopt == /\ world.record = "adopted" /\ ~Recorded("position_recovered")
         /\ Record(StrategyRow("position_recovered", {}))
RecordExit ==
  /\ Exit \in Filled /\ Exit \notin RowIds(ledger)
  /\ Record(StrategyRow(IF world.style = "spot" THEN "spot_fill" ELSE "trade_close", {Exit}))
OwnRowsWritten == /\ world.record = "adopted" => Recorded("position_recovered")
                  /\ Exit \in Filled => Exit \in RowIds(ledger)

Older(n) == IF n < LookupGrace THEN n + 1 ELSE n

\* Time passes between rounds: a round works with the moment it was started at.
\* The strategy records its own orders within _FILL_GRACE_MS.
Tick == /\ round.pc = "idle" /\ snap = <<>> /\ OwnRowsWritten
        /\ age' = [o \in AllOrders |-> IF o \in Filled THEN Older(age[o]) ELSE age[o]]
        /\ waited' = IF world.marker THEN Older(waited) ELSE waited
        /\ held' = [p \in DOMAIN held |-> Older(held[p])]
        /\ UNCHANGED <<world, fills, ledger, audit, told, evidence, queued, round, faults>>

Spend == faults > 0 /\ faults' = faults - 1

\* The fetcher writes its snapshot; it may come back incomplete.
Fetch ==
  /\ snap = <<>> /\ round.pc = "idle"
  /\ \E complete \in BOOLEAN :
       /\ IF complete THEN UNCHANGED faults ELSE Spend
       /\ snap' = <<[complete |-> complete, lines |-> Len(ledger),
                     position |-> IF world.style = "trade" THEN ExchangePosition(Filled) ELSE 0,
                     listed |-> {o \in Filled : age[o] >= Grace}]>>
  /\ UNCHANGED <<exchange, ledger, status, told, filesOfRound, round>>

\* ... and the comparison reads it with the ledger as it is by then.
Compare ==
  /\ snap # <<>> /\ snap' = <<>> /\ BetweenReads
  /\ LET value == Verdict(snap[1], ledger, waited = LookupGrace)
     IN  status' = [value |-> value, listed |-> snap[1].listed,
                    unmatched |-> IF value = "DIVERGED" THEN Unmatched(snap[1], ledger) ELSE {}]
  /\ UNCHANGED <<exchange, ledger, told, filesOfRound, round, faults>>

\* The operator corrects the trade with the tool that the rounds use too, records
\* a spot fill, or closes a request without correcting anything.
CorrectByHand ==
  /\ world.style = "trade"
  /\ \E S \in SUBSET Filled :
       /\ BuildError(ledger, S) = "none" /\ CorrectionIds(ledger) \subseteq S
       /\ AppendRow(Correction(ledger, S, "human", fills))
  /\ Spend /\ UNCHANGED <<exchange, audit, told, filesOfRound, round>>

RecordByHand ==
  /\ world.style = "spot"
  /\ \E o \in Filled \ (RecordedIds(ledger) \cup {Exit}) :
       AppendRow([StrategyRow("spot_fill", {o}) EXCEPT !.by = "human"])
  /\ Spend /\ UNCHANGED <<exchange, audit, told, filesOfRound, round>>

ResolveByHand ==
  /\ \E q \in DOMAIN requests : /\ requests[q].status = "open"
                                /\ requests' = [requests EXCEPT ![q].status = "RESOLVED_HUMAN"]
  /\ Spend /\ UNCHANGED <<exchange, ledger, audit, log, filesOfRound, round>>

-----------------------------------------------------------------------------
\* A round.

At(pc) == round.pc = pc
Goto(pc) == round' = [round EXCEPT !.pc = pc]
Seen == SubSeq(ledger, 1, round.seen)     \* ledger_events
OpenRequests == {q \in DOMAIN requests : requests[q].status = "open"}

\* What is first in a set of positions.
Least(q, S) == q \in S /\ \A p \in S : q <= p

\* Mutant of Announced: only requests about an evidence file are looked for.
AnnouncedByPath(q) == \E k \in DOMAIN log : log[k].request = q /\ log[k].path # 0

\* announced_request_ids
Announced(q) == \E k \in DOMAIN log : log[k].request = q
Report(code, line, request, path, ids) ==
  log' = Append(log, [code |-> code, line |-> line, request |-> request, path |-> path, ids |-> ids,
                      failed |-> code = "CORRECTED" /\ round.failed])

\* run reads the ledger; replay_unannounced_requests reads the log and the queue.
Start ==
  /\ At("idle")
  /\ round' = [IdleRound EXCEPT !.pc = "announce", !.seen = Len(ledger),
                               !.todo = {q \in OpenRequests : ~Announced(q)}]
  /\ UNCHANGED <<exchange, ledger, audit, told, filesOfRound, faults>>

Announce ==
  /\ At("announce")
  /\ \E q \in round.todo : /\ Least(q, round.todo)
                           /\ Report("UNRESOLVED", 0, q, requests[q].path, requests[q].ids)
                           /\ round' = [round EXCEPT !.todo = @ \ {q}]
  /\ UNCHANGED <<exchange, ledger, audit, requests, filesOfRound, faults>>

\* _replay_corrections reads the evidence files, for a strategy that corrects.
ListEvidence ==
  /\ At("announce") /\ round.todo = {}
  /\ round' = [round EXCEPT !.pc = "replay",
                            !.todo = IF world.client_ids THEN DOMAIN evidence ELSE {}]
  /\ UNCHANGED <<exchange, ledger, audit, told, filesOfRound, faults>>

\* covered_paths, covered_corrections and covered_order_sets.
PathTold(p) == \E k \in DOMAIN log : log[k].path = p
LineTold(n) == \E k \in DOMAIN log : log[k].code = "CORRECTED" /\ log[k].line = n
IdsTold(S)  == \E k \in DOMAIN log : log[k].code = "CORRECTED" /\ log[k].ids = S

\* _correction_matches: the orders contained, and the same corrected figures.
Matches(p) == {n \in 1 .. round.seen : /\ ledger[n].type = "trade_correction"
                                       /\ evidence[p].ids \subseteq ledger[n].ids
                                       /\ evidence[p].corrected = ledger[n].corrected}

\* The row whose announcement is missing; a spot row needs no name (0).
Unannounced(p) ==
  CASE PathTold(p) \/ ~(evidence[p].ids \subseteq RecordedIds(Seen)) -> {}
    [] world.style = "trade" -> {n \in Matches(p) : ~LineTold(n)}
    [] OTHER -> IF IdsTold(evidence[p].ids) THEN {} ELSE {0}

Replaying(p) == At("replay") /\ Least(p, round.todo)
Skip(p) == round' = [round EXCEPT !.pc = "replay", !.todo = @ \ {p}, !.line = 0, !.path = 0, !.failed = FALSE]
TakeUp(p, n, failed) == round' = [round EXCEPT !.pc = "replayed", !.path = p, !.line = n, !.failed = failed]

NothingToReplay(p) ==
  /\ Replaying(p) /\ Unannounced(p) = {} /\ Skip(p)
  /\ UNCHANGED <<exchange, ledger, audit, told, filesOfRound, faults>>

\* Mutant of Replay: the announcement alone is made up for.
ReplayTellsOnly(p) ==
  /\ Replaying(p)
  /\ \E n \in Unannounced(p) : Least(n, Unannounced(p)) /\ TakeUp(p, n, FALSE)
  /\ UNCHANGED <<exchange, ledger, audit, told, filesOfRound, faults>>

\* The hook first: the announcement is what marks the correction as done.
Replay(p) ==
  /\ Replaying(p)
  /\ \E n \in Unannounced(p) : /\ Least(n, Unannounced(p)) /\ TakeUp(p, n, FALSE)
                               /\ queued' = IF n = 0 THEN queued ELSE queued \cup {n}
  /\ UNCHANGED <<exchange, ledger, audit, told, evidence, held, faults>>

Hold(p) == held' = [q \in DOMAIN held \cup {p} |-> IF q \in DOMAIN held THEN held[q] ELSE 0]

\* Mutant of ReplayHookFails: the announcement waits for the hook for good.
ReplayHookFailsAlways(p) ==
  /\ Replaying(p) /\ Unannounced(p) # {} /\ world.style = "trade"
  /\ Hold(p) /\ Skip(p)
  /\ UNCHANGED <<exchange, ledger, audit, told, evidence, queued, faults>>

\* It fails: the announcement is held back until LookupGrace after the first time,
\* or not at all when the first time cannot be stored (_first_seen).
ReplayHookFails(p) ==
  /\ Replaying(p) /\ world.style = "trade"
  /\ \E n \in Unannounced(p) :
       /\ Least(n, Unannounced(p))
       /\ \/ Hold(p) /\ IF p \in DOMAIN held /\ held[p] = LookupGrace THEN TakeUp(p, n, TRUE) ELSE Skip(p)
          \/ p \notin DOMAIN held /\ TakeUp(p, n, TRUE) /\ UNCHANGED held
  /\ UNCHANGED <<exchange, ledger, audit, told, evidence, queued, faults>>

Replayed ==
  /\ At("replayed")
  /\ Report("CORRECTED", round.line, 0, round.path, evidence[round.path].ids)
  /\ Skip(round.path)
  /\ UNCHANGED <<exchange, ledger, audit, requests, filesOfRound, faults>>

\* _withdraw_accounted_requests
ListRequests ==
  /\ At("replay") /\ round.todo = {}
  /\ round' = [round EXCEPT !.pc = "withdraw", !.todo = OpenRequests]
  /\ UNCHANGED <<exchange, ledger, audit, told, filesOfRound, faults>>

\* Mutant of Overtaken: only a correction overtakes a request.
OvertakenByCorrection(q) == requests[q].order \in CorrectionIds(Seen)

Overtaken(q) == requests[q].order \in RecordedIds(Seen)

\* record_request_outcome raises when somebody closed the request meanwhile, and
\* the round ends.
Withdraw ==
  /\ At("withdraw")
  /\ \E q \in round.todo :
       /\ Least(q, round.todo)
       /\ CASE ~Overtaken(q) ->
                 /\ round' = [round EXCEPT !.todo = @ \ {q},
                                           !.awaiting = @ \cup requests[q].ids \cup {requests[q].order}]
                 /\ UNCHANGED requests
            [] Overtaken(q) /\ q \in OpenRequests ->
                 /\ round' = [round EXCEPT !.todo = @ \ {q}]
                 /\ requests' = [requests EXCEPT ![q].status = "WITHDRAWN"]
            [] OTHER -> round' = IdleRound /\ UNCHANGED requests
  /\ UNCHANGED <<exchange, ledger, audit, log, filesOfRound, faults>>

\* unrecorded_orders
UnrecordedOrders == IF status.value = "DIVERGED" THEN status.unmatched \ RecordedIds(Seen) ELSE {}

ListOrders ==
  /\ At("withdraw") /\ round.todo = {}
  /\ round' = [round EXCEPT !.pc = "next", !.orders = UnrecordedOrders, !.left = UnrecordedOrders]
  /\ UNCHANGED <<exchange, ledger, audit, told, filesOfRound, faults>>

EndRound ==
  /\ At("next") /\ round.left = {} /\ round' = IdleRound
  /\ UNCHANGED <<exchange, ledger, audit, told, filesOfRound, faults>>

Handling(o) == At("next") /\ First(o, round.left)
Waits(o) == o \in round.handled \cup round.awaiting

LeaveAlone(o) ==
  /\ Handling(o) /\ Waits(o)
  /\ round' = [round EXCEPT !.left = @ \ {o}]
  /\ UNCHANGED <<exchange, ledger, audit, told, filesOfRound, faults>>

-----------------------------------------------------------------------------
\* One unrecorded order (_handle, _correct_trade and _correct_spot).

\* The order is done with for this round, and so are the orders in ids.
Defer(ids) == round' = [round EXCEPT !.pc = "next", !.left = {o \in @ : ~First(o, @)},
                                    !.handled = @ \cup ids, !.ids = {}, !.fields = NoFields, !.path = 0,
                                    !.line = 0, !.failed = FALSE, !.request = 0]

\* open_error_request, for the problem of order o.
OpenOf(o) == {q \in OpenRequests : requests[q].order = o}
Ask(o, ids, path, wrote) ==
  \E q \in 1 .. Len(requests) + 1 :
    /\ IF OpenOf(o) # {} THEN q \in OpenOf(o) /\ UNCHANGED requests
       ELSE /\ q = Len(requests) + 1
            /\ requests' = Append(requests, [order |-> o, ids |-> ids, path |-> path, status |-> "open"])
    /\ round' = [round EXCEPT !.pc = "ask", !.request = q, !.ids = ids, !.path = path, !.wrote = wrote,
                              !.fields = NoFields]

Unresolved(o, ids) == Ask(o, ids, 0, round.wrote)
Reading(o) == Handling(o) /\ ~Waits(o)
NoFileChanges == UNCHANGED <<exchange, ledger, audit, log, filesOfRound, faults>>

\* The duplicate's partner: an order the ledger has in a row of its own.
Matched(o) == world.origin[o] = "duplicate" /\ Entry \in RowIds(Seen)

\* Mutant of Attributed: a listed order next to a duplicate is taken as part of it.
AttributedAlways(o) == TRUE

Attributed(o) == world.origin[o] \in {"duplicate", "owned"}

\* The unrecorded orders around the trade are restated with it.
Group(o) == round.orders \cup {o}

\* A read of the exchange fails. Looking an order up is tried again until the
\* order is old; what the correction would be made of is not.
LookUpFails(o) ==
  /\ Reading(o) /\ world.client_ids
  /\ \E ids \in IF Matched(o) /\ world.style = "trade" /\ ~round.wrote /\ Closes(Seen) # <<>>
                   THEN {{o}, Group(o)} ELSE {{o}} :
       IF age[o] < LookupGrace THEN Defer(ids) /\ UNCHANGED requests ELSE Unresolved(o, ids)
  /\ NoFileChanges

\* No client order ids to compare, or no recorded order with the same one.
NotADuplicate(o) ==
  /\ Reading(o) /\ ~(world.client_ids /\ Matched(o))
  /\ Unresolved(o, {o})
  /\ NoFileChanges

OneWritePerRound(o) ==
  /\ Reading(o) /\ world.client_ids /\ Matched(o) /\ round.wrote
  /\ Defer({o}) /\ UNCHANGED requests
  /\ NoFileChanges

MayCorrect(o) == Reading(o) /\ world.client_ids /\ Matched(o) /\ ~round.wrote

Settled(ids) == \A p \in ids \cup {Entry, Exit} : age[p] >= SettleGrace

\* Every fill of these orders; those of earlier corrections are not asked for.
Fetched(o) == RowIds(Seen) \cup Group(o)

Stage(ids, fields) ==
  /\ round' = [round EXCEPT !.pc = "persist", !.ids = ids, !.fields = fields]
  /\ UNCHANGED requests

CorrectTrade(o) ==
  /\ MayCorrect(o) /\ world.style = "trade"
  /\ CASE Opens(Seen) = <<>> \/ Closes(Seen) = <<>> -> Unresolved(o, {o})
       [] OTHER ->
          CASE \E p \in Group(o) \ {o} : ~Attributed(p) -> Unresolved(o, Group(o))
            [] OTHER ->
               CASE BuildError(Seen, Fetched(o)) = "none" ->
                      Stage(Group(o), Correction(Seen, Fetched(o), "handler", fills))
                 [] BuildError(Seen, Fetched(o)) = "not_flat" /\ ~Settled(Group(o)) ->
                      Defer(Group(o)) /\ UNCHANGED requests
                 [] OTHER -> Unresolved(o, Group(o))
  /\ NoFileChanges

CorrectSpot(o) ==
  /\ MayCorrect(o) /\ world.style = "spot"
  /\ Stage({o}, [StrategyRow("spot_fill", {o}) EXCEPT !.by = "handler"])
  /\ NoFileChanges

FetchFillsFails(o) ==
  /\ MayCorrect(o)
  /\ \/ world.style = "spot" /\ Unresolved(o, {o})
     \/ /\ world.style = "trade" /\ Opens(Seen) # <<>> /\ Closes(Seen) # <<>>
        /\ \A p \in Group(o) \ {o} : Attributed(p)
        /\ Unresolved(o, Group(o))
  /\ NoFileChanges

\* The evidence file comes first; without it nothing is written.
Persist ==
  /\ At("persist")
  /\ \/ /\ evidence' = Append(evidence, [ids |-> round.ids, corrected |-> round.fields.corrected])
        /\ round' = [round EXCEPT !.pc = "recheck", !.path = Len(evidence) + 1]
        /\ UNCHANGED faults
     \/ Spend /\ Defer(round.ids) /\ UNCHANGED evidence
  /\ UNCHANGED <<exchange, ledger, audit, told, queued, held>>

\* The ledger is read again: somebody may have corrected it since.
Recheck ==
  /\ At("recheck")
  /\ IF round.ids \cap RecordedIds(ledger) # {} THEN Defer(round.ids) ELSE Goto("append")
  /\ UNCHANGED <<exchange, ledger, audit, told, filesOfRound, faults>>

AppendCorrection ==
  /\ At("append")
  /\ AppendRow(round.fields)
  /\ round' = [round EXCEPT !.pc = IF world.style = "trade" THEN "hook" ELSE "tell",
                            !.line = IF world.style = "trade" THEN Len(ledger) + 1 ELSE 0, !.wrote = TRUE]
  /\ UNCHANGED <<exchange, audit, told, filesOfRound, faults>>

\* The append raises, with the row in the ledger or without it: never tried again.
AppendFails ==
  /\ At("append") /\ Spend
  /\ AppendRow(round.fields) \/ UNCHANGED ledger
  /\ \E o \in Orders : First(o, round.left) /\ Ask(o, round.ids, round.path, TRUE)
  /\ UNCHANGED <<exchange, audit, log, filesOfRound>>

\* after_trade_correction, whose failure is only noted.
Hook ==
  /\ At("hook")
  /\ \/ Goto("tell") /\ queued' = queued \cup {round.line} /\ UNCHANGED faults
     \/ round' = [round EXCEPT !.pc = "tell", !.failed = TRUE] /\ Spend /\ UNCHANGED queued
  /\ UNCHANGED <<exchange, ledger, audit, told, evidence, held>>

Tell ==
  /\ At("tell")
  /\ Report("CORRECTED", round.line, 0, round.path, round.ids)
  /\ Defer(round.ids)
  /\ UNCHANGED <<exchange, ledger, audit, requests, filesOfRound, faults>>

TellRequest ==
  /\ At("ask")
  /\ Report("UNRESOLVED", 0, round.request, round.path, round.ids)
  /\ Defer(round.ids)
  /\ UNCHANGED <<exchange, ledger, audit, requests, filesOfRound, faults>>

\* The process is killed; what it wrote stays.
Die == /\ round.pc # "idle" /\ Spend /\ round' = IdleRound
       /\ UNCHANGED <<exchange, ledger, audit, told, filesOfRound>>

RoundStep ==
  \/ Announce \/ ListEvidence \/ Replayed \/ ListRequests \/ Withdraw \/ ListOrders \/ EndRound
  \/ \E p \in DOMAIN evidence : NothingToReplay(p) \/ Replay(p) \/ ReplayHookFails(p)
  \/ \E o \in Orders : \/ LeaveAlone(o) \/ LookUpFails(o) \/ NotADuplicate(o) \/ OneWritePerRound(o)
                        \/ CorrectTrade(o) \/ CorrectSpot(o) \/ FetchFillsFails(o)
  \/ Persist \/ Recheck \/ AppendCorrection \/ AppendFails \/ Hook \/ Tell \/ TellRequest

Others == Fill \/ Adopt \/ RecordExit \/ Tick \/ Fetch \/ Compare
          \/ CorrectByHand \/ RecordByHand \/ ResolveByHand

Next == Start \/ RoundStep \/ Die \/ Others

Spec == Init /\ [][Next]_vars

\* The timers start rounds and reconciliations, both end, and time passes.
Fairness == /\ WF_vars(Start) /\ WF_vars(RoundStep) /\ SF_vars(Tick)
            /\ WF_vars(Adopt) /\ WF_vars(RecordExit) /\ SF_vars(Fetch) /\ SF_vars(Compare)

FairSpec == Spec /\ Fairness

-----------------------------------------------------------------------------
(* Properties.                                                             *)

FillTypeOK ==
  /\ world \in World /\ fills \in 1 .. Len(Timeline) /\ age \in [AllOrders -> 0 .. LookupGrace]
  /\ ledger \in Seq(Line) /\ waited \in 0 .. LookupGrace
  /\ snap \in Seq(Snapshot) /\ Len(snap) <= 1 /\ status \in Status
  /\ requests \in Seq(Request) /\ log \in Seq(Event) /\ evidence \in Seq(Evidence)
  /\ queued \subseteq DOMAIN ledger /\ held \in [DOMAIN held -> 0 .. LookupGrace]
  /\ DOMAIN held \subseteq DOMAIN evidence /\ round \in Round /\ faults \in 0 .. MaxFaults

Written == {n \in DOMAIN ledger : ledger[n].by = "handler"}

\* The rounds write an order into the ledger only when its clientOrderId proves that
\* the strategy sent it, whatever else is listed next to it.
OnlyOwnOrders ==
  \A n \in Written : \A o \in ledger[n].ids \cap Orders : world.origin[o] # "foreign"

\* No order is accounted for by two of their rows, whatever was killed in between.
WrittenOnce ==
  \A m, n \in Written : m # n => ledger[m].ids \cap ledger[n].ids \cap Orders = {}

\* The announcements of row n: by its name, or by its orders.
TellsRow(k, n) == /\ log[k].code = "CORRECTED"
                  /\ IF world.style = "trade" THEN log[k].line = n ELSE log[k].ids = ledger[n].ids

\* No correction and no request is announced a second time, by a replay or otherwise.
ToldOnce ==
  \A j, k \in DOMAIN log : j # k =>
    /\ ~\E n \in Written : TellsRow(j, n) /\ TellsRow(k, n)
    /\ log[j].request = log[k].request => log[j].request = 0

\* An event that admits no failure stands for a projection that was queued.  The event: a
\* first announcement has the failed hook in its details (`post') and not in the text of
\* its notice, a replay has it in both.
AnnouncedIsQueued ==
  \A k \in DOMAIN log : log[k].line # 0 /\ ~log[k].failed => log[k].line \in queued

\* RECONCILED was earned: the listed fills the ledger does not name can be assigned to
\* adopted positions, each of which stands for one fill.
ReconciledIsEarned ==
  LET loose == status.listed \ RecordedIds(ledger)
  IN  status.value = "RECONCILED" =>
        \E f \in [loose -> Adoptions(ledger)] :
          \A o, p \in loose : StandsFor(ledger[f[o]], o) /\ (f[o] = f[p] => o = p)

\* A correction restates every order that the ledger accounts for in its trade.
RestatesTheTrade ==
  \A k \in DOMAIN Corrections(ledger) : \A j \in 1 .. k :
    Corrections(ledger)[j].ids \subseteq Corrections(ledger)[k].corrected

\* Every row of theirs is announced in the end, or the request about its evidence is.
CorrectionsAreTold ==
  <>[](\A n \in Written : \E k \in DOMAIN log :
         TellsRow(k, n) \/ (log[k].path # 0 /\ evidence[log[k].path].ids \subseteq ledger[n].ids))

\* In the end every fill is accounted for and nobody is asked about it any more, or a
\* request that covers it is open and announced.
OrdersSettle ==
  <>[](\A o \in Orders \cap Filled :
         IF o \in RecordedIds(ledger) THEN OpenOf(o) = {}
         ELSE \E q \in OpenRequests : o \in requests[q].ids /\ Announced(q))

\* The comparison does not wait for ever: not for rows newer than the snapshot, and
\* not for a marker that nothing settles.
VerdictSettles == <>[](status.value # "PENDING")
=============================================================================
