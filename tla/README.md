# A specification of trade-alerts

`trade-alerts` is the Python library that a fleet of trading strategies shares.
It tells people what the strategies do, keeps each strategy's append-only ledger
and the shared Google sheet in step, and repairs a ledger that disagrees with the
exchange. This directory holds a TLA+ model of the parts of it that are hard to
test: TLC checks the model on small instances and TLAPS proves the most important
results for instances of every size.

## The system

| component | state it keeps | operations | talks to |
|---|---|---|---|
| projection outbox (`projection_outbox.py`, `provenance_outbox.py`) | a JSONL file of intents and dispatch records, a lock file | enqueue, dispatch the head, park, requeue | strategy, delivery client, fleet event log |
| delivery client (`google_ledger_client.py`) | none (one submission in memory) | send with retries, classify the answer | receiver |
| ledger receiver (`apps_script/google_ledger_receiver.gs`) | trading tabs, audit sheet, health cell | append open / fill, close, correct, read the inventory, legacy actions | Google Sheets |
| sheet reconciliation (`google_ledger_reconciliation.py`, `ledger_integrity.py`) | none | classify a local projection against the inventory | outbox, receiver |
| exchange and sheet compare (`ledger_reconcile.py`) | `ledger_status.json`, `google_reconcile_status.json` | match fills, expire pending markers, fold the ledger, match rows, publish a verdict | ledger, exchange, sheet |
| fleet event log (`fleet_event_log.py`) | a JSONL file and its lock | append an event, read | everyone |
| error request queue (`error_request_queue.py`) | a JSONL file and its lock | open a request, record its outcome | repair runner, strategies, operator |
| repair runner (`repair_runner.py`, `verified_close_backfill.py`, `notice_replay.py`) | none of its own: ledger, log, queue, evidence files | replay, withdraw, detect, fetch, assess, append, announce, escalate | all of the above |
| fleet notices (`pending_expired_notice.py`, two checks of `repair_runner.py`) | none: read back from the log | tell of expired markers and recurring repairs | fleet event log |
| unrecorded fills and corrections (`unrecorded_fill.py`, `trade_correction.py`) | evidence files, first-seen file, ledger, log, queue | find, attribute, correct or ask, replay | exchange, outbox |
| atomic ledger append (`atomic_ledger_append.py`) | the ledger file | append a batch with one write, read it back | repair runner, the strategy's own writer |
| safe halt model (`safe_halt_model.py`) | the strategy's latch and ledger | build, reassert, preview, clear | operator |
| observation watch (`scripts/observation_watch.py`) | a state file and its lock | run checks, tell what is new, acknowledge | status files and ledgers of the strategies, LINE, Telegram |
| alert channels (`core.py`, `channels.py`) | none | publish to subscribed channels, retry | LINE, Telegram |
| operations export, health, registry, glossary | JSON documents | build, validate, render | web pages |

**Interaction.** A strategy appends to its ledger and enqueues a projection. A
worker process takes the head of the outbox and calls the client *while it holds
the outbox lock*; the client posts to the receiver, which writes cells and then an
audit line. Timers run the comparison, which publishes `ledger_status.json`, and
the repair round, which reads that document, the ledger, the event log and the
request queue one after the other, asks the exchange, and appends to the ledger,
the log and the queue, each in a separate locked write. Operators close requests,
run repair tools and requeue rejected projections at any time. A second round takes
the fills that the comparison lists and nobody recorded, and corrects the trade or asks.
The observation watch reads the documents all of these leave behind and tells the
operator what has been observed.

**What makes it hard.** Several processes share append-only files under advisory
locks, and one writer of the ledger takes none. Network calls are made between a
read and the write that relies on it. A process may die between any two appends.
The receiver runs on somebody else's platform, has no lock and may be stopped
between two cells. A client that timed out does not know whether its request was
served, and the request may still be running when it asks again.

**What must hold, by component.**

- Outbox: one outcome per intent, strict order, a confirmed projection is never
  sent again, an interrupted requeue can be run again, the queue drains.
- Receiver: one row per trade, the audit sheet never says more than the row shows,
  corrections form a chain, nothing superseded is shown.
- Both together: what the outbox calls confirmed is on the sheet, as long as executions
  of the receiver do not overlap.
- Queue: requests and outcomes of a problem take turns; nothing is written over.
- Repair runner: no second batch behind a first, whole or broken off; an orphan that is
  the only one of its symbol is repaired or handed over; everyone is told, once.
- Unrecorded fills: only orders of the strategy are written, each once; what is written
  is announced once and what is announced was done; every order is accounted for or
  somebody is asked; a verdict RECONCILED is earned.
- Comparison of ledger and sheet: no false alarm once everything is delivered.
- Notices: each marker and each recurrence is told; a marker is not told again, a
  recurrence not by a round that could have seen that it was.
- Observation watch: nothing on record as told is told again, everything that stays is heard,
  and what is claimed of several runs is true of the time between them.

The line where each hazard bites, and the properties that watch it, are in
`PROJECT.json` under `hazards`.

## Modules

| module | models | built on |
|---|---|---|
| `LedgerProjections` | projections, trades and write actions, shared by outbox and receiver | |
| `DeliveryContract` | abstract: what the outbox promises for each projection | |
| `ProjectionOutbox` | the outbox with its lock, dispatchers, operator and strategy | `LedgerProjections`, instance of `DeliveryContract` |
| `LedgerReceiver` | the receiver, step by step inside each execution | `LedgerProjections` |
| `Reconciliation` | the classification of a projection from sheet and audit lines | `LedgerReceiver` |
| `SheetCompare` | the fold of the ledger and its comparison with the rows, as operators | `LedgerReceiver` |
| `GoogleProjection` | outbox, client, receiver and sheet comparison composed | `ProjectionOutbox`, `SheetCompare` |
| `RequestLifecycle` | abstract: an append-only history in which a problem is raised and settled in turns | |
| `ErrorRequestQueue` | the request queue with its lock, torn lines and deaths | instance of `RequestLifecycle` |
| `RepairRunner` | repair rounds over ledger, log and queue, with everyone who interferes | |
| `TradeCorrection` | building, validating and applying corrections, as operators | |
| `LedgerCompare` | ledger against exchange: matching of fills, positions, markers, verdict | `TradeCorrection` |
| `UnrecordedFill` | rounds over the listed fills, with exchange, comparison and operators | `LedgerCompare` |
| `FleetNotices` | the two notices that are derived from the log | |
| `WatchChecks` | what each check with a memory makes of what it reads, as operators | |
| `ObservationWatch` | runs, state file, lock, telling and acknowledgement, over a world that moves on | `WatchChecks` |
| `...Proofs` | theorems about the module they are named after | that module, `TLAPS` |
| `MC...` | constants for TLC | that module |

Definitions called *mutant* in a comment are not part of any specification. Each is
a plausible slip in the definition that follows it; putting it in that definition's
place must break the property it is listed with in `PROJECT.json`, which shows that
the property depends on the code.

### State and actions against the code

**`ProjectionOutbox`.** `outbox` is the file as its readers compute it: one entry per
intent line, with the statuses recorded for it and the trailing run of equal error
codes. `lock` is the sibling `.lock` file, `job[w]` what one pass of
`dispatch_next_projection` has in memory, `requeuing` the rest of the loop in
`requeue_rejected_projection_intents`, `parkLog` the events it wrote. A dispatch is
`BeginDispatch` (lock and head), then `Answer`, `Pause` or `RejectRebuild` (record and
unlock), then `Report`; `Crash` may come between any of them. A requeue is one append
per step.

**`LedgerReceiver`.** `rows` are the cells below the header, `audit` the `CONFIRMED`
lines, `refused` the projections with a `REJECTED` one. An execution goes through
`Arrive`, `Look` (the trade id column), `Decide` (the handler's checks), `WriteFirst` /
`WriteRest` (the cells, so that a stop between them leaves a torn row), `Confirm` (the
audit line), `Finish`; `Throw` and `Kill` may come anywhere. Columns are grouped by who
writes them; signature, provenance and digests are a set `Invalid` of payloads that the
handlers refuse, and the identity of a payload.

**`GoogleProjection`.** `submit` of the outbox becomes the client of
`deliver_projection_v2`: `Start`, `Send` / `SendLost`, `TimeOut`, `Result`, `GiveUp`. An
execution whose client has given up runs on.

**`ErrorRequestQueue`.** `file` are the complete lines, `tail` says whether the last one
is whole, lacks only its newline, or is broken; `proc[p]` is the operation p is in. The
look and the append are separate steps under one lock, and `DieWriting` leaves what a
death inside `write` leaves. For the lifecycle each complete line is what it tells
(`Told`): an open record raises its problem, a close record settles the problem of the
request it names, so that a second open or a second close of one problem, or a close of
somebody else's request, is no step of it.

**`RepairRunner`.** `closes[t]` and `trace[t]` say who wrote the close and the
reconciliation lines of a trade; `requests` and `log` are the two files, a request being
identified by its position. `round[r]` holds what the round has read (`closed`, `traced`,
`events`, `open`) and never reads again, which is where stale decisions come from; what it
goes through is a set that it takes in order. Each
exchange call and each append is a step of its own, in the order of `_Round.run`. `Plan` takes
what `detect_repair_candidates` takes: of each diverged symbol the one trade that has no
close in the ledger as it was read, and none when there are several (`Candidates`). `Fetch`
stands for `fetch_evidence` and `assess_repair` with their four results. The operator and
the strategy (`RecordByHand`, `CloseByOther`, `ResolveByHand`) act at any time.

**`SheetCompare`.** A ledger is the facts its projections were made from, by their position;
`Folded` is `fold_ledger_trades`, `TradeDiverges` the loop of `sheet_ledger_compare` for one
trade. A half-written exit may or may not agree with the ledger, so `SheetVerdicts` is the
set of verdicts the comparison may give. In `GoogleProjection` the ledger is what has been
put in the queue (`Projected`).

**`TradeCorrection`, `LedgerCompare`.** The figures of a trade are the set of exchange
orders they were computed from; all orders have one quantity, so that flat means as many
exits as entries. A row says by whom and when (`at`, the number of fills so far) it was
written. `Explained` goes through the adopted rows in order of time, as the code does: what the rows
up to `n` explain is a recursive function of `n`.

**`UnrecordedFill`.** `ledger`, `status`, `requests`, `log`, `evidence` and `held` are the
files (`held` is `replay-first-seen.json`), `queued` the projections that the hook has
queued. `round` holds what the round has read: the length of the ledger at its start, the
open requests, the listed orders. Each fetch, each file and each append is a step, in the
order of `_Round.run` and `_correct_trade`, and `Die` may come after any. `world` fixes the
kind of strategy (trades or spot, client ids or none, recorded or adopted entry, marker,
estimated close) and where the two orders came from. `CorrectByHand`, `RecordByHand` and
`ResolveByHand` are the operator.

**`FleetNotices`.** `old` splits the log at the start of the window of seven days, so
`Age` is the passing of time; `expired` is what a `RECONCILED` status document lists. A round
that tells of recurring repairs carries with it how much of the log it had looked at
(`read`), because that check takes no lock. `Die` ends a round anywhere, `deaths` counts.

**`WatchChecks`, `ObservationWatch`.** `file` is one check's entry of the state file, `run[r]`
what a run has in memory: the entry it loaded, what it has read so far, the new entry. A
run is `Enter` (lock and load), `Read` for each source in the order of the code, `Judge` or
`ReadFails` (`run_checks`), `TellByLine`, `LineFails` or `NothingToTell` (`notify`), `Save`;
`Lose` ends it anywhere and also stands for a file that can not be written. `kind` says
which check is followed; entries share only file and lock, and `Judged` applies the operator
of that check: the sheet tabs (f-26), a fill or entry on the sheet (e-2, f-7), the two
streaks (f-45, x8), the two checks that follow a stop (x5b, x5). Kind `event` is any check
without a memory: it may return anything. `send_line` answers False to any exception, a
timeout included, so `LineFails` leaves open whether the message has reached the operator
(`reached`) and records it as failed either way. `ForeignOrder` is a stranger's order at any
price. `heard` (the last message that is on record as told), `settled`, `looks` and
`world.moved` are history the properties need; no action reads them.

## What the runs check

| run | question | bounds | shows |
|---|---|---|---|
| `outbox_safety` | may the processes around one outbox file do anything they should not? | 1 trade, 3 projections, 2 dispatchers, 4 intents | order, stable and single outcomes, safe requeue, one event per park; `KeepsContract` |
| `outbox_requeue_order` | is a close always sent before its correction? | 2 projections, 3 intents | **no**, after a requeue |
| `receiver_serial` | is the sheet right when executions do not overlap? | 2 trades, 7 payloads, 1 execution | rows, audit lines, corrections and classification agree |
| `receiver_overlap` | ... and when a retry overlaps? | 1 fill, 2 executions | **no**: two rows |
| `google_serial` | does CONFIRMED in the outbox mean shown on the sheet, does the comparison agree, does every intent get an outcome, when executions do not overlap? | 3 projections, 4 intents, 2 attempts, 2 faults, 1 execution | yes; and the composition implements `ProjectionOutbox` |
| `request_queue` | do racing and dying processes keep the queue consistent? | 2 processes, 2 problems, 6 records | yes; `KeepsLifecycle` |
| `repair_safety` | can kills, failures and interference make the runner write twice, or leave the only orphan of a symbol or a request alone? | 3 trades of 2 symbols, 1 round at a time, 2 faults, escalation after 2 | no |
| `repair_starved` | ... whatever trade it is that fails? | the first trade's evidence can not be saved | **no**: the second waits for ever |
| `fleet_notices` | are notices given, and given again only by who could not see them? | 2 overlapping rounds, 2 markers, 3 events, threshold 1, 2 deaths | yes: a marker once; a recurrence again only by a round that had looked before |
| `unrecorded_fill` | is every fill accounted for or put to somebody, once, and is it announced? | 7 kinds of strategy, 2 orders besides entry and exit, 1 fault or act of the operator | yes |
| `fill_second_correction` | does a correction restate the whole trade? | 1 trade, 2 pairs of duplicates, no faults | **no**, the second leaves out what the first one added |
| `observation_watch` | does the watch repeat what it has on record as told, is what stays heard, and is what is said true of the time it speaks of? | one run at a time, 7 kinds of check, 2 messages, 4 units of time, 3 orders; 3 faults for `event`, 1 for the streaks | no repeat of a record; heard; true, an order of anybody being a move of the stop |

Why the bounds are enough to mean something. Three projections of one trade are the
smallest set in which order matters (open, close, correction), and the fourth intent is
a requeued copy behind a waiting one. Parking limits of 2 are the smallest at which a
count can be interrupted. The receiver needs one entry with other content (conflict), two
successive corrections (chain), an invalid payload and a second trade of the other kind.
Two faults are the smallest number with a fault during the recovery from a fault (a batch
that fails and a death before the request is announced). Six records hold a problem
raised, settled and raised again beside another. Of three trades two have one symbol and
shut each other out, and one repair can defer another; with two problems, processes or
markers one can be mistaken for another. In `fleet_notices` a threshold of 1 makes every repair
a reason to tell, so that both rounds can have one at once, and with three events there is
one repair more than fits before both notices.

In `unrecorded_fill` two orders can be one incident (entry and exit duplicated), two
incidents, or one of the strategy's and one of somebody else's, and the strategies are
chosen so that each branch of the attribution and of the comparison is taken with and
without its neighbour. One fault is a death anywhere, a failed write, or something the
operator does between two steps; two would double nothing but the time TLC needs.
`fill_second_correction` needs four orders, and for it nobody has to fail.

In `observation_watch` a unit of time is about half an hour, the interval of the timer:
`Grace` 2 and `SheetGrace` 1 keep the order of the code's 61 and 60 minutes, and with
`MaxTime` 4 a confirmation can be given, carried, and run out, and a streak can be broken
and earned. A run takes less than a unit. One run process is enough: a second one that
finds the lock taken does nothing. The telling and the operator touch no memory of a check,
so they are followed with kind `event` only. Three faults let a run be lost, Telegram fail
and a read fail before one message. What runs under a memory can not be told by a failed
send, so the other kinds need fewer.

Every
action of every module fires in some passing run. Deadlock is not checked: each system
may come to rest (no intents left, bounds used up).

Symmetry is used over dispatchers, executions, processes and problems, and in no run that
checks liveness.

### Fairness

`google_serial`: the worker is started again and again and its passes end (strong
fairness on `Start`, because the lock may be taken in between; weak on the rest), and an
execution that is not stopped goes on. Lost calls, timeouts, kills and crashes have no
fairness and are finitely many (`MaxFaults`); with endless faults nothing could be
promised. A ledger that can never be read keeps its intents waiting, so `Pause` is given
no fairness either.

`repair_safety` and `repair_starved`: the timer starts rounds, the comparison is run
again and again, and a round that is not killed takes its steps (weak fairness). The
exchange never answers *still open* for ever in these runs: a position that stays open
has nothing to repair.

`fleet_notices`: the timer starts rounds and a round that is not killed goes on; what the
comparison lists stays listed where `MarkersAreTold` says so. Rounds are killed finitely
often (`MaxDeaths`).

`unrecorded_fill`: the timers of the comparison and of the rounds fire again and again,
time passes, the strategy records what it records, and a round that is not killed goes on.
The operator has no fairness. Deaths and failed writes are finitely many; the projection
hook of a correction may fail as often as it likes.

`observation_watch`: the timer starts runs (weak fairness on `Enter`) and a run that is not
killed goes on. LINE has no fairness and no bound: it may fail for ever. Telegram, reading
and saving fail finitely often. What a check looks at stays as it is only where
`NewsIsHeard` says so.

### Where the code and what is said about it differ

- `outbox_requeue_order`: `requeue_rejected_projection_intents` appends at the end, so a
  requeued close stands behind a correction that is still waiting; the comment that the
  queue sends the close first (`projection_outbox.py` 42-43) does not hold then.
- `receiver_overlap`: row lookup and append have no lock around them, and the client posts
  again after its timeout; the resend can write a second row although payload-level
  idempotency is tested for.
- `repair_starved`: `_handle` returns `True` after `_write` also when the evidence file
  could not be saved and nothing was written, so the first candidate uses up the round's
  one write every time and the others are deferred for ever, with nobody asked to look.
- `fill_second_correction`: `_correct_trade` asks for the fills of the open and close rows
  and of the orders in hand, and `build_trade_correction` compares them with the open and
  close orders only; what an earlier correction added is in neither, so a second correction
  silently takes it out of the figures, although the docstring says that a correction
  restates the whole trade.

Four more places where the code does less than its comments say have no run of their own.
The properties state what does hold, and their comments quote the line that says more.

- `_check_recurring` says that it tells the operator once and then leaves him alone for a
  full window (`repair_runner.py` 84-85, 254-260), but it looks and appends without a lock.
  Two rounds that overlap, the timer's and one started by hand, tell twice. What holds
  (`QuietForAWindow`) is that of two notices in one window the second comes from a round that
  had looked before the first was given.
- `detect_repair_candidates` skips a symbol that has more than one trade without a close
  (`verified_close_backfill.py` 511-513, 537-541). Two orphans of one symbol are neither
  repaired nor put to anybody by the repair round, until a person or the strategy has closed
  all but one of them; `OrphansSettle` promises nothing before.
- The watch says that it tells never again for the same thing (`observation_watch.py` 13-14),
  but a telling is remembered only by the record that follows it. The operator reads the
  same message again when LINE took it and the answer was lost (1364-1368), and so for
  Telegram, or when the run was killed, or its file not written, after the telling.
  `NewsOnly` speaks of the last message on record.
- `_follow_stop` says that only the strategy tightening its stop counts as a move (494-496),
  but it knows an order by its price alone and takes a stranger's order that is tighter than
  the stop for one, as the docstring of the check admits (526-527). `MovedIsReal` says that a new
  order has tightened the stop of that trade, not whose order it was.

The announcement of a correction is one more place to read with care: when the hook that
queues its projection has failed, the event says so in its details (`post`), and the notice the
operator reads does not; only the notice of a replay does. `AnnouncedIsQueued` speaks of
the event.

Hazards that no property covers have a note in `PROJECT.json` saying why; some of them
are states the code really can reach (two repair processes at once; a row torn behind its
trade id, which every resend is refused for and the comparison calls equal; a trade that
is recorded late and counts as covered by a comparison that never saw it).

## What is proved

TLAPS proves the following for every value of the constants that satisfies the named
assumptions; there are no bounds on processes, projections, trades, records or faults
other than the constants themselves.

- **`ProjectionOutboxProofs`** (from `LedgerAssumption`, `OutboxAssumption`): type
  correctness and all safety invariants of `outbox_safety`, `OutcomeIsStable`, and that
  the outbox implements `DeliveryContract`. The invariants of the file are not inductive
  by themselves: that a dispatcher's answer concerns the head depends on who holds the
  lock while it waits. `IInv` adds `LockInv` (who is between a read and its record holds
  the lock), `RequeueResumable` (what a requeue has left has neither a waiting nor a
  confirmed copy) and `RefusalInv` (a refusal still to be reported is on disk and in
  nobody else's hands). Each change of the file is an amended head or an appended copy;
  one lemma for each carries the file invariants, and every action is reduced to one.
- **`LedgerReceiverProofs`**: if executions do not overlap (`Serial`, an assumption of each
  theorem, which is what a lock in the handlers would ensure), all safety properties of
  `receiver_serial`. `ReceiverInv` says what an execution has read still holds when it
  writes, from which a trade has one row and a confirmed entry is shown in full;
  `receiver_overlap` shows that it fails without `Serial`. `AuditInv` relates the exit
  columns to the audit lines: what a row shows was confirmed, is about to be, or was cut
  short (`ExitIsReached`), an exit that has been corrected was closed first (`ForceInv`), and an
  execution knows what it has put into the cells (`WriteInv`). The chain of corrections,
  single confirmation and the classification follow.
- **`GoogleProjectionProofs`** (from `Serial` and `AnswersCover`: the outbox is prepared for
  each answer the receiver has; the comparison also needs `CorrectionAssumption`, that the
  version a correction names is in the ledger before it). `Serial` is not what the code
  ensures: the receiver takes no lock and the client asks again after a timeout, and
  `receiver_overlap` shows two rows for one confirmed entry. These theorems say what the
  path is worth while no two executions overlap, and that nothing else can spoil it: the
  composition implements `ProjectionOutbox` (`ImplementsOutbox`, its safety part) and the
  receiver's specification, so `PathInv` begins with the invariants of both. It adds what
  ties them: an answer on its way is true of the sheet for as long as it waits
  (`AnswerInv`), the client waits for an execution only while its worker holds the lock
  (`CallInv`), and a confirmed record has its audit line (`ConfirmInv`). So what is
  CONFIRMED is shown, and an orphan answer means there was no entry. For the comparison
  `CompareInv` compares two orders, that of the queue and that of the audit lines: an
  undelivered exit is the only reason why a row does not show the version in force
  (`ExitInv`), and that version was queued behind every other confirmed exit of its trade
  (`LatestInv`), because a correction arrives only on the version it corrects. When all is
  delivered, the version in force is therefore the one the fold of the ledger ends with, and
  the comparison cannot say DIVERGED (`DivergedIsUndelivered`).
- **`ErrorRequestQueueProofs`** (from `QueueAssumption`): type correctness, one open request
  per problem, one outcome per request, nothing behind a broken line, and that the queue
  implements `RequestLifecycle`. `QueueInv` says that what an operation found under the
  lock still holds when it appends. `TurnsInv` says that behind an open record no other of
  its problem comes before its close, so that what is open in the file is what is open in
  the history (`OpenIsOutstanding`).
- **`FleetNoticesProofs`** (from `NoticeAssumption`): type correctness, no marker announced
  twice, that a round with a reason leaves a notice of recurring repairs, and that a second one
  in a window is given only by a round that had looked before the first. `PlanInv` says that
  who is between looking and telling of markers holds the lock and has nothing in hand that was
  told. For the check that takes no lock, `LookedInv` says that a round which has decided to
  tell had found no notice in the window among what it had read, and `QuietInv` that
  the same is true of every notice in the log; both survive the passing of time because the
  window only loses events.
- **`RepairRunnerProofs`** (from `RepairAssumption`, and `OneRound`: one repair process per
  strategy, as its timer unit runs it; operator, strategy, comparison and deaths interfere all
  the same): each request is announced once, and no batch is written behind another, whole
  or broken off. `RepairInv` says for how long each thing a round has read is good: what
  it knows of a trade holds until it has handled that trade (`TraceInv`, `KnowsInv`), and
  what it is going to announce has not been announced (`TellsInv`).
- **`UnrecordedFillProofs`** (from `FillAssumption` and `OrdersAssumption`; the model has one
  round at a time): orders that are not the strategy's are left alone, no order is written
  twice, nothing is told twice, what is announced is written and queued, and a RECONCILED stays
  earned. `FillInv` has a part
  for each stage of a round. The ledger is read again before the append, and `FreshInv` says
  that the orders in hand are not in it then, whatever the round saw at its start; `WaitInv`
  says which orders each open request stands for when the round comes to withdraw it;
  `NewsInv` that what is about to be told stands in the ledger and has not been told, also
  when the round is a later one that found the evidence of a dead one. For the verdict,
  `ExplainedOnce` shows of the matching itself, row by row, that each explained fill has an
  adopted position of its own; the induction is over the set of row numbers up to which
  that holds (`Induction`).
- **`ObservationWatchProofs`** (from `WatchAssumption` and `ObservationAssumption`): what is
  on record as told is not told again, two streaks are earned by observations that cover the
  time, a stop that is said to have moved was tightened by some order in the time of the
  trade it is said of, and a trade is listed as arrived only if it is shown. `WatchInv` says
  who may run and what an entry that is being saved is made of; `StreakInv`, `StopInv` and
  `SheetInv` say what the memory of each kind of check means, and are inductive beside it.
  What a check reads one document after another may have changed in between: the invariants
  speak of the moment each was read.

**Only model-checked.** Liveness (`QueueSettles`, `OrphansSettle`, `RequestsSettle`,
`MarkersAreTold`, `CorrectionsAreTold`, `OrdersSettle`, `VerdictSettles`, `NewsIsHeard`),
which needs fairness and ENABLED. Every safety property of a passing run is a theorem. The
type invariants of outbox, receiver, queue and notices are theorems, that of the repair
runner is a part of `RepairInv`. `FillTypeOK` is in no theorem: that the figures of a
correction are orders goes through the first row of a filtered ledger (`View`), and the
library's facts about filtering take an operator; the proofs take from it the parts they
need (`ShapeInv`).

## What is not modelled, and why

- The receiver's unsigned legacy handlers, its health cell and its one-off label
  conversions; digests and signatures (payloads are their own identity).
- What evidence proves and the figures of the rows a repair writes: `Fetch` chooses a
  result. The rows enter the model only as a close and a trace.
- The torn lines of the outbox file: its readers then refuse everything, as those of the
  request queue do, where this is modelled.
- The bounded wait for a lock (`lock_timeout`): an operation that gives up changes nothing.
- In the comparison with the sheet: the operator's ignore list, the grace of single rows,
  estimated figures and paper rows. `DivergedIsUndelivered` speaks of rows past the grace.
- Prices and quantities of a correction, and the note it carries.
- Of the observation watch: the checks that remember nothing (each is `event`), the
  reminders of f-39, whose memory only words a message, the wording of all messages, and
  two runs started by hand within one interval, which the streaks would count as one gap.
- Safe halt: functions of the events of one moment; the strategies that keep the latch are
  not in this repository.
- Channels, exports, health documents, registry, glossary, catalog, schemas, exchange
  client, guides and page scripts: single calls, pure functions of one document, or data.

## Plan

Done: outbox, receiver, client and sheet comparison and their composition, request queue,
repair runner, unrecorded fills with corrections and the comparison with the exchange,
notices, observation watch; proofs of the safety properties of all of them. What
could follow:

1. `LedgerFile`: the bytes of the ledger with the unlocked writer beside
   `append_lines_atomically`; torn lines of the outbox in the same way.
2. `UnrecordedFill` and `RepairRunner` over one ledger and one request queue, in place of
   the *others* each of them has.
3. What a RECONCILED of the comparison with the sheet says about the rows, as a theorem: the
   invariants of `CompareInv` read in the other direction.
