--------------------------- MODULE ObservationWatch ---------------------------
(***************************************************************************)
(* The observation watch (src/scripts/observation_watch.py): a timer and   *)
(* the operator start runs; a run holds the lock of the state file, reads  *)
(* what its checks look at piece by piece, tells the operator what is new  *)
(* over LINE or, when LINE keeps failing, over Telegram, and saves what it *)
(* knows at the very end.  It may be killed before that, or unable to save.*)
(* The entry of one check is followed; entries share nothing but the file. *)
(***************************************************************************)
EXTENDS WatchChecks, SequencesExt

CONSTANTS Runs, Nobody, Kinds, Facts, Prices,
          SheetGrace,           \* how long the sheet comparison lets a row be missing
          ErrorsBeforeNotice, FailuresBeforeTelegram,
          MaxTrades, MaxOrders, MaxTime, MaxFaults    \* bounds, the last one by kind

VARIABLES kind,     \* which check is followed
          world,    \* what it looks at
          clock,
          file,     \* the saved entry of the check
          lock,
          run,
          heard,    \* the last message the watch has on record as told, until it was waiting
          settled,  \* the last message the operator acknowledged
          looks,    \* when saved runs saw all healthy, since one saw it otherwise
          faults    \* failures that may still happen

\* The comparison complains a little earlier than the watch asks for it, and numbers
\* compare.
ASSUME ObservationAssumption ==
  /\ Nobody \notin Runs /\ NoTrade \notin Trades /\ Prices \subseteq Nat
  /\ IsFiniteSet(Strategies) /\ Strategies # {}
  /\ SheetGrace \in Nat /\ SheetGrace < Grace

vars == <<kind, world, clock, file, lock, run, heard, settled, looks, faults>>
watch == <<file, lock, run, heard, settled, looks, faults>>

NoMessage == <<>>
NoFailures == [key |-> NoMessage, n |-> 0]

Sheets == {"tabs", "fill"}
Streaks == {"health", "stable"}
Stops == {"x5b", "stop"}

\* What a check remembers before its first run.
NoMemory(k) == CASE k = "tabs"    -> [s \in Strategies |-> Never]
                 [] k \in Streaks -> NoStreak
                 [] k \in Stops   -> [t \in Trades |-> NoStop]
                 [] OTHER         -> {}

NoEntry(k) == [state |-> "none", key |-> {}, closable |-> FALSE, at |-> 0, errors |-> 0,
               extra |-> NoMemory(k), notified |-> NoMessage, acked |-> NoMessage,
               failures |-> NoFailures]

Idle(k) == [pc |-> "idle", now |-> 0, got |-> <<>>, told |-> FALSE, entry |-> NoEntry(k)]

Message(entry) == <<entry.state, entry.key>>

-----------------------------------------------------------------------------
(* What the checks look at.                                                *)

\* Until the first comparison the status file is the one of the tab's old name.
OldTab == [value |-> "none", checked |-> Never, tab |-> FALSE]

\* A check without a memory may return anything; the others start with nothing done.
Worlds(k) ==
  CASE k = "event"  -> {<<"waiting", {}>>}
    [] k \in Sheets -> {[s \in Strategies |-> [trades |-> {}, shown |-> {}, status |-> OldTab]]}
    [] k = "health" -> {[h \in {"a1", "dev"} |-> "healthy"]}
    [] k = "stable" -> {[h \in {"readings"} |-> "healthy"]}
    [] OTHER        -> {[entries |-> {}, stopped |-> {}, moved |-> {}, used |-> 0,
                         stop |-> [trade |-> NoTrade, order |-> NoOrder, price |-> 0]]}

\* The one strategy a check of a fill is about.
Followed == CHOOSE s \in Strategies : TRUE

\* The strategies in the order of the configuration.
Order == SetToSeq(Strategies)

\* What a run reads, in this order.
Sources(k) ==
  CASE k = "event"  -> <<"fact">>
    [] k = "tabs"   -> [i \in 1 .. 2 * Cardinality(Strategies) |->
                          <<Order[(i + 1) \div 2], IF i % 2 = 1 THEN "status" ELSE "ledger">>]
    [] k = "fill"   -> <<<<Followed, "ledger">>, <<Followed, "status">>>>
    [] k = "health" -> <<"a1", "dev">>
    [] k = "stable" -> <<"readings">>
    [] OTHER        -> <<"ledger", "stop", "verdict">>

Unread(k, got) == {i \in DOMAIN Sources(k) : Sources(k)[i] \notin DOMAIN got}

\* What reading a source gives now.
Reading(source) ==
  CASE kind = "event"    -> {world}
    [] kind \in Sheets   -> {IF source[2] = "status" THEN world[source[1]].status
                                                     ELSE world[source[1]].trades}
    [] kind \in Streaks  -> {world[source]}
    [] OTHER             -> CASE source = "ledger" -> {[entries |-> world.entries, stopped |-> world.stopped]}
                              [] source = "stop"   -> {world.stop}
                              [] OTHER             -> {"covered", "diverged"}

Judged(k, got, previous, now) ==
  CASE k = "event"  -> Result(got.fact[1], got.fact[2], FALSE, {})
    [] k = "tabs"   -> TabsResult(got, previous, now)
    [] k = "fill"   -> FillResult(got[<<Followed, "status">>], got[<<Followed, "ledger">>], now)
    [] k = "health" -> HealthResult(got, previous, now)
    [] k = "stable" -> StableResult(got, previous, now)
    [] k = "x5b"    -> X5bResult(got, previous)
    [] OTHER        -> StopResult(got, previous)

-----------------------------------------------------------------------------
(* A run.                                                                  *)

At(r, pc) == run[r].pc = pc

\* What is told does not touch what a check remembers: the telling and the operator are
\* followed with the check that may return anything.
Talking == kind = "event"
AfterChecks == IF Talking THEN "tell" ELSE "save"

Fault == faults > 0 /\ faults' = faults - 1

MayEnter(r) == At(r, "idle") /\ lock = Nobody

\* main: the state is loaded under the lock; a run that finds it held gives up.
Enter(r) ==
  /\ MayEnter(r)
  /\ lock' = r
  /\ run' = [run EXCEPT ![r] = [Idle(kind) EXCEPT !.pc = "look", !.now = clock, !.entry = file]]
  /\ UNCHANGED <<kind, world, clock, file, heard, settled, looks, faults>>

With(got, source, value) ==
  [s \in DOMAIN got \cup {source} |-> IF s = source THEN value ELSE got[s]]

Read(r) ==
  /\ At(r, "look")
  /\ \E i \in Unread(kind, run[r].got) :
       /\ \A j \in Unread(kind, run[r].got) : i <= j
       /\ \E value \in Reading(Sources(kind)[i]) :
            run' = [run EXCEPT ![r].got = With(@, Sources(kind)[i], value)]
  /\ UNCHANGED <<kind, world, clock, file, lock, heard, settled, looks, faults>>

\* Mutant of Updated: the count of failed runs is not taken over.
UpdatedForgettingFailures(old, result, errors, now) ==
  [old EXCEPT !.state = result.state, !.key = result.key, !.closable = result.closable,
              !.extra = result.extra, !.errors = errors, !.at = now, !.failures = NoFailures,
              !.notified = IF result.state = "waiting" THEN NoMessage ELSE @]

\* run_checks: the entry takes the result; waiting makes the next message news.
Updated(old, result, errors, now) ==
  [old EXCEPT !.state = result.state, !.key = result.key, !.closable = result.closable,
              !.extra = result.extra, !.errors = errors, !.at = now,
              !.notified = IF result.state = "waiting" THEN NoMessage ELSE @]

Judge(r) ==
  /\ At(r, "look") /\ Unread(kind, run[r].got) = {}
  /\ run' = [run EXCEPT ![r].pc = AfterChecks, ![r].entry =
               Updated(@, Judged(kind, run[r].got, @.extra, run[r].now), 0, run[r].now)]
  /\ UNCHANGED <<kind, world, clock, file, lock, heard, settled, looks, faults>>

\* Something could not be read: the memory stays as it was.
ReadFails(r) ==
  /\ At(r, "look") /\ Fault
  /\ run' = [run EXCEPT ![r].pc = AfterChecks, ![r].got = <<>>, ![r].entry =
               Updated(@, Result("error", {}, FALSE, @.extra), @.errors + 1, run[r].now)]
  /\ UNCHANGED <<kind, world, clock, file, lock, heard, settled, looks>>

\* notice_for
Notice(entry) ==
  /\ entry.state \in {"observed", "failed", "error"} /\ entry.notified # Message(entry)
  /\ entry.state = "error" => entry.errors >= ErrorsBeforeNotice
  /\ entry.state = "observed" => entry.acked # Message(entry)

Told(entry) == [entry EXCEPT !.notified = Message(entry), !.failures = NoFailures]

\* _failed_runs, this one included.
FailedRuns(entry) ==
  1 + (IF entry.failures.key = Message(entry) THEN entry.failures.n ELSE 0)

NothingToTell(r) ==
  /\ At(r, "tell") /\ ~Notice(run[r].entry)
  /\ run' = [run EXCEPT ![r].pc = "save", ![r].entry.failures = NoFailures]
  /\ UNCHANGED <<kind, world, clock, file, lock, heard, settled, looks, faults>>

Reaches(r) ==
  /\ run' = [run EXCEPT ![r].pc = "save", ![r].told = TRUE, ![r].entry = Told(@)]
  /\ UNCHANGED <<kind, world, clock, file, lock, heard, settled, looks>>

\* LINE takes the message.
TellByLine(r) == /\ At(r, "tell") /\ Notice(run[r].entry) /\ Reaches(r)
                 /\ UNCHANGED faults

\* Nobody confirms the message; the operator may have got it all the same.
Fails(r, reached) ==
  /\ run' = [run EXCEPT ![r].pc = "save", ![r].told = reached,
                        ![r].entry.failures = [key |-> Message(run[r].entry), n |-> FailedRuns(run[r].entry)]]
  /\ UNCHANGED <<kind, world, clock, file, lock, heard, settled, looks>>

\* LINE fails, as often as it likes: it is too early for Telegram, or Telegram takes
\* the message, or fails too.  A call whose answer is lost has failed, also when the
\* message had arrived.
LineFails(r) ==
  /\ At(r, "tell") /\ Notice(run[r].entry)
  /\ \E reached \in BOOLEAN :
       \/ FailedRuns(run[r].entry) < FailuresBeforeTelegram /\ Fails(r, reached) /\ UNCHANGED faults
       \/ FailedRuns(run[r].entry) >= FailuresBeforeTelegram /\ Reaches(r) /\ UNCHANGED faults
       \/ FailedRuns(run[r].entry) >= FailuresBeforeTelegram /\ Fails(r, reached) /\ Fault

\* The message reached the operator, and the run knows.
Recorded(r) == run[r].told /\ run[r].entry.notified = Message(run[r].entry)

\* save_state replaces the file, and the run ends.
Save(r) ==
  /\ At(r, "save")
  /\ file' = run[r].entry
  /\ heard' = CASE Recorded(r) -> Message(run[r].entry)
                [] run[r].entry.state = "waiting" -> NoMessage
                [] OTHER -> heard
  /\ looks' = IF kind \notin Streaks \/ run[r].got = <<>> THEN looks
              ELSE IF \A h \in DOMAIN run[r].got : run[r].got[h] = "healthy"
                     THEN looks \cup {run[r].now} ELSE {}
  /\ lock' = Nobody /\ run' = [run EXCEPT ![r] = Idle(kind)]
  /\ UNCHANGED <<kind, world, clock, settled, faults>>

\* The run is killed, or cannot save: what it said is not remembered.
Lose(r) ==
  /\ ~At(r, "idle") /\ Fault
  /\ lock' = Nobody /\ run' = [run EXCEPT ![r] = Idle(kind)]
  /\ UNCHANGED <<kind, world, clock, file, heard, settled, looks>>

\* Mutant of MayAck: the lock is not waited for.
MayAckAnyway == Talking /\ file.state # "none"

MayAck == Talking /\ file.state # "none" /\ lock = Nobody

\* ack waits for the lock, and marks what the entry says now.
Ack ==
  /\ MayAck
  /\ file' = [file EXCEPT !.acked = Message(file)]
  /\ settled' = Message(file)
  /\ UNCHANGED <<kind, world, clock, lock, run, heard, looks, faults>>

Step(r) == \/ Read(r) \/ Judge(r) \/ NothingToTell(r) \/ TellByLine(r) \/ LineFails(r) \/ Save(r)

-----------------------------------------------------------------------------
(* The world moves on.                                                     *)

\* A run takes less than a unit of time.
Tick == /\ kind \in Sheets \cup Streaks /\ clock < MaxTime /\ lock = Nobody
        /\ clock' = clock + 1
        /\ UNCHANGED <<kind, world, watch>>

Happens == /\ kind = "event"
           /\ \E f \in Facts \ {world} : world' = f
           /\ UNCHANGED <<kind, clock, watch>>

\* A trade is recorded when it is made, or later.
Trade == /\ kind \in Sheets /\ clock < MaxTime
         /\ \E s \in Strategies, late \in BOOLEAN :
              /\ Cardinality(world[s].trades) < MaxTrades /\ (late => clock > 0)
              /\ world' = [world EXCEPT ![s].trades =
                             @ \cup {[at |-> IF late THEN clock - 1 ELSE clock, late |-> late]}]
         /\ UNCHANGED <<kind, clock, watch>>

ReachesSheet == /\ kind \in Sheets
                /\ \E s \in Strategies : \E t \in world[s].trades \ world[s].shown :
                     world' = [world EXCEPT ![s].shown = @ \cup {t}]
                /\ UNCHANGED <<kind, clock, watch>>

\* The strategy's comparison with its sheet, which may fail to read it.
CompareSheet ==
  /\ kind \in Sheets
  /\ \E s \in Strategies :
       LET missing == {t \in world[s].trades \ world[s].shown : clock - t.at > SheetGrace}
       IN \E value \in {"UNKNOWN", IF missing = {} THEN "RECONCILED" ELSE "DIVERGED"} :
            world' = [world EXCEPT ![s].status = [value |-> value, checked |-> clock, tab |-> TRUE]]
  /\ UNCHANGED <<kind, clock, watch>>

\* Only a publisher is broken after some time of failing.
Health == /\ kind \in Streaks
          /\ \E h \in DOMAIN world, value \in {"healthy", "unhealthy", "broken"} :
               /\ value = "broken" => kind = "health" /\ world[h] = "unhealthy"
               /\ world' = [world EXCEPT ![h] = value]
          /\ UNCHANGED <<kind, clock, watch>>

NewOrder == world.used + 1

MayOrder == world.used < MaxOrders

\* The strategy opens a trade and records it, moves its stop, or is stopped.
OpenTrade == /\ kind \in Stops /\ world.stop.trade = NoTrade
             /\ MayOrder
             /\ \E t \in Trades \ world.entries, p \in Prices :
                  world' = [world EXCEPT !.stop = [trade |-> t, order |-> NewOrder, price |-> p],
                                         !.used = @ + 1]
             /\ UNCHANGED <<kind, clock, watch>>

RecordEntry == /\ kind \in Stops /\ world.stop.trade # NoTrade
               /\ world' = [world EXCEPT !.entries = @ \cup {world.stop.trade}]
               /\ UNCHANGED <<kind, clock, watch>>

MoveStop == /\ kind \in Stops /\ world.stop.trade # NoTrade /\ MayOrder
            /\ \E p \in Prices :
                 /\ Tighter(world.stop.trade, p, world.stop.price)
                 /\ world' = [world EXCEPT !.stop.order = NewOrder, !.stop.price = p, !.used = @ + 1,
                                           !.moved = @ \cup {world.stop.trade}]
            /\ UNCHANGED <<kind, clock, watch>>

\* Somebody else's order takes the place of the stop, at any price.
ForeignOrder == /\ kind \in Stops /\ world.stop.trade # NoTrade /\ MayOrder
                /\ \E p \in Prices :
                     world' = [world EXCEPT !.stop.order = NewOrder, !.stop.price = p, !.used = @ + 1,
                                            !.moved = IF Tighter(world.stop.trade, p, world.stop.price)
                                                        THEN @ \cup {world.stop.trade} ELSE @]
                /\ UNCHANGED <<kind, clock, watch>>

CloseTrade == /\ kind \in Stops /\ world.stop.trade \in world.entries
              /\ \E stopped \in BOOLEAN :
                   world' = [world EXCEPT !.stop = [trade |-> NoTrade, order |-> NoOrder, price |-> 0],
                                          !.stopped = IF stopped THEN @ \cup {world.stop.trade} ELSE @]
              /\ UNCHANGED <<kind, clock, watch>>

Outside == \/ Tick \/ Happens \/ Trade \/ ReachesSheet \/ CompareSheet \/ Health
           \/ OpenTrade \/ RecordEntry \/ MoveStop \/ ForeignOrder \/ CloseTrade

-----------------------------------------------------------------------------
Init == /\ kind \in Kinds /\ world \in Worlds(kind) /\ clock = 0
        /\ file = NoEntry(kind) /\ lock = Nobody /\ run = [r \in Runs |-> Idle(kind)]
        /\ heard = NoMessage /\ settled = NoMessage /\ looks = {} /\ faults = MaxFaults[kind]

Next == \/ \E r \in Runs : Enter(r) \/ Step(r) \/ ReadFails(r) \/ Lose(r)
        \/ Ack \/ Outside

Spec == Init /\ [][Next]_vars

\* The timer starts runs again and again, and a run that is not killed goes on.
FairSpec == Spec /\ WF_vars(\E r \in Runs : Enter(r)) /\ \A r \in Runs : WF_vars(Step(r))

-----------------------------------------------------------------------------
\* What reaches the operator is news: not the last message the watch has on record as
\* told, and nothing observed that he has acknowledged last.  "Never again for the same
\* thing" (observation_watch.py:13-14) goes no further: a message is repeated when the run
\* that told it was lost or could not be saved, or when the answer of LINE or Telegram
\* was lost (1364-1368), because neither leaves a record; or after waiting in between.
NewsOnly ==
  [][\A r \in Runs : (run'[r].told /\ ~run[r].told) =>
       LET message == Message(run[r].entry)
       IN heard # message /\ (message[1] = "observed" => settled # message)]_vars

\* Whatever LINE does, a result that stays is heard in the end, or acknowledged.
NewsIsHeard ==
  \A f \in {g \in Facts : g[1] # "waiting"} :
    <>[](kind = "event" /\ world = f) => <>[](heard = f \/ settled = f)

\* The strategies a check of the sheet looks at.
LookedAt == IF kind = "fill" THEN {Followed} ELSE Strategies

\* An entry that may be closed shows every trade made before the run; one that lists a
\* strategy as confirmed shows what is older than the confirmation may be.  This is
\* about trades recorded when they were made, of the strategies the check looks at.
ListedIsShown ==
  (kind \in Sheets /\ file.state \notin {"none", "error"}) =>
    \A s \in LookedAt : \A t \in world[s].trades :
      (/\ file.closable \/ (kind = "tabs" /\ file.extra[s] # Never)
       /\ ~t.late
       /\ t.at < (IF file.closable THEN file.at ELSE file.at - Carry)) => t \in world[s].shown

\* "Stable" was earned: saved looks over all that time, none too long after the one
\* before, and every one healthy.
StableIsEarned ==
  (kind \in Streaks /\ file.closable) =>
    \E first \in looks :
      /\ first <= file.at - Stable
      /\ \A t \in first .. file.at - 1 : \E look \in looks : look \in t + 1 .. t + MaxGap

\* A move is only claimed of a trade whose stop a new order has tightened.  "Only the
\* strategy tightening its stop" (observation_watch.py:494-496) is more than _follow_stop
\* can see: it takes a stranger's order that tightens the stop for a move as well.
MovedIsReal == kind \in Stops => MovedTrades(file.extra) \subseteq world.moved
=============================================================================
