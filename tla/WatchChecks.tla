----------------------------- MODULE WatchChecks -----------------------------
(***************************************************************************)
(* The checks of the observation watch that remember something from one    *)
(* run to the next (src/scripts/observation_watch.py): what each makes of  *)
(* what it reads and of the memory it saved in the run before.             *)
(* A result is [state, key, closable, extra]; extra is the next memory.    *)
(***************************************************************************)
EXTENDS Integers, Sequences, FiniteSets, FiniteSetsExt

CONSTANTS Strategies, Trades, NoTrade,
          SideOf,       \* the side of a trade: "long" or "short"
          Grace,        \* RECONCILE_GRACE
          Fresh,        \* how old a status file may be
          Carry,        \* F26_CARRY_HOURS
          Stable,       \* STABLE_STREAK
          MaxGap        \* STREAK_MAX_GAP

\* An order id is a number, 0 is none.
NoOrder == 0

ASSUME WatchAssumption ==
  /\ SideOf \in [Trades -> {"long", "short"}]
  /\ {Grace, Fresh, Carry, Stable, MaxGap} \subseteq Nat

Never == -1

\* _fresh
IsFresh(at, now) == at # Never /\ at \in now - Fresh .. now + Fresh

Result(state, key, closable, extra) ==
  [state |-> state, key |-> key, closable |-> closable, extra |-> extra]

Waiting(extra) == Result("waiting", {}, FALSE, extra)

-----------------------------------------------------------------------------
(* f-26: every strategy's last trade is on its sheet.                      *)

\* reconcile_covers: the sheet was compared after the grace of the last trade.
Covers(status, last, now) ==
  IF status.checked < last + Grace \/ ~IsFresh(status.checked, now) THEN "pending"
  ELSE CASE status.value = "RECONCILED" -> "covered"
         [] status.value = "DIVERGED"   -> "diverged"
         [] OTHER                       -> "pending"

\* reconcile_pending_reason
PendingReason(status, last, now) ==
  CASE ~IsFresh(status.checked, now) -> "stale"
    [] IsFresh(status.checked, now) /\ status.value = "UNKNOWN" -> "unknown"
    [] OTHER -> IF status.value # "none" /\ status.checked < last + Grace THEN "grace" ELSE "stale"

\* A strategy that cannot be judged in this run is carried for a while.
MayCarry(status, last, since, now) ==
  /\ since # Never /\ now - since \in 0 .. Carry
  /\ PendingReason(status, last, now) \in {"unknown", "grace"}

\* One strategy: what its status and its trades say, and the memory of it.
TabVerdict(status, trades, since, now) ==
  IF ~status.tab THEN "bad"
  ELSE IF trades = {} THEN "waiting"
  ELSE LET last == Max({t.at : t \in trades}) IN
       CASE Covers(status, last, now) = "covered"  -> "ok"
         [] Covers(status, last, now) = "diverged" -> "bad"
         [] OTHER -> IF MayCarry(status, last, since, now) THEN "carried" ELSE "waiting"

\* Mutant of Confirmed: a carried confirmation counts from now on.
ConfirmedAnew(verdict, since, now) == IF verdict \in {"ok", "carried"} THEN now ELSE Never

\* The time of the confirmation that a strategy's line rests on.
Confirmed(verdict, since, now) ==
  CASE verdict = "ok"      -> now
    [] verdict = "carried" -> since
    [] OTHER               -> Never

\* check_sheet_tab_names: got is what was read, status and ledger of each strategy.
TabsResult(got, previous, now) ==
  LET verdict == [s \in Strategies |->
                    TabVerdict(got[<<s, "status">>], got[<<s, "ledger">>], previous[s], now)]
      extra   == [s \in Strategies |-> Confirmed(verdict[s], previous[s], now)]
      bad     == {s \in Strategies : verdict[s] = "bad"}
  IN CASE bad # {} -> Result("failed", bad, FALSE, extra)
       [] \A s \in Strategies : verdict[s] = "ok" -> Result("observed", {"all"}, TRUE, extra)
       [] OTHER -> Waiting(extra)

\* check_competition_fill and check_dev_trend_entry: one strategy, nothing remembered.
FillResult(status, trades, now) ==
  IF trades = {} THEN Waiting({})
  ELSE LET verdict == Covers(status, Max({t.at : t \in trades}), now)
       IN CASE verdict = "covered"  -> Result("observed", {Cardinality(trades)}, TRUE, {})
            [] verdict = "diverged" -> Result("failed", {}, FALSE, {})
            [] OTHER                -> Waiting({})

-----------------------------------------------------------------------------
(* f-45 and x8: healthy for days on end.                                   *)

NoStreak == [since |-> Never, seen |-> Never]

\* Mutant of Streak: a streak goes on whatever happened since it was seen last.
StreakAnyGap(previous, now) ==
  [since |-> IF previous.since = Never THEN now ELSE previous.since, seen |-> now]

\* _streak: it starts again after a stretch that no run saw.
Streak(previous, now) ==
  LET goesOn == /\ previous.since # Never /\ previous.seen # Never
                /\ now - previous.seen \in 0 .. MaxGap
  IN [since |-> IF goesOn THEN previous.since ELSE now, seen |-> now]

StreakResult(previous, now) ==
  LET extra == Streak(previous, now)
  IN IF now - extra.since >= Stable THEN Result("observed", {"stable"}, TRUE, extra)
     ELSE Waiting(extra)

\* check_health_publish: both publishers.
HealthResult(got, previous, now) ==
  LET broken == {h \in DOMAIN got : got[h] = "broken"}
  IN CASE broken # {} -> Result("failed", broken, FALSE, NoStreak)
       [] \A h \in DOMAIN got : got[h] = "healthy" -> StreakResult(previous, now)
       [] OTHER -> Waiting(NoStreak)

\* check_a1_stable: all the readings of the operations watch, a paused one is not bad.
StableResult(got, previous, now) ==
  IF got["readings"] = "healthy" THEN StreakResult(previous, now) ELSE Waiting(NoStreak)

-----------------------------------------------------------------------------
(* x5b and x5: the strategy opens a trade, moves its stop and is stopped.  *)

NoStop == [ids |-> {}, price |-> 0, last |-> NoOrder]

Tighter(t, price, than) == IF SideOf[t] = "short" THEN price < than ELSE price > than

\* Mutant of Moved: every new order id is a move.
MovedByAnyone(t, stop, entries, memory) == TRUE

\* A new order counts as a move if it is tighter than what the run before saw.
Moved(t, stop, entries, memory) ==
  t \in entries /\ memory.price # 0 /\ Tighter(t, stop.price, memory.price)

\* _follow_stop: stop is what the strategy's state file says, no trade while it is flat.
FollowStop(previous, stop, entries) ==
  LET t       == stop.trade
      memory  == previous[t]
      counts  == /\ stop.order # memory.last /\ stop.order \notin memory.ids
                 /\ memory.ids = {} \/ Moved(t, stop, entries, memory)
      follows == [ids   |-> IF counts THEN memory.ids \cup {stop.order} ELSE memory.ids,
                  price |-> stop.price,
                  last  |-> stop.order]
  IN [u \in Trades |-> CASE u \notin entries -> NoStop
                         [] u \in entries /\ u = t -> follows
                         [] OTHER -> previous[u]]

MovedTrades(memory) == {t \in Trades : Cardinality(memory[t].ids) >= 2}

\* check_dev_crypto_x5b
X5bResult(got, previous) ==
  LET extra  == FollowStop(previous, got.stop, got.ledger.entries)
      stages == (IF MovedTrades(extra) # {} THEN {"move"} ELSE {})
                  \cup (IF got.ledger.stopped # {} THEN {"stop"} ELSE {})
  IN CASE got.ledger.entries = {} -> Waiting(previous)
       [] got.ledger.entries # {} /\ got.verdict = "diverged" -> Result("failed", {}, FALSE, extra)
       [] OTHER -> Result("observed", {"entry"} \cup stages \cup got.ledger.entries, FALSE, extra)

\* check_crypto_stop: the verdict is only asked for after a stop.
StopResult(got, previous) ==
  LET extra  == FollowStop(previous, got.stop, got.ledger.entries)
      moved  == IF MovedTrades(extra) # {} THEN {"move"} ELSE {}
      stopOk == IF got.ledger.stopped # {} /\ got.verdict = "covered" THEN {"stop"} ELSE {}
  IN CASE got.ledger.stopped # {} /\ got.verdict = "diverged" ->
            Result("failed", got.ledger.stopped, FALSE, extra)
       [] moved \cup stopOk = {} -> Waiting(extra)
       [] OTHER -> Result("observed", moved \cup stopOk, FALSE, extra)
=============================================================================
