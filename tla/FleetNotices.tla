----------------------------- MODULE FleetNotices -----------------------------
(***************************************************************************)
(* The notices a repair round derives from what is in the files            *)
(* (src/src/trade_alerts/repair_runner.py _check_recurring and             *)
(* _check_pending_expired, pending_expired_notice.py): repairs that keep   *)
(* happening, and reconciliation markers that nobody waits for any more.   *)
(*                                                                         *)
(* Both keep no state of their own: what was said before is read back from *)
(* the event log.  The second takes the log's lock for that, the first does*)
(* not.                                                                    *)
(***************************************************************************)
EXTENDS Naturals, Sequences, FiniteSets

CONSTANTS
  Rounds,     \* processes that may check at the same time
  Nobody,     \* who holds a free lock
  Markers,    \* trade ids of markers, or episodes of a stuck batch
  Threshold,  \* RECURRING_THRESHOLD
  MaxLog,     \* bound: repairs happen below this many events
  MaxDeaths   \* bound: rounds that do not get to their end

ASSUME NoticeAssumption ==
  /\ IsFiniteSet(Rounds) /\ Nobody \notin Rounds
  /\ Threshold \in Nat \ {0} /\ MaxLog \in Nat /\ MaxDeaths \in Nat

VARIABLES
  log,      \* the fleet event log
  old,      \* how many of its events are older than RECURRING_WINDOW_DAYS
  expired,  \* expired markers of a RECONCILED ledger_status.json, else {}
  lock,     \* the holder of the log's .lock file
  round,    \* round[r]: the step and what it has read
  deaths    \* how many rounds did not get to their end

vars == <<log, old, expired, lock, round, deaths>>

\* `read' remembers how much of the log the check for recurring repairs has seen.
Event == [code : {"REPAIRED"}] \cup [code : {"RECURRING"}, read : Nat]
           \cup [code : {"EXPIRED"}, ids : (SUBSET Markers) \ {{}}]
Round == [pc : {"idle", "recurring", "pending", "locked"}] \cup [pc : {"tell_recurring"}, read : Nat]
           \cup [pc : {"tell_expired"}, ids : (SUBSET Markers) \ {{}}]

Recent(c) == {k \in old + 1 .. Len(log) : log[k].code = c}

\* _announced_trade_ids: over the whole log, not only the window.
Told == UNION {log[k].ids : k \in {n \in DOMAIN log : log[n].code = "EXPIRED"}}

-----------------------------------------------------------------------------
Init == /\ log = <<>> /\ old = 0 /\ expired = {} /\ lock = Nobody /\ deaths = 0
        /\ round = [r \in Rounds |-> [pc |-> "idle"]]

Goto(r, pc) == round' = [round EXCEPT ![r] = [pc |-> pc]]

\* A repair is recorded, by this round or another.
Repair == /\ Len(log) < MaxLog
          /\ log' = Append(log, [code |-> "REPAIRED"])
          /\ UNCHANGED <<old, expired, lock, round, deaths>>

\* Time passes.
Age == /\ \E n \in old + 1 .. Len(log) : old' = n
       /\ UNCHANGED <<log, expired, lock, round, deaths>>

\* The comparison publishes its verdict.
Publish == /\ expired' \in SUBSET Markers
           /\ UNCHANGED <<log, old, lock, round, deaths>>

Begin(r) == /\ round[r].pc = "idle"
            /\ Goto(r, "recurring")
            /\ UNCHANGED <<log, old, expired, lock, deaths>>

\* Mutants of Recurs: the notice is not looked for, or counted for ever.
RecursAgain == Cardinality(Recent("REPAIRED")) >= Threshold
RecursOnce  == /\ Cardinality(Recent("REPAIRED")) >= Threshold
               /\ \A k \in DOMAIN log : log[k].code # "RECURRING"

Recurs == /\ Cardinality(Recent("REPAIRED")) >= Threshold
          /\ Recent("RECURRING") = {}

\* _check_recurring
CheckRecurring(r) ==
  /\ round[r].pc = "recurring"
  /\ IF Recurs THEN round' = [round EXCEPT ![r] = [pc |-> "tell_recurring", read |-> Len(log)]]
     ELSE Goto(r, "pending")
  /\ UNCHANGED <<log, old, expired, lock, deaths>>

TellRecurring(r) ==
  /\ round[r].pc = "tell_recurring"
  /\ log' = Append(log, [code |-> "RECURRING", read |-> round[r].read])
  /\ Goto(r, "pending")
  /\ UNCHANGED <<old, expired, lock, deaths>>

\* Mutant of LockLog: the notice is planned without the lock.
LockLogNot(r) ==
  /\ round[r].pc = "pending"
  /\ Goto(r, "locked")
  /\ UNCHANGED <<log, old, expired, lock, deaths>>

\* _check_pending_expired, announce_batch_expired: read and append under one lock.
LockLog(r) ==
  /\ round[r].pc = "pending" /\ lock = Nobody
  /\ lock' = r
  /\ Goto(r, "locked")
  /\ UNCHANGED <<log, old, expired, deaths>>

Unlocked(r) == IF lock = r THEN Nobody ELSE lock

\* Mutant of Fresh: one notice is enough for all markers.
FreshIfNone == IF Told = {} THEN expired ELSE {}

Fresh == expired \ Told

\* plan_pending_expired_notice
PlanExpired(r) ==
  /\ round[r].pc = "locked"
  /\ IF Fresh = {} THEN Goto(r, "idle") /\ lock' = Unlocked(r)
     ELSE /\ round' = [round EXCEPT ![r] = [pc |-> "tell_expired", ids |-> Fresh]]
          /\ UNCHANGED lock
  /\ UNCHANGED <<log, old, expired, deaths>>

TellExpired(r) ==
  /\ round[r].pc = "tell_expired"
  /\ log' = Append(log, [code |-> "EXPIRED", ids |-> round[r].ids])
  /\ Goto(r, "idle")
  /\ lock' = Unlocked(r)
  /\ UNCHANGED <<old, expired, deaths>>

\* The round is killed, or an append fails.
Die(r) ==
  /\ round[r].pc # "idle" /\ deaths < MaxDeaths
  /\ deaths' = deaths + 1
  /\ Goto(r, "idle")
  /\ lock' = Unlocked(r)
  /\ UNCHANGED <<log, old, expired>>

Step(r) == Begin(r) \/ CheckRecurring(r) \/ TellRecurring(r)
             \/ LockLog(r) \/ PlanExpired(r) \/ TellExpired(r)

Next == (\E r \in Rounds : Step(r) \/ Die(r)) \/ Repair \/ Age \/ Publish

Spec == Init /\ [][Next]_vars

\* The timer starts a round again and again, and a round that is not killed goes on.
FairSpec == Spec /\ \A r \in Rounds : WF_vars(Step(r))

-----------------------------------------------------------------------------
TypeOK == /\ log \in Seq(Event)
          /\ old \in 0 .. Len(log)
          /\ expired \subseteq Markers
          /\ lock \in Rounds \cup {Nobody}
          /\ round \in [Rounds -> Round]
          /\ deaths \in 0 .. MaxDeaths

\* A marker is announced once, however many rounds run, die and start again.
ExpiredToldOnce ==
  \A k, l \in DOMAIN log :
    (log[k].code = "EXPIRED" /\ log[l].code = "EXPIRED" /\ log[k].ids \cap log[l].ids # {}) => k = l

\* A marker that stays expired is announced in the end, whatever was announced before it
\* and whichever rounds were killed (_check_pending_expired, repair_runner.py:293-300).
MarkersAreTold == \A m \in Markers : <>[](m \in expired) => <>(m \in Told)

\* "The notice then stays quiet for a full window" (repair_runner.py:84-85) holds of rounds
\* that follow each other.  The look and the append share no lock: a second notice in the
\* same window comes from a round that had looked before the first one was given, so
\* rounds that overlap do tell the operator twice.
QuietForAWindow ==
  \A k, l \in Recent("RECURRING") : k < l => log[l].read < k

\* A round that has checked leaves a notice in the window if there is reason.
RecurringIsTold ==
  [][\A r \in Rounds :
       (round[r].pc \in {"recurring", "tell_recurring"} /\ round'[r].pc = "pending")
          => (Cardinality(Recent("REPAIRED")') >= Threshold => Recent("RECURRING")' # {})]_vars
=============================================================================
