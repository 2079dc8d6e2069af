-------------------------- MODULE FleetNoticesProofs --------------------------
(***************************************************************************)
(* The notices of FleetNotices are given and are not given twice, for any  *)
(* number of rounds, markers and events.                                   *)
(***************************************************************************)
EXTENDS FleetNotices, TLAPS

\* A round that has read the log of expired markers, or is about to, holds its lock,
\* and what it is about to tell has not been told.
PlanInv ==
  \A r \in Rounds :
    /\ round[r].pc \in {"locked", "tell_expired"} => lock = r
    /\ round[r].pc = "tell_expired" => round[r].ids \cap Told = {}

NoticeInv == TypeOK /\ PlanInv /\ ExpiredToldOnce

\* A round that is about to tell had looked at the log before any notice in the window
\* was given.
LookedInv ==
  \A r \in Rounds : round[r].pc = "tell_recurring" =>
    /\ round[r].read \in 0 .. Len(log)
    /\ \A k \in Recent("RECURRING") : round[r].read < k

QuietInv == LookedInv /\ QuietForAWindow

-----------------------------------------------------------------------------
\* An append adds an event at the end and moves none.
LEMMA Appended ==
  ASSUME TypeOK, NEW e \in Event, log' = Append(log, e)
  PROVE  /\ log' \in Seq(Event)
         /\ Len(log) \in Nat /\ Len(log') = Len(log) + 1
         /\ DOMAIN log = 1 .. Len(log) /\ DOMAIN log' = 1 .. Len(log) + 1
         /\ \A k \in DOMAIN log : log'[k] = log[k]
         /\ log'[Len(log) + 1] = e
  BY DEF TypeOK

\* What is told has been told for good, and only a notice of markers adds to it.
LEMMA ToldByAppend ==
  ASSUME TypeOK, NEW e \in Event, log' = Append(log, e)
  PROVE  Told' = IF e.code = "EXPIRED" THEN Told \cup e.ids ELSE Told
<1>1. CASE e.code = "EXPIRED"
  <2>1. {n \in DOMAIN log' : log'[n].code = "EXPIRED"}
          = {n \in DOMAIN log : log[n].code = "EXPIRED"} \cup {Len(log) + 1}
    BY <1>1, Appended
  <2> QED
    BY <1>1, <2>1, Appended DEF Told
<1>2. CASE e.code # "EXPIRED"
  <2>1. {n \in DOMAIN log' : log'[n].code = "EXPIRED"} = {n \in DOMAIN log : log[n].code = "EXPIRED"}
    BY <1>2, Appended
  <2> QED
    BY <1>2, <2>1, Appended DEF Told
<1> QED
  BY <1>1, <1>2

\* A notice of markers that were not told keeps every marker told once.
LEMMA OnceByAppend ==
  ASSUME TypeOK, ExpiredToldOnce, NEW e \in Event, log' = Append(log, e),
         e.code = "EXPIRED" => e.ids \cap Told = {}
  PROVE  ExpiredToldOnce'
<1> SUFFICES ASSUME NEW k \in DOMAIN log', NEW l \in DOMAIN log',
                    log'[k].code = "EXPIRED", log'[l].code = "EXPIRED",
                    log'[k].ids \cap log'[l].ids # {}
             PROVE  k = l
  BY DEF ExpiredToldOnce
<1>1. \A n \in DOMAIN log : log[n].code = "EXPIRED" => log[n].ids \subseteq Told
  BY DEF Told
<1>2. CASE k \in DOMAIN log /\ l \in DOMAIN log
  BY <1>2, Appended DEF ExpiredToldOnce
<1>3. CASE k = Len(log) + 1 /\ l \in DOMAIN log
  BY <1>1, <1>3, Appended
<1>4. CASE l = Len(log) + 1 /\ k \in DOMAIN log
  BY <1>1, <1>4, Appended
<1> QED
  BY <1>2, <1>3, <1>4, Appended

\* An append adds itself to the events of its code in the window, and nothing else.
LEMMA RecentByAppend ==
  ASSUME TypeOK, NEW e \in Event, log' = Append(log, e), old' = old, NEW c
  PROVE  Recent(c)' = IF e.code = c THEN Recent(c) \cup {Len(log) + 1} ELSE Recent(c)
<1>1. old \in Nat /\ old <= Len(log)
  BY Appended DEF TypeOK
<1> QED
  BY <1>1, Appended DEF Recent

-----------------------------------------------------------------------------
\* The variables keep their types.
LEMMA TypeStep == TypeOK /\ [Next]_vars => TypeOK'
<1> SUFFICES ASSUME TypeOK, [Next]_vars PROVE TypeOK'
  OBVIOUS
<1>1. ASSUME NEW r \in Rounds, Begin(r) PROVE TypeOK'
  BY <1>1 DEF TypeOK, Begin, Goto, Round
<1>2. ASSUME NEW r \in Rounds, CheckRecurring(r) PROVE TypeOK'
  <2>1. CASE Recurs
    <3>1. [pc |-> "tell_recurring", read |-> Len(log)] \in Round
      BY DEF TypeOK, Round
    <3> QED
      BY <1>2, <2>1, <3>1 DEF TypeOK, CheckRecurring
  <2>2. CASE ~Recurs
    BY <1>2, <2>2 DEF TypeOK, CheckRecurring, Goto, Round
  <2> QED
    BY <2>1, <2>2
<1>3. ASSUME NEW r \in Rounds, TellRecurring(r) PROVE TypeOK'
  <2>1. [code |-> "RECURRING", read |-> round[r].read] \in Event
    BY <1>3 DEF TypeOK, TellRecurring, Round, Event
  <2> QED
    BY <1>3, <2>1, Appended DEF TypeOK, TellRecurring, Goto, Round
<1>4. ASSUME NEW r \in Rounds, LockLog(r) PROVE TypeOK'
  BY <1>4 DEF TypeOK, LockLog, Goto, Round
<1>5. ASSUME NEW r \in Rounds, PlanExpired(r) PROVE TypeOK'
  <2>1. CASE Fresh = {}
    BY <1>5, <2>1 DEF TypeOK, PlanExpired, Goto, Unlocked, Round
  <2>2. CASE Fresh # {}
    <3>1. [pc |-> "tell_expired", ids |-> Fresh] \in Round
      BY <2>2 DEF TypeOK, Round, Fresh
    <3> QED
      BY <1>5, <2>2, <3>1 DEF TypeOK, PlanExpired
  <2> QED
    BY <2>1, <2>2
<1>6. ASSUME NEW r \in Rounds, TellExpired(r) PROVE TypeOK'
  <2>1. round[r].ids \in (SUBSET Markers) \ {{}}
    BY <1>6 DEF TypeOK, TellExpired, Round
  <2>2. [code |-> "EXPIRED", ids |-> round[r].ids] \in Event
    BY <2>1 DEF Event
  <2> QED
    BY <1>6, <2>2, Appended DEF TypeOK, TellExpired, Goto, Unlocked, Round
<1>7. ASSUME NEW r \in Rounds, Die(r) PROVE TypeOK'
  BY <1>7, NoticeAssumption DEF TypeOK, Die, Goto, Unlocked, Round
<1>8. CASE Repair
  <2>1. [code |-> "REPAIRED"] \in Event
    BY DEF Event
  <2> QED
    BY <1>8, <2>1, Appended DEF TypeOK, Repair
<1>9. CASE Age
  BY <1>9 DEF TypeOK, Age
<1>10. CASE Publish
  BY <1>10 DEF TypeOK, Publish
<1>11. CASE UNCHANGED vars
  BY <1>11 DEF TypeOK, vars
<1> QED
  BY <1>1, <1>2, <1>3, <1>4, <1>5, <1>6, <1>7, <1>8, <1>9, <1>10, <1>11 DEF Next, Step

\* No notice is planned twice, and none is given twice.
LEMMA NoticeStep == NoticeInv /\ [Next]_vars => NoticeInv'
<1> SUFFICES ASSUME NoticeInv, [Next]_vars PROVE NoticeInv'
  OBVIOUS
<1>0. TypeOK /\ TypeOK'
  BY TypeStep DEF NoticeInv
<1>1. \A r \in Rounds : Nobody # r
  BY NoticeAssumption
<1>2. ASSUME log' = log PROVE Told' = Told /\ ExpiredToldOnce'
  BY <1>2 DEF NoticeInv, Told, ExpiredToldOnce
<1>3. ASSUME NEW e \in Event, log' = Append(log, e), e.code # "EXPIRED"
      PROVE  Told' = Told /\ ExpiredToldOnce'
  BY <1>0, <1>3, ToldByAppend, OnceByAppend DEF NoticeInv
<1>4. ASSUME NEW r \in Rounds, Begin(r) PROVE NoticeInv'
  <2>1. PlanInv'
    BY <1>0, <1>2, <1>4 DEF NoticeInv, PlanInv, TypeOK, Begin, Goto
  <2> QED
    BY <1>0, <1>2, <1>4, <2>1 DEF NoticeInv, Begin
<1>5. ASSUME NEW r \in Rounds, CheckRecurring(r) PROVE NoticeInv'
  <2>1. PlanInv'
    BY <1>0, <1>2, <1>5 DEF NoticeInv, PlanInv, TypeOK, CheckRecurring, Goto
  <2> QED
    BY <1>0, <1>2, <1>5, <2>1 DEF NoticeInv, CheckRecurring
<1>6. ASSUME NEW r \in Rounds, TellRecurring(r) PROVE NoticeInv'
  <2>1. [code |-> "RECURRING", read |-> round[r].read] \in Event
    BY <1>0, <1>6 DEF TypeOK, TellRecurring, Round, Event
  <2>2. Told' = Told /\ ExpiredToldOnce'
    BY <1>3, <1>6, <2>1 DEF TellRecurring
  <2>3. PlanInv'
    BY <1>0, <1>6, <2>2 DEF NoticeInv, PlanInv, TypeOK, TellRecurring, Goto
  <2> QED
    BY <1>0, <2>2, <2>3 DEF NoticeInv
<1>7. ASSUME NEW r \in Rounds, LockLog(r) PROVE NoticeInv'
  <2>1. PlanInv'
    BY <1>0, <1>1, <1>2, <1>7 DEF NoticeInv, PlanInv, TypeOK, LockLog, Goto
  <2> QED
    BY <1>0, <1>2, <1>7, <2>1 DEF NoticeInv, LockLog
<1>8. ASSUME NEW r \in Rounds, PlanExpired(r) PROVE NoticeInv'
  <2>1. Told' = Told /\ ExpiredToldOnce'
    BY <1>2, <1>8 DEF PlanExpired
  <2>2. lock = r
    BY <1>8 DEF NoticeInv, PlanInv, PlanExpired
  <2>3. CASE Fresh = {}
    BY <1>0, <1>8, <2>1, <2>2, <2>3
    DEF NoticeInv, PlanInv, TypeOK, PlanExpired, Goto, Unlocked
  <2>4. CASE Fresh # {}
    <3>1. round' = [round EXCEPT ![r] = [pc |-> "tell_expired", ids |-> Fresh]] /\ lock' = lock
      BY <1>8, <2>4 DEF PlanExpired
    <3>2. PlanInv'
      BY <1>0, <2>1, <2>2, <3>1 DEF NoticeInv, PlanInv, TypeOK, Fresh
    <3> QED
      BY <1>0, <2>1, <3>2 DEF NoticeInv
  <2> QED
    BY <2>3, <2>4
<1>9. ASSUME NEW r \in Rounds, TellExpired(r) PROVE NoticeInv'
  <2> DEFINE e == [code |-> "EXPIRED", ids |-> round[r].ids]
  <2>1. round[r].ids \in (SUBSET Markers) \ {{}}
    BY <1>0, <1>9 DEF TypeOK, TellExpired, Round
  <2>2. e \in Event /\ log' = Append(log, e)
    BY <1>9, <2>1 DEF TellExpired, Event
  <2>3. lock = r /\ e.ids \cap Told = {}
    BY <1>9 DEF NoticeInv, PlanInv, TellExpired
  <2>4. ExpiredToldOnce'
    BY <1>0, <2>2, <2>3, OnceByAppend DEF NoticeInv
  <2>5. \A s \in Rounds \ {r} : round'[s] = round[s] /\ round[s].pc \notin {"locked", "tell_expired"}
    BY <1>0, <1>9, <2>3 DEF NoticeInv, PlanInv, TypeOK, TellExpired, Goto
  <2>6. round'[r].pc = "idle"
    BY <1>0, <1>9 DEF TypeOK, TellExpired, Goto
  <2>7. PlanInv'
    BY <2>5, <2>6 DEF PlanInv
  <2> QED
    BY <1>0, <2>4, <2>7 DEF NoticeInv
<1>10. ASSUME NEW r \in Rounds, Die(r) PROVE NoticeInv'
  <2>1. PlanInv'
    BY <1>0, <1>2, <1>10 DEF NoticeInv, PlanInv, TypeOK, Die, Goto, Unlocked
  <2> QED
    BY <1>0, <1>2, <1>10, <2>1 DEF NoticeInv, Die
<1>11. CASE Repair
  <2>1. [code |-> "REPAIRED"] \in Event
    BY DEF Event
  <2>2. Told' = Told /\ ExpiredToldOnce'
    BY <1>3, <1>11, <2>1 DEF Repair
  <2> QED
    BY <1>0, <1>11, <2>2 DEF NoticeInv, PlanInv, Repair
<1>12. CASE Age \/ Publish \/ UNCHANGED vars
  BY <1>0, <1>2, <1>12 DEF NoticeInv, PlanInv, Age, Publish, vars
<1> QED
  BY <1>4, <1>5, <1>6, <1>7, <1>8, <1>9, <1>10, <1>11, <1>12 DEF Next, Step

\* A round that decides to tell has found no notice in the window; what comes into the
\* window later comes behind what it has read, and only by another such round.
LEMMA QuietStep == TypeOK /\ QuietInv /\ [Next]_vars => QuietInv'
<1> SUFFICES ASSUME TypeOK, QuietInv, [Next]_vars PROVE QuietInv'
  OBVIOUS
<1> DEFINE R == Recent("RECURRING")
<1>0. Len(log) \in Nat /\ old \in Nat /\ old <= Len(log)
  BY DEF TypeOK
\* Nothing is added to the window, and no round has decided anew.
<1>1. ASSUME R' \subseteq R, \A k \in R' : log'[k] = log[k],
             \A r \in Rounds : round'[r].pc = "tell_recurring" => round'[r] = round[r],
             Len(log') \in Nat, Len(log) <= Len(log')
      PROVE  QuietInv'
  BY <1>0, <1>1 DEF QuietInv, LookedInv, QuietForAWindow
<1>2. ASSUME log' = log, old' \in Nat, old <= old' PROVE R' \subseteq R /\ \A k \in R' : log'[k] = log[k]
  BY <1>0, <1>2 DEF Recent
<1>3. ASSUME NEW e \in Event, log' = Append(log, e), old' = old, e.code # "RECURRING"
      PROVE  /\ R' \subseteq R /\ \A k \in R' : log'[k] = log[k]
             /\ Len(log') \in Nat /\ Len(log) <= Len(log')
  <2>1. R' = R
    BY <1>3, RecentByAppend
  <2>2. R \subseteq DOMAIN log
    BY <1>0, <1>3, Appended DEF Recent
  <2> QED
    BY <1>0, <1>3, <2>1, <2>2, Appended
<1>4. ASSUME NEW r \in Rounds, CheckRecurring(r) PROVE QuietInv'
  <2>1. R' = R /\ log' = log
    BY <1>4 DEF CheckRecurring, Recent
  <2>2. CASE Recurs
    <3>1. R' = {}
      BY <2>1, <2>2 DEF Recurs
    <3>2. \A q \in Rounds : round'[q].pc = "tell_recurring" =>
            round'[q].read = Len(log) \/ round'[q] = round[q]
      BY <1>4, <2>2 DEF TypeOK, CheckRecurring
    <3> QED
      BY <1>0, <2>1, <3>1, <3>2 DEF QuietInv, LookedInv, QuietForAWindow
  <2>3. CASE ~Recurs
    BY <1>0, <1>1, <1>4, <2>1, <2>3 DEF TypeOK, CheckRecurring, Goto
  <2> QED
    BY <2>2, <2>3
<1>5. ASSUME NEW r \in Rounds, TellRecurring(r) PROVE QuietInv'
  <2> DEFINE e == [code |-> "RECURRING", read |-> round[r].read]
  <2>1. e \in Event
    BY <1>5 DEF TypeOK, TellRecurring, Round, Event
  <2>2. R' = R \cup {Len(log) + 1}
    BY <1>5, <2>1, RecentByAppend DEF TellRecurring
  <2>3. /\ log'[Len(log) + 1].read = round[r].read
        /\ \A k \in R : log'[k] = log[k] /\ k \in Nat /\ k <= Len(log)
    BY <1>0, <1>5, <2>1, Appended DEF TellRecurring, Recent
  <2>4. \A k \in R : round[r].read < k
    BY <1>5 DEF QuietInv, LookedInv, TellRecurring
  <2>5. QuietForAWindow'
    <3> SUFFICES ASSUME NEW k \in R', NEW l \in R', k < l PROVE log'[l].read < k
      BY DEF QuietForAWindow
    <3>1. CASE l \in R
      <4>1. k \in R
        BY <1>0, <2>2, <2>3, <3>1
      <4> QED
        BY <2>3, <3>1, <4>1 DEF QuietInv, QuietForAWindow
    <3>2. CASE l = Len(log) + 1
      <4>1. k \in R
        BY <1>0, <2>2, <3>2
      <4> QED
        BY <2>3, <2>4, <3>2, <4>1
    <3> QED
      BY <2>2, <3>1, <3>2
  <2>6. LookedInv'
    <3> SUFFICES ASSUME NEW q \in Rounds, round'[q].pc = "tell_recurring"
                 PROVE  /\ round'[q].read \in 0 .. Len(log')
                        /\ \A k \in R' : round'[q].read < k
      BY DEF LookedInv
    <3>1. q # r /\ round'[q] = round[q]
      BY <1>5 DEF TypeOK, TellRecurring, Goto
    <3>2. round[q].read \in 0 .. Len(log) /\ \A k \in R : round[q].read < k
      BY <3>1 DEF QuietInv, LookedInv
    <3>3. Len(log') = Len(log) + 1
      BY <1>5, <2>1, Appended DEF TellRecurring
    <3> QED
      BY <1>0, <2>2, <3>1, <3>2, <3>3
  <2> QED
    BY <2>5, <2>6 DEF QuietInv
<1>6. ASSUME NEW r \in Rounds, Begin(r) \/ LockLog(r) \/ PlanExpired(r) \/ Die(r) PROVE QuietInv'
  <2>1. log' = log /\ old' = old
    BY <1>6 DEF Begin, LockLog, PlanExpired, Die
  <2>2. \A q \in Rounds : round'[q].pc = "tell_recurring" => round'[q] = round[q]
    BY <1>6 DEF TypeOK, Begin, LockLog, PlanExpired, Die, Goto
  <2> QED
    BY <1>0, <1>1, <1>2, <2>1, <2>2
<1>7. ASSUME NEW r \in Rounds, TellExpired(r) PROVE QuietInv'
  <2> DEFINE e == [code |-> "EXPIRED", ids |-> round[r].ids]
  <2>1. round[r].ids \in (SUBSET Markers) \ {{}}
    BY <1>7 DEF TypeOK, TellExpired, Round
  <2>2. e \in Event /\ log' = Append(log, e) /\ old' = old
    BY <1>7, <2>1 DEF TellExpired, Event
  <2>3. \A q \in Rounds : round'[q].pc = "tell_recurring" => round'[q] = round[q]
    BY <1>7 DEF TypeOK, TellExpired, Goto
  <2> QED
    BY <1>1, <1>3, <2>2, <2>3
<1>8. CASE Repair
  <2>1. [code |-> "REPAIRED"] \in Event
    BY DEF Event
  <2> QED
    BY <1>1, <1>3, <1>8, <2>1 DEF Repair
<1>9. CASE Age
  BY <1>0, <1>1, <1>2, <1>9 DEF Age
<1>10. CASE Publish \/ UNCHANGED vars
  BY <1>0, <1>1, <1>2, <1>10 DEF Publish, vars
<1> QED
  BY <1>4, <1>5, <1>6, <1>7, <1>8, <1>9, <1>10 DEF Next, Step

\* A round that goes on after its check leaves a notice in the window if there is reason.
LEMMA ToldStep ==
  ASSUME TypeOK, [Next]_vars, NEW r \in Rounds,
         round[r].pc \in {"recurring", "tell_recurring"}, round'[r].pc = "pending",
         Cardinality(Recent("REPAIRED")') >= Threshold
  PROVE  Recent("RECURRING")' # {}
<1>1. CheckRecurring(r) \/ TellRecurring(r)
  <2>1. \A q \in Rounds :
          Step(q) \/ Die(q) =>
            /\ \A s \in Rounds \ {q} : round'[s] = round[s]
            /\ round'[q].pc = "pending" => CheckRecurring(q) \/ TellRecurring(q)
    <3> TAKE q \in Rounds
    <3>1. CASE Begin(q) \/ CheckRecurring(q) \/ TellRecurring(q)
      BY <3>1 DEF TypeOK, Begin, CheckRecurring, TellRecurring, Goto
    <3>2. CASE LockLog(q) \/ TellExpired(q) \/ Die(q)
      BY <3>2 DEF TypeOK, LockLog, TellExpired, Die, Goto
    <3>3. CASE PlanExpired(q)
      BY <3>3 DEF TypeOK, PlanExpired, Goto
    <3> QED
      BY <3>1, <3>2, <3>3 DEF Step
  <2>2. CASE \E q \in Rounds : Step(q) \/ Die(q)
    <3>1. PICK q \in Rounds : Step(q) \/ Die(q)
      BY <2>2
    <3>2. CASE q = r
      BY <2>1, <3>1, <3>2
    <3>3. CASE q # r
      BY <2>1, <3>1, <3>3
    <3> QED
      BY <3>2, <3>3
  <2>3. CASE Repair \/ Age \/ Publish \/ UNCHANGED vars
    BY <2>3 DEF Repair, Age, Publish, vars
  <2> QED
    BY <2>2, <2>3 DEF Next
<1>2. CASE CheckRecurring(r)
  <2>1. ~Recurs
    BY <1>2 DEF TypeOK, CheckRecurring, Goto
  <2>2. /\ Recent("REPAIRED")' = Recent("REPAIRED")
        /\ Recent("RECURRING")' = Recent("RECURRING")
    BY <1>2 DEF CheckRecurring, Recent
  <2> QED
    BY <2>1, <2>2 DEF Recurs
<1>3. CASE TellRecurring(r)
  <2>1. [code |-> "RECURRING", read |-> round[r].read] \in Event
    BY <1>3 DEF TypeOK, TellRecurring, Round, Event
  <2>2. Recent("RECURRING")' = Recent("RECURRING") \cup {Len(log) + 1}
    BY <1>3, <2>1, RecentByAppend DEF TellRecurring
  <2> QED
    BY <2>2
<1> QED
  BY <1>1, <1>2, <1>3

-----------------------------------------------------------------------------
\* The log, its lock and the rounds that check have their types.
THEOREM NoticesTyped == Spec => []TypeOK
<1>1. Init => TypeOK
  BY NoticeAssumption DEF Init, TypeOK, Round
<1> QED
  BY <1>1, TypeStep, PTL DEF Spec

\* However many rounds run, die and start again, no marker is announced twice.
THEOREM NoMarkerTwice == Spec => []ExpiredToldOnce
<1>1. Init => NoticeInv
  BY NoticeAssumption DEF Init, NoticeInv, TypeOK, PlanInv, ExpiredToldOnce, Round
<1>2. NoticeInv => ExpiredToldOnce
  BY DEF NoticeInv
<1> QED
  BY <1>1, <1>2, NoticeStep, PTL DEF Spec

\* Of two notices of recurring repairs in one window the later one comes from a round
\* that had looked before the earlier one was given.
THEOREM WindowIsQuiet == Spec => []QuietForAWindow
<1>1. Init => QuietInv
  BY DEF Init, QuietInv, LookedInv, QuietForAWindow, Recent
<1>2. QuietInv => QuietForAWindow
  BY DEF QuietInv
<1> QED
  BY <1>1, <1>2, NoticesTyped, QuietStep, PTL DEF Spec

\* Recurring repairs are told: no round goes on to the markers and leaves them unsaid.
THEOREM RecurrenceIsTold == Spec => RecurringIsTold
<1>1. TypeOK /\ [Next]_vars =>
        [\A r \in Rounds :
           (round[r].pc \in {"recurring", "tell_recurring"} /\ round'[r].pc = "pending")
             => (Cardinality(Recent("REPAIRED")') >= Threshold => Recent("RECURRING")' # {})]_vars
  BY ToldStep
<1> QED
  BY <1>1, NoticesTyped, PTL DEF Spec, RecurringIsTold
=============================================================================
