----------------------- MODULE ObservationWatchProofs -----------------------
(***************************************************************************)
(* Theorems about the observation watch, for any number of runs, trades,   *)
(* strategies and prices, and however often runs are lost or fail: what is *)
(* told is news, and what the watch claims of several runs (a confirmation *)
(* carried, a streak, a stop that was moved) is true of the time between.  *)
(***************************************************************************)
EXTENDS ObservationWatch, FiniteSetTheorems, WellFoundedInduction, TLAPS

-----------------------------------------------------------------------------
(* One run at a time, and what it has in memory.                           *)

EntryFields == {"state", "key", "closable", "at", "errors", "extra", "notified", "acked", "failures"}
RunFields   == {"pc", "now", "got", "told", "entry"}

ShapeInv ==
  /\ DOMAIN run = Runs /\ DOMAIN file = EntryFields
  /\ \A r \in Runs : DOMAIN run[r] = RunFields /\ DOMAIN run[r].entry = EntryFields

\* Who is not idle holds the lock, and no time passes meanwhile.
HeldInv ==
  /\ clock \in Nat
  /\ \A r \in Runs : /\ run[r].pc \in {"idle", "look", "tell", "save"}
                     /\ ~At(r, "idle") => lock = r /\ run[r].now = clock

\* What was told and acknowledged is what the file says, or what the run that is
\* going on will write there.
MessageInv ==
  /\ file.notified = heard /\ file.acked = settled
  /\ \A r \in Runs :
       /\ run[r].told => /\ At(r, "save") /\ run[r].entry.state # "waiting"
                         /\ run[r].entry.notified \in {Message(run[r].entry), heard}
       /\ At(r, "look") => run[r].entry = file
       /\ ~At(r, "idle") => run[r].entry.acked = settled
       /\ run[r].pc \in {"tell", "save"} /\ ~run[r].told =>
            run[r].entry.notified = IF run[r].entry.state = "waiting" THEN NoMessage ELSE heard

\* What a run is about to save of a check with a memory is what the check made of
\* what was read and of the memory in the file; or the memory itself, after an error.
JudgedInv ==
  kind # "event" => \A r \in Runs :
    /\ ~At(r, "tell")
    /\ At(r, "save") =>
         LET entry == run[r].entry
             result == Judged(kind, run[r].got, file.extra, run[r].now)
         IN /\ entry.at = run[r].now
            /\ \/ /\ run[r].got = <<>> /\ entry.state = "error" /\ ~entry.closable
                  /\ entry.extra = file.extra
               \/ /\ Unread(kind, run[r].got) = {}
                  /\ entry.state = result.state /\ entry.closable = result.closable
                  /\ entry.extra = result.extra

WatchInv == ShapeInv /\ HeldInv /\ MessageInv /\ JudgedInv

\* The steps that change neither run nor file.
LEMMA OutsideKeepsWatch ==
  ASSUME WatchInv, UNCHANGED <<kind, watch>>, clock' \in Nat, clock' # clock => lock = Nobody
  PROVE  WatchInv'
<1> USE DEF watch
<1>1. ShapeInv' /\ MessageInv'
  BY DEF WatchInv, ShapeInv, MessageInv, At, Message
<1>2. HeldInv'
  BY ObservationAssumption DEF WatchInv, HeldInv, At
<1>3. JudgedInv'
  BY DEF WatchInv, JudgedInv, At
<1> QED
  BY <1>1, <1>2, <1>3 DEF WatchInv

\* The steps of one run that leave the lock and the saved entry alone.
LEMMA RunKeepsWatch ==
  ASSUME WatchInv, NEW r \in Runs, NEW to, ~At(r, "idle"),
         run' = [run EXCEPT ![r] = to],
         UNCHANGED <<kind, clock, file, lock, heard, settled>>,
         DOMAIN to = RunFields, DOMAIN to.entry = EntryFields,
         to.now = run[r].now, to.pc \in {"look", "tell", "save"},
         to.told => /\ to.pc = "save" /\ to.entry.state # "waiting"
                    /\ to.entry.notified \in {Message(to.entry), heard},
         to.pc = "look" => to.entry = file,
         to.entry.acked = settled,
         to.pc # "look" /\ ~to.told =>
           to.entry.notified = IF to.entry.state = "waiting" THEN NoMessage ELSE heard,
         kind # "event" => to.pc # "tell",
         kind # "event" /\ to.pc = "save" =>
           LET result == Judged(kind, to.got, file.extra, to.now)
           IN /\ to.entry.at = to.now
              /\ \/ /\ to.got = <<>> /\ to.entry.state = "error" /\ ~to.entry.closable
                    /\ to.entry.extra = file.extra
                 \/ /\ Unread(kind, to.got) = {}
                    /\ to.entry.state = result.state /\ to.entry.closable = result.closable
                    /\ to.entry.extra = result.extra
  PROVE  WatchInv'
<1>1. /\ run'[r] = to /\ DOMAIN run' = Runs
      /\ \A q \in Runs : q # r => run'[q] = run[q]
  BY DEF WatchInv, ShapeInv
<1>2. ShapeInv'
  BY <1>1 DEF WatchInv, ShapeInv
<1>3. HeldInv'
  BY <1>1 DEF WatchInv, HeldInv, At
<1>4. MessageInv'
  <2>1. \A q \in Runs : q # r => At(q, "idle")
    BY DEF WatchInv, HeldInv, At
  <2> QED
    BY <1>1, <2>1 DEF WatchInv, MessageInv, At, Message
<1>5. JudgedInv'
  BY <1>1 DEF WatchInv, JudgedInv, At
<1> QED
  BY <1>2, <1>3, <1>4, <1>5 DEF WatchInv

LEMMA WatchStep ==
  ASSUME WatchInv, [Next]_vars
  PROVE  WatchInv'
<1> USE DEF At, Talking, AfterChecks, EntryFields, RunFields
<1>1. ASSUME NEW r \in Runs, Enter(r) PROVE WatchInv'
  <2> USE DEF Enter, MayEnter
  <2>1. ShapeInv'
    BY <1>1 DEF WatchInv, ShapeInv, Idle, NoEntry
  <2>2. HeldInv'
    BY <1>1, ObservationAssumption DEF WatchInv, HeldInv, Idle, ShapeInv
  <2>3. MessageInv'
    BY <1>1, ObservationAssumption DEF WatchInv, HeldInv, MessageInv, ShapeInv, Idle, Message
  <2>4. JudgedInv'
    BY <1>1, ObservationAssumption DEF WatchInv, HeldInv, JudgedInv, ShapeInv, Idle
  <2> QED
    BY <2>1, <2>2, <2>3, <2>4 DEF WatchInv
<1>2. ASSUME NEW r \in Runs, Read(r) PROVE WatchInv'
  <2>1. PICK i, value : run' = [run EXCEPT ![r].got = With(@, Sources(kind)[i], value)]
    BY <1>2 DEF Read
  <2>2. PICK got : run' = [run EXCEPT ![r].got = got]
    BY <2>1
  <2> DEFINE to == [run[r] EXCEPT !.got = got]
  <2>3. run' = [run EXCEPT ![r] = to] /\ At(r, "look")
        /\ UNCHANGED <<kind, clock, file, lock, heard, settled>>
    BY <1>2, <2>2 DEF Read
  <2>4. /\ DOMAIN to = RunFields /\ to.entry = run[r].entry /\ to.now = run[r].now
        /\ to.pc = "look" /\ to.told = run[r].told
    BY <2>3 DEF WatchInv, ShapeInv
  <2> HIDE DEF to
  <2> QED
    BY <2>3, <2>4, RunKeepsWatch DEF WatchInv, ShapeInv, MessageInv
<1>3. ASSUME NEW r \in Runs, Judge(r) PROVE WatchInv'
  <2> DEFINE result == Judged(kind, run[r].got, file.extra, run[r].now)
             to == [run[r] EXCEPT !.pc = AfterChecks,
                                  !.entry = Updated(@, Judged(kind, run[r].got, @.extra, run[r].now), 0, run[r].now)]
  <2>1. run' = [run EXCEPT ![r] = to] /\ At(r, "look") /\ Unread(kind, run[r].got) = {}
        /\ UNCHANGED <<kind, clock, file, lock, heard, settled>>
    BY <1>3 DEF Judge, WatchInv, ShapeInv
  <2>2. /\ DOMAIN to = RunFields /\ to.got = run[r].got /\ to.now = run[r].now
        /\ to.pc = AfterChecks /\ to.told = run[r].told
        /\ to.entry = Updated(file, result, 0, run[r].now)
    BY <2>1 DEF WatchInv, ShapeInv, MessageInv
  <2> HIDE DEF to, result
  <2>3. /\ DOMAIN to.entry = EntryFields
        /\ to.entry.state = result.state /\ to.entry.closable = result.closable
        /\ to.entry.extra = result.extra /\ to.entry.at = to.now
        /\ to.entry.acked = file.acked
        /\ to.entry.notified = IF to.entry.state = "waiting" THEN NoMessage ELSE file.notified
    BY <2>2 DEF WatchInv, ShapeInv, Updated
  <2> QED
    BY <2>1, <2>2, <2>3, RunKeepsWatch DEF WatchInv, MessageInv, result
<1>4. ASSUME NEW r \in Runs, ReadFails(r) PROVE WatchInv'
  <2> DEFINE result == Result("error", {}, FALSE, file.extra)
             to == [run[r] EXCEPT !.pc = AfterChecks, !.got = <<>>,
                                  !.entry = Updated(@, Result("error", {}, FALSE, @.extra), @.errors + 1, run[r].now)]
  <2>1. run' = [run EXCEPT ![r] = to] /\ At(r, "look")
        /\ UNCHANGED <<kind, clock, file, lock, heard, settled>>
    BY <1>4 DEF ReadFails, WatchInv, ShapeInv
  <2>2. /\ DOMAIN to = RunFields /\ to.got = <<>> /\ to.now = run[r].now
        /\ to.pc = AfterChecks /\ to.told = run[r].told
        /\ to.entry = Updated(file, result, file.errors + 1, run[r].now)
    BY <2>1 DEF WatchInv, ShapeInv, MessageInv
  <2> HIDE DEF to
  <2>3. /\ DOMAIN to.entry = EntryFields
        /\ to.entry.state = "error" /\ to.entry.closable = FALSE
        /\ to.entry.extra = file.extra /\ to.entry.at = to.now
        /\ to.entry.acked = file.acked
        /\ to.entry.notified = IF to.entry.state = "waiting" THEN NoMessage ELSE file.notified
    BY <2>2 DEF WatchInv, ShapeInv, Updated, Result
  <2> QED
    BY <2>1, <2>2, <2>3, RunKeepsWatch DEF WatchInv, MessageInv
<1>5. ASSUME NEW r \in Runs, At(r, "tell"), NEW to, run' = [run EXCEPT ![r] = to],
             DOMAIN to = RunFields, to.now = run[r].now, to.pc = "save", DOMAIN to.entry = EntryFields,
             to.entry.state = run[r].entry.state, to.entry.notified = run[r].entry.notified,
             to.entry.acked = run[r].entry.acked, to.told => run[r].entry.state # "waiting",
             UNCHANGED <<kind, clock, file, lock, heard, settled>>
      PROVE  WatchInv'
  <2>1. kind = "event" /\ ~run[r].told /\ ~At(r, "idle")
    BY <1>5 DEF WatchInv, MessageInv, JudgedInv
  <2>2. /\ to.entry.acked = settled
        /\ to.entry.notified = IF to.entry.state = "waiting" THEN NoMessage ELSE heard
    BY <1>5, <2>1 DEF WatchInv, MessageInv
  <2> QED
    BY <1>5, <2>1, <2>2, RunKeepsWatch
<1>6. ASSUME NEW r \in Runs, At(r, "tell"), Notice(run[r].entry), Reaches(r) PROVE WatchInv'
  <2> DEFINE to == [run[r] EXCEPT !.pc = "save", !.told = TRUE, !.entry = Told(@)]
  <2>1. run' = [run EXCEPT ![r] = to] /\ kind = "event" /\ UNCHANGED <<clock, file, lock, heard, settled>>
        /\ kind' = kind
    BY <1>6 DEF WatchInv, ShapeInv, JudgedInv, Reaches
  <2>2. /\ DOMAIN to = RunFields /\ to.now = run[r].now /\ to.pc = "save"
        /\ to.entry = Told(run[r].entry)
    BY <1>6 DEF WatchInv, ShapeInv
  <2> HIDE DEF to
  <2>3. /\ DOMAIN to.entry = EntryFields /\ to.entry.notified = Message(to.entry)
        /\ to.entry.acked = run[r].entry.acked /\ to.entry.state # "waiting"
    BY <1>6, <2>2 DEF WatchInv, ShapeInv, Told, Message, Notice
  <2>4. to.told
    BY <1>6 DEF to, WatchInv, ShapeInv
  <2> QED
    BY <1>6, <2>1, <2>2, <2>3, <2>4, RunKeepsWatch DEF WatchInv, MessageInv
<1>7. ASSUME NEW r \in Runs, NothingToTell(r) PROVE WatchInv'
  <2> DEFINE to == [run[r] EXCEPT !.pc = "save", !.entry.failures = NoFailures]
  <2>1. run' = [run EXCEPT ![r] = to] /\ At(r, "tell")
        /\ UNCHANGED <<kind, clock, file, lock, heard, settled>>
    BY <1>7 DEF NothingToTell, WatchInv, ShapeInv
  <2>2. /\ DOMAIN to = RunFields /\ to.now = run[r].now /\ to.pc = "save"
        /\ to.told = run[r].told /\ to.entry = [run[r].entry EXCEPT !.failures = NoFailures]
    BY DEF WatchInv, ShapeInv
  <2> HIDE DEF to
  <2>3. /\ DOMAIN to.entry = EntryFields /\ to.entry.state = run[r].entry.state
        /\ to.entry.notified = run[r].entry.notified /\ to.entry.acked = run[r].entry.acked
    BY <2>2 DEF WatchInv, ShapeInv
  <2>4. ~to.told
    BY <2>1, <2>2 DEF WatchInv, MessageInv
  <2> QED
    BY <1>5, <2>1, <2>2, <2>3, <2>4
<1>8. ASSUME NEW r \in Runs, TellByLine(r) PROVE WatchInv'
  BY <1>6, <1>8 DEF TellByLine
<1>9. ASSUME NEW r \in Runs, LineFails(r) PROVE WatchInv'
  <2>1. At(r, "tell") /\ Notice(run[r].entry)
    BY <1>9 DEF LineFails
  <2>2. ASSUME NEW reached \in BOOLEAN, Fails(r, reached) PROVE WatchInv'
    <3> DEFINE failures == [key |-> Message(run[r].entry), n |-> FailedRuns(run[r].entry)]
               to == [run[r] EXCEPT !.pc = "save", !.told = reached, !.entry.failures = failures]
    <3>1. run' = [run EXCEPT ![r] = to] /\ UNCHANGED <<kind, clock, file, lock, heard, settled>>
      BY <2>2 DEF Fails, WatchInv, ShapeInv
    <3> HIDE DEF failures
    <3>2. /\ DOMAIN to = RunFields /\ to.now = run[r].now /\ to.pc = "save"
          /\ to.entry = [run[r].entry EXCEPT !.failures = failures]
      BY DEF WatchInv, ShapeInv
    <3> HIDE DEF to
    <3>3. /\ DOMAIN to.entry = EntryFields /\ to.entry.state = run[r].entry.state
          /\ to.entry.notified = run[r].entry.notified /\ to.entry.acked = run[r].entry.acked
      BY <3>2 DEF WatchInv, ShapeInv
    <3>4. run[r].entry.state # "waiting"
      BY <2>1 DEF Notice
    <3> QED
      BY <1>5, <2>1, <3>1, <3>2, <3>3, <3>4
  <2> QED
    BY <1>6, <1>9, <2>1, <2>2 DEF LineFails
<1>10. ASSUME NEW r \in Runs, Save(r) PROVE WatchInv'
  <2>1. /\ \A q \in Runs : q # r => At(q, "idle") /\ ~run[q].told
        /\ run' = [run EXCEPT ![r] = Idle(kind)] /\ file' = run[r].entry
        /\ kind' = kind /\ clock' = clock /\ settled' = settled
    BY <1>10 DEF Save, WatchInv, HeldInv, MessageInv
  <2>2. \A q \in Runs : At(q, "idle")' /\ ~run'[q].told /\ (q # r => run'[q] = run[q])
    BY <2>1 DEF Idle, WatchInv, ShapeInv
  <2>3. ShapeInv'
    BY <2>1 DEF WatchInv, ShapeInv, Idle, NoEntry
  <2>4. HeldInv' /\ JudgedInv'
    BY <2>1, <2>2 DEF WatchInv, HeldInv, JudgedInv
  <2>5. file'.notified = heard' /\ file'.acked = settled'
    BY <1>10, <2>1 DEF Save, Recorded, WatchInv, MessageInv, Message
  <2>6. MessageInv'
    BY <2>2, <2>5 DEF MessageInv
  <2> QED
    BY <2>3, <2>4, <2>6 DEF WatchInv
<1>11. ASSUME NEW r \in Runs, Lose(r) PROVE WatchInv'
  <2>1. /\ \A q \in Runs : q # r => At(q, "idle") /\ ~run[q].told
        /\ run' = [run EXCEPT ![r] = Idle(kind)] /\ UNCHANGED <<kind, clock, file, heard, settled>>
    BY <1>11 DEF Lose, WatchInv, HeldInv, MessageInv
  <2>2. \A q \in Runs : At(q, "idle")' /\ ~run'[q].told
    BY <2>1 DEF Idle, WatchInv, ShapeInv
  <2>3. ShapeInv'
    BY <2>1 DEF WatchInv, ShapeInv, Idle, NoEntry
  <2>4. HeldInv' /\ JudgedInv' /\ MessageInv'
    BY <2>1, <2>2 DEF WatchInv, HeldInv, JudgedInv, MessageInv
  <2> QED
    BY <2>3, <2>4 DEF WatchInv
<1>12. ASSUME Ack PROVE WatchInv'
  <2>1. /\ \A q \in Runs : At(q, "idle") /\ ~run[q].told
        /\ kind = "event" /\ UNCHANGED <<kind, clock, run, heard>>
        /\ file' = [file EXCEPT !.acked = Message(file)] /\ settled' = Message(file)
    BY <1>12, ObservationAssumption DEF Ack, MayAck, WatchInv, HeldInv, MessageInv
  <2>2. ShapeInv'
    BY <2>1 DEF WatchInv, ShapeInv
  <2>3. HeldInv' /\ JudgedInv'
    BY <2>1 DEF WatchInv, HeldInv, JudgedInv
  <2>4. MessageInv'
    BY <2>1 DEF WatchInv, ShapeInv, MessageInv
  <2> QED
    BY <2>2, <2>3, <2>4 DEF WatchInv
<1>13. ASSUME Outside PROVE WatchInv'
  <2>1. UNCHANGED <<kind, watch>> /\ clock' \in Nat /\ (clock' # clock => lock = Nobody)
    <3> USE DEF WatchInv, HeldInv
    <3>1. CASE Tick \/ Happens \/ Trade \/ ReachesSheet \/ CompareSheet \/ Health
      BY <3>1 DEF Tick, Happens, Trade, ReachesSheet, CompareSheet, Health
    <3>2. CASE OpenTrade \/ RecordEntry \/ MoveStop \/ ForeignOrder \/ CloseTrade
      BY <3>2 DEF OpenTrade, RecordEntry, MoveStop, ForeignOrder, CloseTrade
    <3> QED
      BY <1>13, <3>1, <3>2 DEF Outside
  <2> QED
    BY <2>1, OutsideKeepsWatch
<1>14. ASSUME UNCHANGED vars PROVE WatchInv'
  BY <1>14, OutsideKeepsWatch DEF vars, watch, WatchInv, HeldInv
<1> QED
  BY <1>1, <1>2, <1>3, <1>4, <1>7, <1>8, <1>9, <1>10, <1>11, <1>12, <1>13, <1>14 DEF Next, Step

\* The state file, the run that holds its lock and what was told agree.
THEOREM WatchInvariant == Spec => []WatchInv
<1>1. Init => WatchInv
  <2> SUFFICES ASSUME Init PROVE WatchInv
    OBVIOUS
  <2>1. ShapeInv
    BY DEF Init, ShapeInv, Idle, NoEntry, EntryFields, RunFields
  <2>2. \A r \in Runs : At(r, "idle") /\ ~run[r].told
    BY DEF Init, Idle, At
  <2>3. HeldInv /\ JudgedInv
    BY <2>2 DEF Init, HeldInv, JudgedInv, At
  <2>4. MessageInv
    BY <2>2 DEF Init, MessageInv, At, NoEntry
  <2> QED
    BY <2>1, <2>3, <2>4 DEF WatchInv
<1>2. WatchInv /\ [Next]_vars => WatchInv'
  BY WatchStep
<1> QED
  BY <1>1, <1>2, PTL DEF Spec

\* Whatever is lost, fails or is acknowledged in between, a message that reaches the
\* operator is neither the last one on record as told nor an observation he settled.
THEOREM OnlyNewsIsTold == Spec => NewsOnly
<1>1. WatchInv /\ [Next]_vars =>
        [\A r \in Runs : (run'[r].told /\ ~run[r].told) =>
           LET message == Message(run[r].entry)
           IN heard # message /\ (message[1] = "observed" => settled # message)]_vars
  <2> SUFFICES ASSUME WatchInv, Next, NEW r \in Runs, run'[r].told, ~run[r].told
               PROVE  LET message == Message(run[r].entry)
                      IN heard # message /\ (message[1] = "observed" => settled # message)
    OBVIOUS
  <2>1. ASSUME NEW q \in Runs, Enter(q) \/ Save(q) \/ Lose(q) PROVE FALSE
    <3>1. PICK x : run' = [run EXCEPT ![q] = x] /\ x.told = FALSE
      <4>1. CASE Enter(q)
        BY <4>1 DEF Enter, Idle
      <4>2. CASE Save(q) \/ Lose(q)
        BY <4>2 DEF Save, Lose, Idle
      <4> QED
        BY <2>1, <4>1, <4>2
    <3> QED
      BY <3>1 DEF WatchInv, ShapeInv
  <2>2. ASSUME NEW q \in Runs, Read(q) \/ Judge(q) \/ ReadFails(q) \/ NothingToTell(q) PROVE FALSE
    <3>1. PICK x : run' = [run EXCEPT ![q] = x] /\ x.told = run[q].told
      <4> USE DEF WatchInv, ShapeInv, RunFields
      <4>1. CASE Read(q)
        BY <4>1 DEF Read
      <4>2. CASE Judge(q)
        BY <4>2 DEF Judge
      <4>3. CASE ReadFails(q)
        BY <4>3 DEF ReadFails
      <4>4. CASE NothingToTell(q)
        BY <4>4 DEF NothingToTell
      <4> QED
        BY <2>2, <4>1, <4>2, <4>3, <4>4
    <3> QED
      BY <3>1 DEF WatchInv, ShapeInv
  <2>3. ASSUME NEW q \in Runs, TellByLine(q) \/ LineFails(q) PROVE At(r, "tell") /\ Notice(run[r].entry)
    BY <2>3 DEF TellByLine, LineFails, Reaches, Fails, WatchInv, ShapeInv, At
  <2>4. ASSUME Ack \/ Outside PROVE FALSE
    <3>1. ASSUME Ack \/ UNCHANGED watch PROVE FALSE
      BY <3>1 DEF Ack, watch
    <3>2. CASE Tick \/ Happens \/ Trade \/ ReachesSheet \/ CompareSheet \/ Health
      BY <3>1, <3>2 DEF Tick, Happens, Trade, ReachesSheet, CompareSheet, Health
    <3>3. CASE OpenTrade \/ RecordEntry \/ MoveStop \/ ForeignOrder \/ CloseTrade
      BY <3>1, <3>3 DEF OpenTrade, RecordEntry, MoveStop, ForeignOrder, CloseTrade
    <3> QED
      BY <2>4, <3>1, <3>2, <3>3 DEF Outside
  <2>5. At(r, "tell") /\ Notice(run[r].entry)
    BY <2>1, <2>2, <2>3, <2>4 DEF Next, Step
  <2> QED
    BY <2>5 DEF WatchInv, MessageInv, At, Notice, Message
<1> QED
  BY <1>1, WatchInvariant, PTL DEF Spec, NewsOnly

-----------------------------------------------------------------------------
(* What a run has read, and when the memory changes.                       *)

\* What has been read is part of what there is to read.
GotInv == \A r \in Runs : DOMAIN run[r].got \subseteq {Sources(kind)[i] : i \in DOMAIN Sources(kind)}

LEMMA GotStep ==
  ASSUME WatchInv, GotInv, [Next]_vars
  PROVE  GotInv'
<1> USE DEF WatchInv, ShapeInv, GotInv
<1>1. ASSUME NEW q \in Runs, NEW x, run' = [run EXCEPT ![q] = x], kind' = kind,
             x.got = run[q].got \/ x.got = <<>>
      PROVE  GotInv'
  BY <1>1
<1>2. ASSUME NEW q \in Runs, Enter(q) \/ Save(q) \/ Lose(q) PROVE GotInv'
  <2>1. CASE Enter(q)
    BY <1>1, <2>1 DEF Enter, Idle
  <2>2. CASE Save(q) \/ Lose(q)
    BY <1>1, <2>2 DEF Save, Lose, Idle
  <2> QED
    BY <1>2, <2>1, <2>2
<1>3. ASSUME NEW q \in Runs, Read(q) PROVE GotInv'
  <2>1. PICK i, value : i \in DOMAIN Sources(kind) /\
          run' = [run EXCEPT ![q].got = With(@, Sources(kind)[i], value)]
    BY <1>3 DEF Read, Unread
  <2> DEFINE got == With(run[q].got, Sources(kind)[i], value)
  <2>2. DOMAIN got = DOMAIN run[q].got \cup {Sources(kind)[i]}
    BY DEF With
  <2> HIDE DEF got
  <2>3. run'[q].got = got /\ \A r \in Runs : r # q => run'[r] = run[r]
    BY <2>1 DEF got, RunFields
  <2>4. kind' = kind
    BY <1>3 DEF Read
  <2>5. Sources(kind)[i] \in {Sources(kind)[j] : j \in DOMAIN Sources(kind)}
    BY <2>1
  <2>6. DOMAIN got \subseteq {Sources(kind)[j] : j \in DOMAIN Sources(kind)}
    BY <2>2, <2>5
  <2> QED
    BY <2>3, <2>4, <2>6
<1>4. ASSUME NEW q \in Runs, Judge(q) \/ ReadFails(q) PROVE GotInv'
  <2> USE DEF RunFields
  <2>1. CASE Judge(q)
    BY <1>1, <2>1 DEF Judge
  <2>2. CASE ReadFails(q)
    BY <1>1, <2>2 DEF ReadFails
  <2> QED
    BY <1>4, <2>1, <2>2
<1>5. ASSUME NEW q \in Runs, NothingToTell(q) \/ TellByLine(q) \/ LineFails(q) PROVE GotInv'
  <2> USE DEF RunFields
  <2>1. ASSUME NEW failures, run' = [run EXCEPT ![q].pc = "save", ![q].entry.failures = failures], kind' = kind
        PROVE  GotInv'
    BY <1>1, <2>1
  <2>2. CASE Reaches(q)
    BY <1>1, <2>2 DEF Reaches
  <2>3. ASSUME NEW reached, Fails(q, reached) PROVE GotInv'
    BY <1>1, <2>3 DEF Fails
  <2> QED
    BY <1>5, <2>1, <2>2, <2>3 DEF NothingToTell, TellByLine, LineFails
<1>6. ASSUME UNCHANGED <<kind, run>> PROVE GotInv'
  BY <1>6
<1>7. CASE Ack \/ Outside
  <2>1. CASE Ack \/ Tick \/ Happens \/ Trade \/ ReachesSheet \/ CompareSheet \/ Health
    BY <1>6, <2>1 DEF Ack, Tick, Happens, Trade, ReachesSheet, CompareSheet, Health, watch
  <2>2. CASE OpenTrade \/ RecordEntry \/ MoveStop \/ ForeignOrder \/ CloseTrade
    BY <1>6, <2>2 DEF OpenTrade, RecordEntry, MoveStop, ForeignOrder, CloseTrade, watch
  <2> QED
    BY <1>7, <2>1, <2>2 DEF Outside
<1> QED
  BY <1>2, <1>3, <1>4, <1>5, <1>6, <1>7 DEF Next, Step, vars

\* In every reachable state a run has read nothing but what its check reads.
LEMMA ReadsAreKnown == Spec => []GotInv
<1>1. Init => GotInv
  BY DEF Init, GotInv, Idle
<1>2. WatchInv /\ GotInv /\ [Next]_vars => GotInv'
  BY GotStep
<1> QED
  BY <1>1, <1>2, WatchInvariant, PTL DEF Spec

\* The memory of a check changes when a run saves it.
LEMMA MemoryStep ==
  ASSUME WatchInv, [Next]_vars
  PROVE  /\ kind' = kind /\ clock' \in Nat /\ clock <= clock'
         /\ kind # "event" => (\E r \in Runs : Save(r)) \/ UNCHANGED <<file, looks>>
<1> USE DEF WatchInv, HeldInv
<1>1. ASSUME NEW r \in Runs, Enter(r) \/ Step(r) \/ ReadFails(r) \/ Lose(r)
      PROVE  /\ UNCHANGED <<kind, clock>>
             /\ Save(r) \/ UNCHANGED <<file, looks>>
  BY <1>1 DEF Enter, Step, Read, Judge, ReadFails, NothingToTell, TellByLine, LineFails, Reaches, Fails, Save, Lose
<1>2. CASE Ack
  BY <1>2 DEF Ack, MayAck, Talking
<1>3. CASE Outside
  <2>1. CASE Tick \/ Happens \/ Trade \/ ReachesSheet \/ CompareSheet \/ Health
    BY <2>1 DEF Tick, Happens, Trade, ReachesSheet, CompareSheet, Health, watch
  <2>2. ASSUME UNCHANGED <<kind, clock, watch>>
        PROVE  /\ kind' = kind /\ clock' \in Nat /\ clock <= clock'
               /\ UNCHANGED <<file, looks>>
    BY <2>2 DEF watch
  <2>3. CASE OpenTrade \/ RecordEntry \/ MoveStop \/ ForeignOrder \/ CloseTrade
    BY <2>2, <2>3 DEF OpenTrade, RecordEntry, MoveStop, ForeignOrder, CloseTrade
  <2> QED
    BY <1>3, <2>1, <2>2, <2>3 DEF Outside
<1> QED
  BY <1>1, <1>2, <1>3 DEF Next, vars

\* What a run saves of a check with a memory.
LEMMA SavedResult ==
  ASSUME WatchInv, kind # "event", NEW r \in Runs, Save(r)
  PROVE  LET result == Judged(kind, run[r].got, file.extra, clock)
         IN /\ file'.at = clock /\ clock' = clock
            /\ \/ /\ run[r].got = <<>> /\ file'.state = "error" /\ ~file'.closable
                  /\ file'.extra = file.extra
               \/ /\ Unread(kind, run[r].got) = {}
                  /\ file'.state = result.state /\ file'.closable = result.closable
                  /\ file'.extra = result.extra
BY DEF WatchInv, HeldInv, JudgedInv, Save, At

-----------------------------------------------------------------------------
(* Streaks.                                                                *)

\* The streak m rests on what runs saw: none of the looks came too long after the
\* one before.
IsSeen(m, when, now) ==
  /\ m.since \in when /\ m.since \in Nat /\ m.seen \in m.since .. now
  /\ \A t \in m.since .. m.seen - 1 : \E look \in when : look \in t + 1 .. t + MaxGap

StreakInv ==
  kind \in Streaks =>
    /\ looks \subseteq Nat
    /\ file.extra = NoStreak \/ IsSeen(file.extra, looks, clock)
    /\ file.closable => /\ file.extra # NoStreak /\ file.extra.seen = file.at
                        /\ file.extra.since <= file.at - Stable

\* One more healthy look.
LEMMA StreakGoesOn ==
  ASSUME NEW m, NEW when \in SUBSET Nat, NEW now \in Nat, m = NoStreak \/ IsSeen(m, when, now)
  PROVE  /\ IsSeen(Streak(m, now), when \cup {now}, now)
         /\ Streak(m, now).seen = now /\ Streak(m, now) # NoStreak
<1> USE WatchAssumption DEF Never, NoStreak
<1> DEFINE n == Streak(m, now)
<1>1. n.seen = now
  BY DEF Streak
<1>2. CASE n.since = now
  BY <1>1, <1>2 DEF IsSeen
<1>3. CASE n.since # now
  <2>1. /\ n.since = m.since /\ m # NoStreak /\ now - m.seen \in 0 .. MaxGap
    BY <1>3 DEF Streak
  <2>2. ASSUME NEW t \in m.since .. now - 1
        PROVE  \E look \in when \cup {now} : look \in t + 1 .. t + MaxGap
    <3>1. CASE t \in m.since .. m.seen - 1
      BY <2>1, <3>1 DEF IsSeen
    <3>2. CASE t >= m.seen
      BY <2>1, <3>2 DEF IsSeen
    <3> QED
      BY <2>1, <3>1, <3>2 DEF IsSeen
  <2> QED
    BY <1>1, <2>1, <2>2 DEF IsSeen
<1> QED
  BY <1>2, <1>3

LEMMA StreakStep ==
  ASSUME WatchInv, GotInv, StreakInv, [Next]_vars
  PROVE  StreakInv'
<1> SUFFICES ASSUME kind \in Streaks, kind' = kind PROVE StreakInv'
  BY MemoryStep DEF StreakInv, Streaks
<1>1. clock \in Nat /\ clock' \in Nat /\ clock <= clock' /\ kind # "event"
  BY MemoryStep DEF WatchInv, HeldInv, Streaks
<1>2. CASE UNCHANGED <<file, looks>>
  BY <1>1, <1>2 DEF StreakInv, IsSeen
<1>3. ASSUME NEW r \in Runs, Save(r) PROVE StreakInv'
  <2> DEFINE result == Judged(kind, run[r].got, file.extra, clock)
             healthy == \A h \in DOMAIN run[r].got : run[r].got[h] = "healthy"
  <2>1. CASE run[r].got = <<>> /\ ~file'.closable /\ file'.extra = file.extra
    BY <1>1, <1>3, <2>1, SavedResult DEF StreakInv, IsSeen, Save
  <2>2. CASE /\ Unread(kind, run[r].got) = {} /\ file'.closable = result.closable
             /\ file'.extra = result.extra
    <3>1. run[r].got # <<>> /\ (kind = "stable" => DOMAIN run[r].got = {"readings"})
      <4>1. CASE kind = "stable"
        <5>1. Sources(kind) = <<"readings">> /\ DOMAIN Sources(kind) = {1}
          BY <4>1 DEF Sources
        <5>2. DOMAIN run[r].got = {"readings"}
          BY <2>2, <5>1 DEF GotInv, Unread
        <5> QED
          BY <5>2
      <4>2. CASE kind = "health"
        <5>1. Sources(kind)[1] = "a1" /\ 1 \in DOMAIN Sources(kind)
          BY <4>2 DEF Sources
        <5>2. "a1" \in DOMAIN run[r].got
          BY <2>2, <5>1 DEF Unread
        <5> QED
          BY <4>2, <5>2
      <4> QED
        BY <4>1, <4>2 DEF Streaks
    <3>2. CASE healthy
      <4>1. looks' = looks \cup {clock} /\ file'.at = clock /\ clock' = clock
        BY <1>1, <1>3, <3>1, <3>2, SavedResult DEF Save, WatchInv, HeldInv, At
      <4>2. result = StreakResult(file.extra, clock)
        BY <3>1, <3>2 DEF Judged, HealthResult, StableResult, Streaks
      <4>3. /\ result.extra = Streak(file.extra, clock)
            /\ result.closable => clock - result.extra.since >= Stable
        BY <4>2 DEF StreakResult, Result, Waiting
      <4>4. /\ IsSeen(result.extra, looks', clock)
            /\ result.extra.seen = clock /\ result.extra # NoStreak
        <5>1. looks \subseteq Nat /\ (file.extra = NoStreak \/ IsSeen(file.extra, looks, clock))
          BY DEF StreakInv
        <5>2. looks \in SUBSET Nat
          BY <5>1
        <5>3. /\ IsSeen(Streak(file.extra, clock), looks \cup {clock}, clock)
              /\ Streak(file.extra, clock).seen = clock /\ Streak(file.extra, clock) # NoStreak
          BY <1>1, <5>1, <5>2, StreakGoesOn
        <5> HIDE DEF result, healthy
        <5> QED
          BY <4>1, <4>3, <5>3
      <4> QED
        BY <1>1, <2>2, <4>1, <4>3, <4>4, WatchAssumption DEF StreakInv, IsSeen
    <3>3. CASE ~healthy
      <4>1. looks' = {}
        BY <1>3, <3>1, <3>3 DEF Save
      <4>2. result.extra = NoStreak /\ ~result.closable
        BY <3>1, <3>3 DEF Judged, HealthResult, StableResult, Streaks, Result, Waiting
      <4> QED
        BY <2>2, <4>1, <4>2 DEF StreakInv
    <3> QED
      BY <3>2, <3>3
  <2> QED
    BY <1>1, <1>3, <2>1, <2>2, SavedResult
<1> QED
  BY <1>1, <1>2, <1>3, MemoryStep

\* "Stable" is only said after healthy looks over all that time, none of them too long
\* after the one before, whatever runs were lost or failed.
THEOREM StreaksAreEarned == Spec => []StableIsEarned
<1>1. Init => StreakInv
  <2> SUFFICES ASSUME Init, kind \in Streaks PROVE StreakInv
    BY DEF StreakInv
  <2>1. file.extra = NoStreak /\ file.closable = FALSE /\ looks = {}
    BY DEF Init, NoEntry, NoMemory, Streaks, Stops
  <2> QED
    BY <2>1 DEF StreakInv
<1>2. WatchInv /\ GotInv /\ StreakInv /\ [Next]_vars => StreakInv'
  BY StreakStep
<1>3. WatchInv /\ StreakInv => StableIsEarned
  BY WatchAssumption DEF StreakInv, StableIsEarned, IsSeen
<1> QED
  BY <1>1, <1>2, <1>3, WatchInvariant, ReadsAreKnown, PTL DEF Spec

-----------------------------------------------------------------------------
(* What a run reads while the world moves on.                              *)

\* A run that is on its way took over what it had, starts anew, or has read one more source.
Reads(r) ==
  run'[r].pc # "idle" =>
    \/ run'[r].got = <<>>
    \/ /\ run[r].pc # "idle"
       /\ \/ run'[r].got = run[r].got
          \/ \E source : \E value \in Reading(source) : run'[r].got = With(run[r].got, source, value)

LEMMA ReadStep ==
  ASSUME WatchInv, [Next]_vars, kind # "event"
  PROVE  \/ Outside
         \/ \E r \in Runs : Save(r)
         \/ UNCHANGED <<kind, world, clock, file>> /\ \A r \in Runs : Reads(r)
<1> USE DEF WatchInv, ShapeInv, At
<1>1. ASSUME NEW q \in Runs, NEW x, run' = [run EXCEPT ![q] = x],
             x.pc = "idle" \/ x.got = <<>> \/ (x.got = run[q].got /\ run[q].pc # "idle")
      PROVE  \A r \in Runs : Reads(r)
  BY <1>1 DEF Reads
<1>2. ASSUME NEW r \in Runs, Enter(r) \/ Lose(r)
      PROVE  UNCHANGED <<kind, world, clock, file>> /\ \A q \in Runs : Reads(q)
  <2>1. CASE Enter(r)
    BY <1>1, <2>1 DEF Enter, Idle
  <2>2. CASE Lose(r)
    BY <1>1, <2>2 DEF Lose, Idle
  <2> QED
    BY <1>2, <2>1, <2>2
<1>3. ASSUME NEW r \in Runs, Read(r)
      PROVE  UNCHANGED <<kind, world, clock, file>> /\ \A q \in Runs : Reads(q)
  <2>1. PICK source : \E value \in Reading(source) :
          run' = [run EXCEPT ![r].got = With(@, source, value)]
    BY <1>3 DEF Read
  <2>2. PICK value \in Reading(source) : run' = [run EXCEPT ![r].got = With(@, source, value)]
    BY <2>1
  <2>3. run'[r].got = With(run[r].got, source, value) /\ \A q \in Runs : q # r => run'[q] = run[q]
    BY <2>2 DEF RunFields
  <2>4. run[r].pc # "idle"
    BY <1>3 DEF Read
  <2> QED
    BY <1>3, <2>3, <2>4 DEF Read, Reads
<1>4. ASSUME NEW r \in Runs, Judge(r) \/ ReadFails(r) \/ NothingToTell(r)
      PROVE  UNCHANGED <<kind, world, clock, file>> /\ \A q \in Runs : Reads(q)
  <2>1. /\ run'[r].got = <<>> \/ run'[r].got = run[r].got
        /\ \A q \in Runs : q # r => run'[q] = run[q]
    <3> USE DEF RunFields
    <3>1. CASE Judge(r)
      BY <3>1 DEF Judge
    <3>2. CASE ReadFails(r)
      BY <3>2 DEF ReadFails
    <3>3. CASE NothingToTell(r)
      BY <3>3 DEF NothingToTell
    <3> QED
      BY <1>4, <3>1, <3>2, <3>3
  <2>2. UNCHANGED <<kind, world, clock, file>> /\ run[r].pc # "idle"
    BY <1>4 DEF Judge, ReadFails, NothingToTell
  <2> QED
    BY <2>1, <2>2 DEF Reads
<1>5. ~Ack /\ \A r \in Runs : ~TellByLine(r) /\ ~LineFails(r)
  BY DEF Ack, MayAck, Talking, TellByLine, LineFails, JudgedInv
<1>6. CASE UNCHANGED vars
  BY <1>6 DEF vars, Reads
<1> QED
  BY <1>2, <1>3, <1>4, <1>5, <1>6 DEF Next, Step

\* With is one more source.
LEMMA WithOne ==
  ASSUME NEW got, NEW source, NEW value
  PROVE  LET more == With(got, source, value)
         IN /\ DOMAIN more = DOMAIN got \cup {source} /\ more[source] = value
            /\ \A s \in DOMAIN got : s # source => more[s] = got[s]
BY DEF With

-----------------------------------------------------------------------------
(* Stops.                                                                  *)

NoTighter(t, price, than) == than # 0 => ~Tighter(t, price, than)

\* The stop a run has read of a trade that was not moved lies between the one in the
\* memory and the one there is now.
StopIsBetween(stop, memory) ==
  /\ stop.price \in Nat
  /\ \A t \in Trades \ world.moved : stop.trade = t =>
       /\ NoTighter(t, stop.price, memory[t].price)
       /\ world.stop.trade = t => ~Tighter(t, world.stop.price, stop.price)
       /\ world.stop.trade = t \/ t \in world.entries

\* A trade that is not on the ledger has no memory; one that was not moved has one order
\* in it at most, and a stop no tighter than the last one that was seen.
MemoryIsBehind(memory) ==
  \A t \in Trades :
    /\ memory[t].price \in Nat
    /\ t \notin world.entries => memory[t] = NoStop
    /\ t \notin world.moved =>
         /\ \E order : memory[t].ids \subseteq {order}
         /\ world.stop.trade = t => NoTighter(t, world.stop.price, memory[t].price)

StopInv ==
  kind \in Stops =>
    /\ DOMAIN world = {"entries", "stopped", "moved", "used", "stop"}
    /\ DOMAIN world.stop = {"trade", "order", "price"}
    /\ world.stop.price \in Nat
    /\ MemoryIsBehind(file.extra)
    /\ \A r \in Runs : ~At(r, "idle") =>
         LET got == run[r].got
         IN /\ "ledger" \in DOMAIN got => got["ledger"].entries \subseteq world.entries
            /\ "stop" \in DOMAIN got => StopIsBetween(got["stop"], file.extra)

\* What happens outside while a memory and a stop are held.
LEMMA StopsMoveOn ==
  ASSUME StopInv, kind \in Stops, Outside, WatchInv
  PROVE  StopInv'
<1> USE ObservationAssumption, WatchAssumption DEF StopInv, MemoryIsBehind, StopIsBetween, At, watch
<1> DEFINE Moves ==
  /\ DOMAIN world' = DOMAIN world /\ DOMAIN world'.stop = DOMAIN world.stop
  /\ world'.stop.price \in Nat
  /\ world.entries \subseteq world'.entries /\ world.moved \subseteq world'.moved
  /\ \A t \in Trades \ world'.moved : world'.stop.trade = t =>
       \/ world.stop.trade = t /\ ~Tighter(t, world'.stop.price, world.stop.price)
       \/ world.stop.trade # t /\ t \notin world.entries
  /\ \A t \in Trades : world.stop.trade = t => world'.stop.trade = t \/ t \in world'.entries
<1>1. kind' = kind /\ UNCHANGED watch
  BY DEF Outside, Tick, Happens, Trade, ReachesSheet, CompareSheet, Health, OpenTrade, RecordEntry,
         MoveStop, ForeignOrder, CloseTrade
<1>2. Moves
  <2>1. CASE OpenTrade
    BY <2>1 DEF OpenTrade
  <2>2. CASE RecordEntry
    BY <2>2 DEF RecordEntry, Tighter
  <2>3. CASE MoveStop
    <3>1. PICK p \in Prices :
            world' = [world EXCEPT !.stop.order = NewOrder, !.stop.price = p, !.used = @ + 1,
                                   !.moved = @ \cup {world.stop.trade}]
      BY <2>3 DEF MoveStop
    <3>2. world'.stop = [world.stop EXCEPT !.order = NewOrder, !.price = p]
      BY <3>1
    <3>3. /\ DOMAIN world' = DOMAIN world /\ world'.entries = world.entries
          /\ world'.moved = world.moved \cup {world.stop.trade}
      BY <3>1
    <3>4. /\ DOMAIN world'.stop = DOMAIN world.stop /\ world'.stop.price = p
          /\ world'.stop.trade = world.stop.trade
      BY <3>2
    <3> QED
      BY <3>3, <3>4
  <2>4. CASE ForeignOrder
    <3>1. PICK p \in Prices :
            world' = [world EXCEPT !.stop.order = NewOrder, !.stop.price = p, !.used = @ + 1,
                                   !.moved = IF Tighter(world.stop.trade, p, world.stop.price)
                                               THEN @ \cup {world.stop.trade} ELSE @]
      BY <2>4 DEF ForeignOrder
    <3>2. world'.stop = [world.stop EXCEPT !.order = NewOrder, !.price = p]
      BY <3>1
    <3>3. /\ DOMAIN world' = DOMAIN world /\ world'.entries = world.entries
          /\ world'.moved = IF Tighter(world.stop.trade, p, world.stop.price)
                              THEN world.moved \cup {world.stop.trade} ELSE world.moved
      BY <3>1
    <3>4. /\ DOMAIN world'.stop = DOMAIN world.stop /\ world'.stop.price = p
          /\ world'.stop.trade = world.stop.trade
      BY <3>2
    <3> QED
      BY <3>1, <3>3, <3>4
  <2>5. CASE CloseTrade
    BY <2>5 DEF CloseTrade
  <2> QED
    BY <2>1, <2>2, <2>3, <2>4, <2>5
    DEF Outside, Tick, Happens, Trade, ReachesSheet, CompareSheet, Health, Stops, Sheets, Streaks
<1>3. ASSUME NEW t \in Trades \ world'.moved, world'.stop.trade = t, NEW price \in Nat,
             world.stop.trade = t => ~Tighter(t, world.stop.price, price),
             world.stop.trade = t \/ t \in world.entries
      PROVE  ~Tighter(t, world'.stop.price, price)
  BY <1>2, <1>3 DEF Tighter
<1>4. MemoryIsBehind(file.extra)'
  <2> SUFFICES ASSUME NEW t \in Trades
               PROVE  LET m == file.extra[t]
                      IN /\ m.price \in Nat
                         /\ t \notin world'.entries => m = NoStop
                         /\ t \notin world'.moved =>
                              /\ \E order : m.ids \subseteq {order}
                              /\ world'.stop.trade = t => NoTighter(t, world'.stop.price, m.price)
    BY <1>1
  <2>1. CASE world.stop.trade = t \/ t \in world.entries
    BY <1>2, <1>3, <2>1 DEF NoTighter
  <2>2. CASE world.stop.trade # t /\ t \notin world.entries
    <3>1. file.extra[t] = NoStop
      BY <2>2
    <3> QED
      BY <3>1 DEF NoTighter, NoStop
  <2> QED
    BY <2>1, <2>2
<1>5. ASSUME NEW stop, NEW memory, StopIsBetween(stop, memory) PROVE StopIsBetween(stop, memory)'
  BY <1>2, <1>3, <1>5
<1>6. \A r \in Runs : ~At(r, "idle")' =>
        /\ "ledger" \in DOMAIN run'[r].got => run'[r].got["ledger"].entries \subseteq world'.entries
        /\ "stop" \in DOMAIN run'[r].got => StopIsBetween(run'[r].got["stop"], file.extra)
  BY <1>1, <1>2
<1>7. \A r \in Runs : ~At(r, "idle")' /\ "stop" \in DOMAIN run'[r].got =>
        StopIsBetween(run[r].got["stop"], file.extra)'
  <2> SUFFICES ASSUME NEW r \in Runs, ~At(r, "idle")', "stop" \in DOMAIN run'[r].got
               PROVE  StopIsBetween(run[r].got["stop"], file.extra)'
    OBVIOUS
  <2>1. PICK stop, memory : /\ stop = run[r].got["stop"] /\ memory = file.extra
                            /\ stop = run'[r].got["stop"] /\ memory = file'.extra
    BY <1>1
  <2>2. StopIsBetween(stop, memory)'
    BY <1>1, <1>5, <1>6, <2>1
  <2> QED
    BY <2>1, <2>2
<1> QED
  BY <1>1, <1>2, <1>4, <1>6, <1>7

\* What a run makes of what it read.
LEMMA FollowedStop ==
  ASSUME NEW memory, NEW stop, NEW entries \in SUBSET world.entries,
         MemoryIsBehind(memory), StopIsBetween(stop, memory)
  PROVE  MemoryIsBehind(FollowStop(memory, stop, entries))
<1> USE WatchAssumption DEF MemoryIsBehind, StopIsBetween
<1> SUFFICES ASSUME NEW t \in Trades
             PROVE  LET m == FollowStop(memory, stop, entries)[t]
                    IN /\ m.price \in Nat
                       /\ t \notin world.entries => m = NoStop
                       /\ t \notin world.moved =>
                            /\ \E order : m.ids \subseteq {order}
                            /\ world.stop.trade = t => NoTighter(t, world.stop.price, m.price)
  OBVIOUS
<1>1. CASE t \notin entries
  <2>1. FollowStop(memory, stop, entries)[t] = NoStop
    BY <1>1 DEF FollowStop
  <2> QED
    BY <2>1 DEF NoStop, NoTighter
<1>2. CASE t \in entries /\ t # stop.trade
  <2>1. FollowStop(memory, stop, entries)[t] = memory[t]
    BY <1>2 DEF FollowStop
  <2> QED
    BY <2>1
<1>3. CASE t \in entries /\ t = stop.trade
  <2> DEFINE counts == /\ stop.order # memory[t].last /\ stop.order \notin memory[t].ids
                       /\ memory[t].ids = {} \/ Moved(t, stop, entries, memory[t])
             ids == IF counts THEN memory[t].ids \cup {stop.order} ELSE memory[t].ids
  <2>1. FollowStop(memory, stop, entries)[t] = [ids |-> ids, price |-> stop.price, last |-> stop.order]
    BY <1>3 DEF FollowStop
  <2>2. ASSUME t \notin world.moved PROVE \E order : ids \subseteq {order}
    <3>1. ~Moved(t, stop, entries, memory[t])
      BY <1>3, <2>2 DEF Moved, NoTighter
    <3> QED
      BY <2>2, <3>1
  <2>3. ASSUME t \notin world.moved, world.stop.trade = t
        PROVE  NoTighter(t, world.stop.price, stop.price)
    BY <1>3, <2>3 DEF NoTighter
  <2> HIDE DEF ids, counts
  <2> QED
    BY <1>3, <2>1, <2>2, <2>3
<1> QED
  BY <1>1, <1>2, <1>3

LEMMA StopStep ==
  ASSUME WatchInv, StopInv, [Next]_vars
  PROVE  StopInv'
<1> SUFFICES ASSUME kind \in Stops, kind' = kind, WatchInv' PROVE StopInv'
  BY MemoryStep, WatchStep DEF StopInv, Stops
<1>1. kind # "event"
  BY DEF Stops
<1>2. CASE Outside
  BY <1>2, StopsMoveOn
<1>3. ASSUME NEW r \in Runs, Save(r) PROVE StopInv'
  <2>1. world' = world /\ \A q \in Runs : At(q, "idle")'
    BY <1>3 DEF Save, WatchInv, ShapeInv, HeldInv, At, Idle
  <2>2. MemoryIsBehind(file'.extra)
    <3>1. CASE file'.extra = file.extra
      BY <3>1 DEF StopInv
    <3>2. CASE /\ Unread(kind, run[r].got) = {}
               /\ file'.extra = Judged(kind, run[r].got, file.extra, clock).extra
      <4>1. Sources(kind)[1] = "ledger" /\ Sources(kind)[2] = "stop" /\ {1, 2} \subseteq DOMAIN Sources(kind)
        BY DEF Sources, Stops
      <4>2. {"ledger", "stop"} \subseteq DOMAIN run[r].got
        BY <3>2, <4>1 DEF Unread
      <4> DEFINE entries == run[r].got["ledger"].entries
                 stop == run[r].got["stop"]
      <4>3. entries \subseteq world.entries /\ StopIsBetween(stop, file.extra) /\ MemoryIsBehind(file.extra)
        BY <1>3, <4>2 DEF StopInv, Save, At
      <4>4. file'.extra \in {file.extra, FollowStop(file.extra, stop, entries)}
        BY <1>1, <3>2 DEF Judged, Stops, X5bResult, StopResult, Result, Waiting
      <4> HIDE DEF entries, stop
      <4> QED
        BY <4>3, <4>4, FollowedStop
    <3> QED
      BY <1>1, <1>3, <3>1, <3>2, SavedResult
  <2>3. MemoryIsBehind(file.extra)'
    BY <2>1, <2>2 DEF MemoryIsBehind
  <2> QED
    BY <2>1, <2>3 DEF StopInv
<1>4. CASE UNCHANGED <<world, file>> /\ \A r \in Runs : Reads(r)
  <2>1. MemoryIsBehind(file.extra)'
    BY <1>4 DEF StopInv, MemoryIsBehind
  <2>2. ASSUME NEW r \in Runs, run'[r].pc # "idle"
        PROVE  /\ "ledger" \in DOMAIN run'[r].got => run'[r].got["ledger"].entries \subseteq world.entries
               /\ "stop" \in DOMAIN run'[r].got => StopIsBetween(run'[r].got["stop"], file.extra)
    <3>1. CASE run'[r].got = <<>>
      BY <3>1
    <3>2. CASE run[r].pc # "idle" /\ run'[r].got = run[r].got
      BY <3>2 DEF StopInv, At
    <3>3. ASSUME run[r].pc # "idle", NEW source, NEW value \in Reading(source),
                 run'[r].got = With(run[r].got, source, value)
          PROVE  /\ "ledger" \in DOMAIN run'[r].got => run'[r].got["ledger"].entries \subseteq world.entries
                 /\ "stop" \in DOMAIN run'[r].got => StopIsBetween(run'[r].got["stop"], file.extra)
      <4>1. source = "ledger" => value.entries = world.entries
        BY <3>3 DEF Reading, Stops, Sheets, Streaks
      <4>2. source = "stop" => value = world.stop
        BY <3>3 DEF Reading, Stops, Sheets, Streaks
      <4>3. StopIsBetween(world.stop, file.extra)
        BY WatchAssumption DEF StopInv, StopIsBetween, MemoryIsBehind, Tighter
      <4>4. /\ DOMAIN run'[r].got = DOMAIN run[r].got \cup {source} /\ run'[r].got[source] = value
            /\ \A s \in DOMAIN run[r].got : s # source => run'[r].got[s] = run[r].got[s]
        BY <3>3 DEF With
      <4>5. /\ "ledger" \in DOMAIN run[r].got => run[r].got["ledger"].entries \subseteq world.entries
            /\ "stop" \in DOMAIN run[r].got => StopIsBetween(run[r].got["stop"], file.extra)
        BY <3>3 DEF StopInv, At
      <4> QED
        BY <4>1, <4>2, <4>3, <4>4, <4>5
    <3> QED
      BY <1>4, <2>2, <3>1, <3>2, <3>3 DEF Reads
  <2>3. ASSUME NEW r \in Runs, run'[r].pc # "idle", "stop" \in DOMAIN run'[r].got
        PROVE  StopIsBetween(run[r].got["stop"], file.extra)'
    BY <1>4, <2>2, <2>3 DEF StopIsBetween
  <2> QED
    BY <1>4, <2>1, <2>2, <2>3 DEF StopInv, At
<1> QED
  BY <1>1, <1>2, <1>3, <1>4, ReadStep

\* No order that leaves the stop where it was or loosens it, and no order of an earlier
\* trade, is ever taken for a move; who placed a tightening one is not told apart.
THEOREM MovesAreReal == Spec => []MovedIsReal
<1>1. Init => StopInv
  <2> SUFFICES ASSUME Init, kind \in Stops PROVE StopInv
    BY DEF StopInv
  <2>1. /\ world = [entries |-> {}, stopped |-> {}, moved |-> {}, used |-> 0,
                    stop |-> [trade |-> NoTrade, order |-> NoOrder, price |-> 0]]
        /\ file.extra = [t \in Trades |-> NoStop]
        /\ \A r \in Runs : At(r, "idle")
    BY DEF Init, NoEntry, NoMemory, Streaks, Stops, Worlds, Sheets, Idle, At
  <2> QED
    BY <2>1, ObservationAssumption DEF StopInv, MemoryIsBehind, NoStop, NoTighter
<1>2. WatchInv /\ StopInv /\ [Next]_vars => StopInv'
  BY StopStep
<1>3. StopInv => MovedIsReal
  <2> SUFFICES ASSUME StopInv, kind \in Stops, NEW t \in MovedTrades(file.extra), t \notin world.moved
               PROVE  FALSE
    BY DEF MovedIsReal
  <2>1. t \in Trades /\ Cardinality(file.extra[t].ids) >= 2
    BY DEF MovedTrades
  <2>2. PICK order : file.extra[t].ids \subseteq {order}
    BY <2>1 DEF StopInv, MemoryIsBehind
  <2>3. file.extra[t].ids = {} \/ file.extra[t].ids = {order}
    BY <2>2
  <2>4. Cardinality(file.extra[t].ids) \in {0, 1}
    <3>1. Cardinality({}) = 0 /\ Cardinality({order}) = 1
      BY FS_EmptySet, FS_Singleton
    <3> QED
      BY <2>3, <3>1
  <2> QED
    BY <2>1, <2>4
<1> QED
  BY <1>1, <1>2, <1>3, WatchInvariant, PTL DEF Spec

-----------------------------------------------------------------------------
(* The sheet.                                                              *)

TradesBy(now) == [at : 0 .. now, late : BOOLEAN]

\* What a status, a ledger that was read and a confirmation say of the strategy w now,
\* as far as it records its trades when they are made.
StatusHolds(status, w, now) ==
  /\ status.checked \in -1 .. now
  /\ status.value = "RECONCILED" =>
       \A t \in w.trades : ~t.late /\ t.at + SheetGrace < status.checked => t \in w.shown

LedgerHolds(trades, w, now) ==
  /\ trades \subseteq TradesBy(now)
  /\ \A t \in w.trades : ~t.late /\ t.at < now => t \in trades

ConfirmationHolds(since, w) == \A t \in w.trades : ~t.late /\ t.at < since => t \in w.shown

SheetInv ==
  kind \in Sheets =>
    /\ DOMAIN world = Strategies /\ file.at \in 0 .. clock
    /\ \A s \in Strategies :
         /\ DOMAIN world[s] = {"trades", "shown", "status"}
         /\ world[s].trades \subseteq TradesBy(clock)
         /\ StatusHolds(world[s].status, world[s], clock)
         /\ file.closable /\ s \in LookedAt => ConfirmationHolds(file.at, world[s])
         /\ kind = "tabs" =>
              /\ file.extra[s] \in -1 .. clock /\ ConfirmationHolds(file.extra[s], world[s])
              /\ file.state \notin {"none", "error"} /\ file.extra[s] # Never =>
                   file.at - Carry <= file.extra[s]
    /\ \A r \in Runs : ~At(r, "idle") => \A s \in Strategies :
         LET got == run[r].got
         IN /\ <<s, "status">> \in DOMAIN got => StatusHolds(got[<<s, "status">>], world[s], clock)
            /\ <<s, "ledger">> \in DOMAIN got => LedgerHolds(got[<<s, "ledger">>], world[s], clock)

LEMMA MaxOfTimes ==
  ASSUME NEW n \in Nat, NEW S \in SUBSET (0 .. n), S # {}
  PROVE  Max(S) \in S /\ \A k \in S : k <= Max(S)
<1> DEFINE T == {n - k : k \in S}
<1>1. \A k \in S : n - k \in Nat
  OBVIOUS
<1>2. T \subseteq Nat /\ T # {}
  BY <1>1
<1>3. PICK m \in T : \A k \in T : ~ (<<k, m>> \in OpToRel(<, Nat))
  BY <1>2, NatLessThanWellFounded, WFMin
<1>4. PICK i \in S : m = n - i
  OBVIOUS
<1>5. \A k \in S : i >= k
  <2> SUFFICES ASSUME NEW k \in S PROVE i >= k
    OBVIOUS
  <2>1. n - k \in T /\ n - k \in Nat /\ n - i \in Nat
    BY <1>1
  <2>2. ~ (n - k < n - i)
    BY <1>3, <1>4, <2>1 DEF OpToRel
  <2> QED
    BY <2>2
<1>6. Max(S) \in S /\ \A k \in S : Max(S) >= k
  BY <1>4, <1>5 DEF Max
<1> QED
  BY <1>6

\* The time of the last trade that was read.
LEMMA LastOf ==
  ASSUME NEW now \in Nat, NEW trades, trades \subseteq TradesBy(now), trades # {}
  PROVE  /\ Max({t.at : t \in trades}) \in Nat
         /\ \A t \in trades : t.at <= Max({u.at : u \in trades})
<1> DEFINE S == {t.at : t \in trades}
<1>1. S \in SUBSET (0 .. now) /\ S # {} /\ \A t \in trades : t.at \in S
  BY DEF TradesBy
<1> HIDE DEF S
<1>2. Max(S) \in S /\ \A k \in S : k <= Max(S)
  BY <1>1, MaxOfTimes
<1>3. \A m \in S : m \in Nat
  BY <1>1
<1>4. Max(S) \in Nat /\ \A t \in trades : t.at <= Max(S)
  BY <1>1, <1>2, <1>3
<1> QED
  BY <1>4 DEF S

\* A sheet that was compared after the grace of the last trade that was read shows every
\* trade made before now.
LEMMA CoveredIsShown ==
  ASSUME NEW now \in Nat, NEW w, NEW status, NEW trades, w.trades \subseteq TradesBy(now),
         StatusHolds(status, w, now), LedgerHolds(trades, w, now),
         trades # {}, Covers(status, Max({t.at : t \in trades}), now) = "covered"
  PROVE  ConfirmationHolds(now, w)
<1> DEFINE last == Max({t.at : t \in trades})
<1>1. last \in Nat /\ \A t \in trades : t.at <= last
  BY LastOf DEF LedgerHolds
<1> HIDE DEF last
<1>2. status.value = "RECONCILED" /\ ~(status.checked < last + Grace)
  BY DEF Covers, last
<1> SUFFICES ASSUME NEW t \in w.trades, ~t.late, t.at < now PROVE t \in w.shown
  BY DEF ConfirmationHolds
<1>3. t \in trades /\ t.at \in Nat /\ t.at <= last
  BY <1>1 DEF LedgerHolds, TradesBy
<1>4. t.at + SheetGrace < status.checked
  BY <1>1, <1>2, <1>3, ObservationAssumption, WatchAssumption DEF StatusHolds
<1> QED
  BY <1>2, <1>4 DEF StatusHolds

\* What a run makes of one tab and of the memory of it.
LEMMA TabIsShown ==
  ASSUME NEW now \in Nat, NEW w, NEW status, NEW trades, NEW since \in -1 .. now,
         w.trades \subseteq TradesBy(now), StatusHolds(status, w, now), LedgerHolds(trades, w, now),
         ConfirmationHolds(since, w)
  PROVE  LET verdict == TabVerdict(status, trades, since, now)
             next    == Confirmed(verdict, since, now)
         IN /\ next \in -1 .. now /\ ConfirmationHolds(next, w)
            /\ next # Never => now - Carry <= next
            /\ verdict = "ok" => ConfirmationHolds(now, w)
<1> USE WatchAssumption DEF Never
<1> DEFINE verdict == TabVerdict(status, trades, since, now)
           next    == Confirmed(verdict, since, now)
<1>1. CASE verdict = "ok"
  <2>1. trades # {} /\ Covers(status, Max({t.at : t \in trades}), now) = "covered"
    BY <1>1 DEF TabVerdict
  <2>2. next = now
    BY <1>1 DEF Confirmed
  <2> QED
    BY <2>1, <2>2, CoveredIsShown
<1>2. CASE verdict = "carried"
  <2>1. now - since \in 0 .. Carry
    BY <1>2 DEF TabVerdict, MayCarry
  <2>2. next = since
    BY <1>2 DEF Confirmed
  <2> QED
    BY <1>2, <2>1, <2>2
<1>3. CASE verdict \notin {"ok", "carried"}
  <2>1. next = -1
    BY <1>3 DEF Confirmed
  <2> QED
    BY <1>3, <2>1 DEF ConfirmationHolds, TradesBy
<1> QED
  BY <1>1, <1>2, <1>3

\* A run of the tabs reads status and ledger of each.
LEMMA TabsAreRead ==
  ASSUME NEW got, Unread("tabs", got) = {}
  PROVE  \A s \in Strategies : {<<s, "status">>, <<s, "ledger">>} \subseteq DOMAIN got
<1> DEFINE n == Cardinality(Strategies)
<1>1. n \in Nat /\ Order \in [1 .. n -> Strategies]
      /\ \A s \in Strategies : \E k \in 1 .. n : Order[k] = s
  <2>1. PICK f : f \in Bijection(1 .. n, Strategies)
    BY ObservationAssumption, FS_CardinalityType DEF ExistsBijection
  <2>2. n \in Nat /\ f \in [1 .. n -> Strategies] /\ IsInjective(f)
    BY <2>1, ObservationAssumption, FS_CardinalityType DEF Bijection, Injection
  <2>3. Order \in [1 .. n -> Strategies] /\ IsInjective(Order)
    BY <2>2 DEF Order, SetToSeq
  <2>4. Order \in Injection(1 .. n, Strategies)
    BY <2>3 DEF Injection
  <2>5. IsFiniteSet(1 .. n) /\ Cardinality(1 .. n) = n
    BY <2>2, FS_Interval
  <2>6. Order \in Surjection(1 .. n, Strategies)
    BY <2>4, <2>5, ObservationAssumption, FS_Injection
  <2> QED
    BY <2>2, <2>3, <2>6 DEF Surjection
<1> HIDE DEF n
<1> SUFFICES ASSUME NEW s \in Strategies PROVE {<<s, "status">>, <<s, "ledger">>} \subseteq DOMAIN got
  OBVIOUS
<1>2. PICK k \in 1 .. n : Order[k] = s
  BY <1>1
<1> DEFINE source(i) == <<Order[(i + 1) \div 2], IF i % 2 = 1 THEN "status" ELSE "ledger">>
<1>3. Sources("tabs") = [i \in 1 .. 2 * n |-> source(i)]
  BY DEF Sources, n
<1>4. \A i \in 1 .. 2 * n : source(i) \in DOMAIN got
  BY <1>3 DEF Unread
<1>5. /\ 2 * k - 1 \in 1 .. 2 * n /\ 2 * k \in 1 .. 2 * n
      /\ (2 * k - 1 + 1) \div 2 = k /\ (2 * k + 1) \div 2 = k
      /\ (2 * k - 1) % 2 = 1 /\ (2 * k) % 2 = 0
  BY <1>1
<1>6. source(2 * k - 1) = <<s, "status">> /\ source(2 * k) = <<s, "ledger">>
  BY <1>2, <1>5
<1> QED
  BY <1>4, <1>5, <1>6

\* How a strategy and its sheet move on: what appears is shown later, or was made just
\* now, or is recorded late.
MovesOn(w, x, now) ==
  /\ w.shown \subseteq x.shown
  /\ \A t \in x.trades : t \in w.trades \/ t.late \/ t.at = now

LEMMA StillHolds ==
  ASSUME NEW now \in Nat, NEW later \in Nat, now <= later, NEW w, NEW x, MovesOn(w, x, now),
         x.trades \subseteq TradesBy(later)
  PROVE  /\ \A status : StatusHolds(status, w, now) => StatusHolds(status, x, later)
         /\ \A trades : LedgerHolds(trades, w, now) /\ now = later => LedgerHolds(trades, x, later)
         /\ \A since \in -1 .. now : ConfirmationHolds(since, w) => ConfirmationHolds(since, x)
<1> USE ObservationAssumption DEF MovesOn, TradesBy
<1>1. ASSUME NEW status, StatusHolds(status, w, now) PROVE StatusHolds(status, x, later)
  BY <1>1 DEF StatusHolds
<1>2. ASSUME NEW trades, LedgerHolds(trades, w, now), now = later PROVE LedgerHolds(trades, x, later)
  BY <1>2 DEF LedgerHolds
<1>3. ASSUME NEW since \in -1 .. now, ConfirmationHolds(since, w) PROVE ConfirmationHolds(since, x)
  BY <1>3 DEF ConfirmationHolds
<1> QED
  BY <1>1, <1>2, <1>3

\* The world of the sheets moves on.
LEMMA SheetsMoveOn ==
  ASSUME WatchInv, SheetInv, kind \in Sheets, Outside
  PROVE  SheetInv'
<1> USE DEF SheetInv
<1> DEFINE Fields(w) == DOMAIN w = {"trades", "shown", "status"}
<1>1. kind' = kind /\ UNCHANGED watch /\ clock \in Nat /\ clock' \in Nat /\ clock <= clock'
      /\ (clock' # clock => \A r \in Runs : At(r, "idle"))
  <2>1. CASE Tick
    BY <2>1, ObservationAssumption DEF Tick, WatchInv, HeldInv
  <2>2. CASE ~Tick
    <3>1. UNCHANGED <<kind, clock, watch>>
      BY <2>2 DEF Outside, Happens, Trade, ReachesSheet, CompareSheet, Health, OpenTrade, RecordEntry,
                  MoveStop, ForeignOrder, CloseTrade
    <3> QED
      BY <3>1 DEF WatchInv, HeldInv
  <2> QED
    BY <2>1, <2>2
<1>2. /\ DOMAIN world' = Strategies
      /\ \A s \in Strategies :
           /\ Fields(world'[s]) /\ world'[s].trades \subseteq TradesBy(clock')
           /\ MovesOn(world[s], world'[s], clock)
           /\ \/ world'[s].status = world[s].status
              \/ StatusHolds(world'[s].status, world'[s], clock')
  <2>1. CASE Tick
    BY <1>1, <2>1 DEF Tick, MovesOn, TradesBy
  <2>2. CASE Trade
    <3>1. PICK s \in Strategies, late \in BOOLEAN :
            /\ late => clock > 0
            /\ world' = [world EXCEPT ![s].trades =
                           @ \cup {[at |-> IF late THEN clock - 1 ELSE clock, late |-> late]}]
      BY <2>2 DEF Trade
    <3>2. clock' = clock
      BY <2>2 DEF Trade
    <3> DEFINE new == [at |-> IF late THEN clock - 1 ELSE clock, late |-> late]
    <3>3. new \in TradesBy(clock) /\ (new.late \/ new.at = clock)
      BY <1>1, <3>1 DEF TradesBy
    <3> HIDE DEF new
    <3>4. /\ DOMAIN world' = Strategies
          /\ \A x \in Strategies : x # s => world'[x] = world[x]
          /\ Fields(world'[s]) /\ world'[s].trades = world[s].trades \cup {new}
          /\ world'[s].shown = world[s].shown /\ world'[s].status = world[s].status
      BY <3>1 DEF new
    <3> QED
      BY <3>2, <3>3, <3>4 DEF MovesOn
  <2>3. CASE ReachesSheet
    <3>1. PICK s, t : s \in Strategies /\ world' = [world EXCEPT ![s].shown = @ \cup {t}]
      BY <2>3 DEF ReachesSheet
    <3>2. /\ DOMAIN world' = Strategies /\ clock' = clock
          /\ \A x \in Strategies : x # s => world'[x] = world[x]
          /\ Fields(world'[s]) /\ world'[s].trades = world[s].trades
          /\ world'[s].shown = world[s].shown \cup {t} /\ world'[s].status = world[s].status
      BY <2>3, <3>1 DEF ReachesSheet
    <3> QED
      BY <3>2 DEF MovesOn
  <2>4. CASE CompareSheet
    <3>1. PICK s, value :
            LET missing == {t \in world[s].trades \ world[s].shown : clock - t.at > SheetGrace}
            IN /\ s \in Strategies
               /\ value \in {"UNKNOWN", IF missing = {} THEN "RECONCILED" ELSE "DIVERGED"}
               /\ world' = [world EXCEPT ![s].status = [value |-> value, checked |-> clock, tab |-> TRUE]]
      BY <2>4 DEF CompareSheet
    <3>2. /\ DOMAIN world' = Strategies /\ clock' = clock
          /\ \A x \in Strategies : x # s => world'[x] = world[x]
          /\ Fields(world'[s]) /\ world'[s].trades = world[s].trades
          /\ world'[s].shown = world[s].shown
          /\ world'[s].status = [value |-> value, checked |-> clock, tab |-> TRUE]
      BY <2>4, <3>1 DEF CompareSheet
    <3>3. StatusHolds(world'[s].status, world'[s], clock)
      <4> SUFFICES ASSUME value = "RECONCILED", NEW t \in world[s].trades, t.at + SheetGrace < clock
                   PROVE  t \in world[s].shown
        BY <1>1, <3>2 DEF StatusHolds
      <4>1. ~(clock - t.at > SheetGrace) \/ t \in world[s].shown
        BY <3>1
      <4>2. s \in Strategies /\ SheetGrace \in Nat
        BY <3>1, ObservationAssumption
      <4>3. t.at \in Nat
        BY <1>1, <4>2 DEF TradesBy
      <4> QED
        BY <1>1, <4>1, <4>2, <4>3
    <3> QED
      BY <3>2, <3>3 DEF MovesOn
  <2> QED
    BY <2>1, <2>2, <2>3, <2>4
    DEF Outside, Happens, Health, OpenTrade, RecordEntry, MoveStop, ForeignOrder, CloseTrade,
        Sheets, Streaks, Stops
<1>3. \A s \in Strategies :
        /\ \A status : StatusHolds(status, world[s], clock) => StatusHolds(status, world'[s], clock')
        /\ \A trades : LedgerHolds(trades, world[s], clock) /\ clock = clock' =>
                         LedgerHolds(trades, world'[s], clock')
        /\ \A since \in -1 .. clock : ConfirmationHolds(since, world[s]) => ConfirmationHolds(since, world'[s])
  BY <1>1, <1>2, StillHolds
<1>4. file' = file /\ run' = run /\ LookedAt' = LookedAt
  BY <1>1 DEF watch, LookedAt
<1>5. file'.at \in 0 .. clock'
  BY <1>1, <1>4
<1>6. \A s \in Strategies :
        /\ StatusHolds(world'[s].status, world'[s], clock')
        /\ file'.closable /\ s \in LookedAt' => ConfirmationHolds(file'.at, world'[s])
        /\ kind = "tabs" =>
             /\ file'.extra[s] \in -1 .. clock' /\ ConfirmationHolds(file'.extra[s], world'[s])
             /\ file'.state \notin {"none", "error"} /\ file'.extra[s] # Never =>
                  file'.at - Carry <= file'.extra[s]
  BY <1>1, <1>2, <1>3, <1>4
<1>7. \A r \in Runs : ~At(r, "idle")' => \A s \in Strategies :
        LET got == run'[r].got
        IN /\ <<s, "status">> \in DOMAIN got => StatusHolds(got[<<s, "status">>], world'[s], clock')
           /\ <<s, "ledger">> \in DOMAIN got => LedgerHolds(got[<<s, "ledger">>], world'[s], clock')
  BY <1>1, <1>3, <1>4 DEF At
<1> QED
  BY <1>1, <1>2, <1>5, <1>6, <1>7

\* What a run saves of a check of the sheet.
LEMMA SheetSaved ==
  ASSUME WatchInv, SheetInv, kind \in Sheets, NEW r \in Runs, Save(r)
  PROVE  /\ file'.at = clock
         /\ \A s \in Strategies :
              /\ file'.closable /\ s \in LookedAt => ConfirmationHolds(clock, world[s])
              /\ kind = "tabs" =>
                   /\ file'.extra[s] \in -1 .. clock /\ ConfirmationHolds(file'.extra[s], world[s])
                   /\ file'.state \notin {"none", "error"} /\ file'.extra[s] # Never =>
                        clock - Carry <= file'.extra[s]
<1> DEFINE got == run[r].got
           result == Judged(kind, got, file.extra, clock)
<1>1. file'.at = clock /\ clock \in Nat /\ ~At(r, "idle")
  BY SavedResult DEF Sheets, WatchInv, HeldInv, Save, At
<1>2. CASE file'.state = "error" /\ ~file'.closable /\ file'.extra = file.extra
  BY <1>1, <1>2 DEF SheetInv
<1>3. CASE /\ Unread(kind, got) = {} /\ file'.state = result.state
           /\ file'.closable = result.closable /\ file'.extra = result.extra
  <2>1. \A s \in Strategies :
          /\ world[s].trades \subseteq TradesBy(clock)
          /\ <<s, "status">> \in DOMAIN got => StatusHolds(got[<<s, "status">>], world[s], clock)
          /\ <<s, "ledger">> \in DOMAIN got => LedgerHolds(got[<<s, "ledger">>], world[s], clock)
    BY <1>1 DEF SheetInv
  <2>2. CASE kind = "tabs"
    <3> DEFINE verdict == [s \in Strategies |->
                             TabVerdict(got[<<s, "status">>], got[<<s, "ledger">>], file.extra[s], clock)]
               extra == [s \in Strategies |-> Confirmed(verdict[s], file.extra[s], clock)]
    <3>1. result = TabsResult(got, file.extra, clock)
      BY <2>2 DEF Judged
    <3>2. /\ result.extra = extra
          /\ result.closable => \A s \in Strategies : verdict[s] = "ok"
      BY <3>1 DEF TabsResult, Result, Waiting
    <3>3. \A s \in Strategies : {<<s, "status">>, <<s, "ledger">>} \subseteq DOMAIN got
      BY <1>3, <2>2, TabsAreRead
    <3> HIDE DEF got
    <3>4. \A s \in Strategies :
            /\ extra[s] \in -1 .. clock /\ ConfirmationHolds(extra[s], world[s])
            /\ extra[s] # Never => clock - Carry <= extra[s]
            /\ verdict[s] = "ok" => ConfirmationHolds(clock, world[s])
      <4> SUFFICES ASSUME NEW s \in Strategies
                   PROVE  /\ extra[s] \in -1 .. clock /\ ConfirmationHolds(extra[s], world[s])
                          /\ extra[s] # Never => clock - Carry <= extra[s]
                          /\ verdict[s] = "ok" => ConfirmationHolds(clock, world[s])
        OBVIOUS
      <4>1. file.extra[s] \in -1 .. clock /\ ConfirmationHolds(file.extra[s], world[s])
        BY <2>2 DEF SheetInv
      <4>2. /\ verdict[s] = TabVerdict(got[<<s, "status">>], got[<<s, "ledger">>], file.extra[s], clock)
            /\ extra[s] = Confirmed(verdict[s], file.extra[s], clock)
        OBVIOUS
      <4> HIDE DEF verdict, extra
      <4> QED
        BY <1>1, <2>1, <3>3, <4>1, <4>2, TabIsShown
    <3> HIDE DEF verdict, extra, result
    <3> QED
      BY <1>1, <1>3, <2>2, <3>2, <3>4 DEF LookedAt
  <2>3. CASE kind = "fill"
    <3> DEFINE status == got[<<Followed, "status">>]
               trades == got[<<Followed, "ledger">>]
    <3>1. result = FillResult(status, trades, clock)
      BY <2>3 DEF Judged
    <3>2. result.closable => /\ trades # {}
                             /\ Covers(status, Max({t.at : t \in trades}), clock) = "covered"
      BY <3>1 DEF FillResult, Result, Waiting
    <3>3. {<<Followed, "status">>, <<Followed, "ledger">>} \subseteq DOMAIN got
      <4>1. /\ Sources("fill")[1] = <<Followed, "ledger">> /\ Sources("fill")[2] = <<Followed, "status">>
            /\ {1, 2} \subseteq DOMAIN Sources("fill")
        BY DEF Sources
      <4> QED
        BY <1>3, <2>3, <4>1 DEF Unread
    <3>4. Followed \in Strategies
      BY ObservationAssumption DEF Followed
    <3>5. StatusHolds(status, world[Followed], clock) /\ LedgerHolds(trades, world[Followed], clock)
          /\ world[Followed].trades \subseteq TradesBy(clock)
      BY <2>1, <3>3, <3>4
    <3> HIDE DEF got, status, trades, result
    <3>6. result.closable => ConfirmationHolds(clock, world[Followed])
      BY <1>1, <3>2, <3>5, CoveredIsShown
    <3> QED
      BY <1>1, <1>3, <2>3, <3>6 DEF LookedAt
  <2> QED
    BY <2>2, <2>3 DEF Sheets
<1> QED
  BY <1>1, <1>2, <1>3, SavedResult DEF Sheets

LEMMA SheetStep ==
  ASSUME WatchInv, SheetInv, [Next]_vars
  PROVE  SheetInv'
<1> SUFFICES ASSUME kind \in Sheets, kind' = kind PROVE SheetInv'
  BY MemoryStep DEF SheetInv, Sheets
<1>1. clock \in Nat /\ LookedAt' = LookedAt /\ kind # "event"
  BY DEF WatchInv, HeldInv, LookedAt, Sheets
<1>2. CASE Outside
  BY <1>2, SheetsMoveOn
<1>3. ASSUME NEW r \in Runs, Save(r) PROVE SheetInv'
  <2>1. UNCHANGED <<kind, world, clock>> /\ \A q \in Runs : At(q, "idle")'
    BY <1>3 DEF Save, WatchInv, ShapeInv, HeldInv, At, Idle
  <2>2. /\ file'.at = clock
        /\ \A s \in Strategies :
              /\ file'.closable /\ s \in LookedAt => ConfirmationHolds(clock, world[s])
              /\ kind = "tabs" =>
                   /\ file'.extra[s] \in -1 .. clock /\ ConfirmationHolds(file'.extra[s], world[s])
                   /\ file'.state \notin {"none", "error"} /\ file'.extra[s] # Never =>
                        clock - Carry <= file'.extra[s]
    BY <1>3, SheetSaved
  <2> QED
    BY <1>1, <2>1, <2>2 DEF SheetInv
<1>4. CASE UNCHANGED <<world, clock, file>> /\ \A r \in Runs : Reads(r)
  <2>1. ASSUME NEW r \in Runs, run'[r].pc # "idle", NEW s \in Strategies
        PROVE  LET got == run'[r].got
               IN /\ <<s, "status">> \in DOMAIN got => StatusHolds(got[<<s, "status">>], world[s], clock)
                  /\ <<s, "ledger">> \in DOMAIN got => LedgerHolds(got[<<s, "ledger">>], world[s], clock)
    <3>1. CASE run'[r].got = <<>>
      BY <3>1
    <3>2. CASE run[r].pc # "idle" /\ run'[r].got = run[r].got
      BY <3>2 DEF SheetInv, At
    <3>3. ASSUME run[r].pc # "idle", NEW source, NEW value \in Reading(source),
                 run'[r].got = With(run[r].got, source, value)
          PROVE  LET got == run'[r].got
                 IN /\ <<s, "status">> \in DOMAIN got => StatusHolds(got[<<s, "status">>], world[s], clock)
                    /\ <<s, "ledger">> \in DOMAIN got => LedgerHolds(got[<<s, "ledger">>], world[s], clock)
      <4>1. /\ source = <<s, "status">> => value = world[s].status
            /\ source = <<s, "ledger">> => value = world[s].trades
        <5>1. Reading(source) = {IF source[2] = "status" THEN world[source[1]].status
                                                         ELSE world[source[1]].trades}
          BY DEF Reading, Sheets, Streaks
        <5>2. value = IF source[2] = "status" THEN world[source[1]].status ELSE world[source[1]].trades
          BY <3>3, <5>1
        <5>3. CASE source = <<s, "status">>
          BY <5>2, <5>3
        <5>4. CASE source = <<s, "ledger">>
          BY <5>2, <5>4
        <5> QED
          BY <5>3, <5>4
      <4>2. StatusHolds(world[s].status, world[s], clock) /\ LedgerHolds(world[s].trades, world[s], clock)
        BY DEF SheetInv, LedgerHolds
      <4>3. /\ DOMAIN run'[r].got = DOMAIN run[r].got \cup {source} /\ run'[r].got[source] = value
            /\ \A x \in DOMAIN run[r].got : x # source => run'[r].got[x] = run[r].got[x]
        BY <3>3 DEF With
      <4>4. LET got == run[r].got
            IN /\ <<s, "status">> \in DOMAIN got => StatusHolds(got[<<s, "status">>], world[s], clock)
               /\ <<s, "ledger">> \in DOMAIN got => LedgerHolds(got[<<s, "ledger">>], world[s], clock)
        BY <3>3 DEF SheetInv, At
      <4> QED
        BY <4>1, <4>2, <4>3, <4>4
    <3> QED
      BY <1>4, <2>1, <3>1, <3>2, <3>3 DEF Reads
  <2> QED
    BY <1>1, <1>4, <2>1 DEF SheetInv, At
<1> QED
  BY <1>1, <1>2, <1>3, <1>4, ReadStep

\* What the watch lists as confirmed is on the sheet, although it reads status and ledger
\* one after the other and carries a confirmation from run to run.
THEOREM ListedTradesAreShown == Spec => []ListedIsShown
<1>1. Init => SheetInv
  <2> SUFFICES ASSUME Init, kind \in Sheets PROVE SheetInv
    BY DEF SheetInv
  <2>1. /\ world = [s \in Strategies |-> [trades |-> {}, shown |-> {}, status |-> OldTab]]
        /\ file.at = 0 /\ file.closable = FALSE /\ clock = 0
        /\ kind = "tabs" => file.extra = [s \in Strategies |-> Never]
        /\ \A r \in Runs : At(r, "idle")
    <3>1. world \in {[s \in Strategies |-> [trades |-> {}, shown |-> {}, status |-> OldTab]]}
      BY DEF Init, Worlds, Sheets
    <3>2. file.at = 0 /\ file.closable = FALSE /\ file.extra = NoMemory(kind) /\ clock = 0
      BY DEF Init, NoEntry
    <3>3. \A r \in Runs : At(r, "idle")
      BY DEF Init, Idle, At
    <3>4. NoMemory("tabs") = [s \in Strategies |-> Never]
      BY DEF NoMemory, Streaks, Stops
    <3> QED
      BY <3>1, <3>2, <3>3, <3>4
  <2>2. file.state = "none"
    BY DEF Init, NoEntry
  <2> QED
    BY <2>1, <2>2 DEF SheetInv, StatusHolds, ConfirmationHolds, OldTab, Never
<1>2. WatchInv /\ SheetInv /\ [Next]_vars => SheetInv'
  BY SheetStep
<1>3. SheetInv /\ WatchInv => ListedIsShown
  <2> SUFFICES ASSUME SheetInv, WatchInv, kind \in Sheets, file.state \notin {"none", "error"},
                      NEW s \in LookedAt, NEW t \in world[s].trades, ~t.late,
                      file.closable \/ (kind = "tabs" /\ file.extra[s] # Never),
                      t.at < (IF file.closable THEN file.at ELSE file.at - Carry)
               PROVE  t \in world[s].shown
    BY DEF ListedIsShown
  <2>1. s \in Strategies /\ t.at \in Nat /\ file.at \in Nat
    BY ObservationAssumption DEF LookedAt, Followed, SheetInv, TradesBy
  <2>2. CASE file.closable
    BY <2>1, <2>2 DEF SheetInv, ConfirmationHolds
  <2>3. CASE ~file.closable
    <3>1. /\ file.extra[s] \in Int /\ file.at - Carry <= file.extra[s]
          /\ ConfirmationHolds(file.extra[s], world[s])
      BY <2>1, <2>3 DEF SheetInv
    <3> QED
      BY <2>1, <2>3, <3>1, WatchAssumption DEF ConfirmationHolds
  <2> QED
    BY <2>2, <2>3
<1> QED
  BY <1>1, <1>2, <1>3, WatchInvariant, PTL DEF Spec
=============================================================================
