--------------------------- MODULE ProjectionOutbox ---------------------------
(***************************************************************************)
(* The durable projection outbox (src/src/trade_alerts/projection_outbox): *)
(* a JSONL file of intents and dispatch records, guarded by an exclusive   *)
(* file lock, with three kinds of caller: the strategy enqueues, dispatcher*)
(* processes try the head of the queue once per pass, and an operator      *)
(* requeues the rejected intents of one trade.                             *)
(*                                                                         *)
(* The file is modelled by what its readers compute from it: `outbox` has  *)
(* one entry per intent record, in file order (the index stands for the    *)
(* uuid intent_id), with the statuses ever recorded for that intent and    *)
(* the trailing run of equal error codes that parking counts.              *)
(***************************************************************************)
EXTENDS Naturals, Sequences, LedgerProjections

CONSTANTS
  Earlier,        \* Earlier[p]: the ledger facts a strategy enqueues before p
  Workers,        \* dispatcher processes
  Operator,       \* the process running the requeue tool
  Nobody,         \* value of `lock` while the lock file is free
  Answers,        \* Answers[a]: the <<status, error code>> pairs `submit` may
                  \* return for an intent of action a
  OrphanParkAfter, ConflictParkAfter, UnconfirmedParkAfter,
  AllBaseMismatchesLogged,  \* TRUE for the one strategy ERR-068 exists for
  MaxIntents      \* bound: no enqueue or requeue beyond this many intents

Statuses == {"CONFIRMED", "REJECTED", "TRANSPORT_FAILED"}
Terminal == {"CONFIRMED", "REJECTED"}

ParkedCodes == {"orphan_close_no_open_row", "trade_id_conflict_parked",
                "correction_close_not_confirmed"}
Codes == ParkedCodes \cup
         {"none", "trade_id_not_found", "trade_id_conflict",
          "close_not_confirmed", "correction_base_mismatch",
          "duplicate_trade_id", "trade_close_conflict", "projection_invalid",
          "malformed_request", "request_refused", "endpoint_not_configured",
          "rehydration_invalid", "transport_failed"}

ASSUME OutboxAssumption ==
  /\ Earlier \in [Projections -> SUBSET Projections]
  /\ Operator \notin Workers /\ Nobody \notin Workers \cup {Operator}
  /\ Answers \in [Actions -> SUBSET (Statuses \X Codes)]
  /\ \A a \in Actions : \A ans \in Answers[a] : ans[2] \notin ParkedCodes
  /\ OrphanParkAfter \in Nat \ {0}
  /\ ConflictParkAfter \in Nat \ {0}
  /\ UnconfirmedParkAfter \in Nat \ {0}
  /\ AllBaseMismatchesLogged \in BOOLEAN
  /\ MaxIntents \in Nat

VARIABLES
  outbox,     \* Seq(Entry): the file, as its readers see it
  lock,       \* holder of the exclusive lock on the sibling .lock file
  job,        \* job[w]: where dispatcher w is in its one-shot pass
  requeuing,  \* projections the operator's requeue has still to append
  parkLog     \* lines written to the fleet event log: <<intent, code>>

vars == <<outbox, lock, job, requeuing, parkLog>>

Entry == [proj : Projections, seen : SUBSET Statuses, code : Codes, run : Nat]

\* A pass: the intent it works on and, once a dispatch is on disk, its code (the
\* ProjectionDispatchResult in the dispatcher's memory; "none" if not REJECTED).
Pass(phase, i, code) == [phase |-> phase, intent |-> i, refusal |-> code]
Idle == Pass("idle", 0, "none")
Jobs == [phase : {"idle", "sending", "recorded", "paused"}, intent : Nat, refusal : Codes]

-----------------------------------------------------------------------------
(* What the readers of the file compute.                                   *)

Intents == DOMAIN outbox
Live(i) == outbox[i].seen \cap Terminal = {}

\* Mutant of IsHead: any waiting intent may be tried, not only the first.
AnyWaiting(i) == i \in Intents /\ Live(i)

\* The head of outstanding_projection_intents: the first live entry.
IsHead(i) == /\ i \in Intents
             /\ Live(i)
             /\ \A j \in Intents : j < i => ~Live(j)

Copies(p)    == {i \in Intents : outbox[i].proj = p}
Confirmed(p) == \E i \in Copies(p) : "CONFIRMED" \in outbox[i].seen

\* Mutants of Requeueable: a confirmed key, or one still waiting, is requeued too.
RequeueableIfConfirmed(t) == {p \in Projections : /\ TradeOf[p] = t
                                                  /\ Copies(p) # {}
                                                  /\ \A i \in Copies(p) : ~Live(i)}
RequeueableIfWaiting(t) == {p \in Projections : /\ TradeOf[p] = t
                                                /\ Copies(p) # {}
                                                /\ ~Confirmed(p)}

\* The rejected projections of trade t that a requeue puts back: no copy was
\* ever confirmed and none is still waiting.
Requeueable(t) == {p \in Projections : /\ TradeOf[p] = t
                                       /\ Copies(p) # {}
                                       /\ ~Confirmed(p)
                                       /\ \A i \in Copies(p) : ~Live(i)}

\* Mutant of ParkAfter: a row the receiver calls a conflict is retried for ever.
ParkNoConflicts(a, code) ==
  CASE code = "trade_id_not_found" /\ a \in CloseActions -> OrphanParkAfter
    [] code = "close_not_confirmed" /\ a = "correct_close_v2" -> UnconfirmedParkAfter
    [] OTHER -> 0

\* Consecutive answers `code` an intent of action a survives before parking;
\* 0 where the pair is never parked.
ParkAfter(a, code) ==
  CASE code = "trade_id_not_found" /\ a \in CloseActions -> OrphanParkAfter
    [] code = "trade_id_conflict" /\ a \in RowActions -> ConflictParkAfter
    [] code = "close_not_confirmed" /\ a = "correct_close_v2" -> UnconfirmedParkAfter
    [] OTHER -> 0

ParkedCode(code) ==
  CASE code = "trade_id_not_found" -> "orphan_close_no_open_row"
    [] code = "trade_id_conflict" -> "trade_id_conflict_parked"
    [] OTHER -> "correction_close_not_confirmed"

\* Parking turns a retryable answer into a terminal REJECTED once the run of
\* that answer, this one included, reaches its limit.
ConsecutiveAnswers(i, code) == IF outbox[i].code = code THEN outbox[i].run ELSE 0

Parks(i, status, code) ==
  LET limit == ParkAfter(ActionOf[outbox[i].proj], code)
  IN  /\ status = "TRANSPORT_FAILED"
      /\ limit > 0
      /\ ConsecutiveAnswers(i, code) + 1 >= limit

\* The entry after one more dispatch record.  Runs of answers that can never
\* park this entry are not counted: nothing reads them.
Recorded(i, status, code) ==
  [outbox[i] EXCEPT
     !.seen = @ \cup {status},
     !.code = code,
     !.run = IF ParkAfter(ActionOf[outbox[i].proj], code) = 0
             THEN 0 ELSE ConsecutiveAnswers(i, code) + 1]

NewEntry(p) == [proj |-> p, seen |-> {}, code |-> "none", run |-> 0]

\* Which refusals record_projection_park_event makes an R1 fleet event.
IsParkEvent(i, refusal) ==
  \/ refusal \in ParkedCodes
  \/ /\ refusal = "correction_base_mismatch"
     /\ ActionOf[outbox[i].proj] = "correct_close_v2"
     /\ AllBaseMismatchesLogged

-----------------------------------------------------------------------------
Init == /\ outbox = <<>>
        /\ lock = Nobody
        /\ job = [w \in Workers |-> Idle]
        /\ requeuing = {}
        /\ parkLog = <<>>

\* enqueue_projection_intent: under the lock, an existing intent of the same
\* projection, terminal or not, is returned instead of a second one.  The
\* strategy calls it in the order of its ledger (Earlier).
Enqueue(p) ==
  /\ lock = Nobody
  /\ \A q \in Earlier[p] : Copies(q) # {}
  /\ Copies(p) = {}
  /\ Len(outbox) < MaxIntents
  /\ outbox' = Append(outbox, NewEntry(p))
  /\ UNCHANGED <<lock, job, requeuing, parkLog>>

\* Mutant of BeginDispatch: the lock is left before the payload is submitted.
BeginDispatchUnlocked(w) ==
  /\ job[w].phase = "idle" /\ lock = Nobody
  /\ \E i \in Intents : /\ IsHead(i)
                        /\ job' = [job EXCEPT ![w] = Pass("sending", i, "none")]
  /\ UNCHANGED <<outbox, lock, requeuing, parkLog>>

\* A dispatcher takes the lock, picks the head and rebuilds its payload; the
\* lock is kept while the payload is submitted.
BeginDispatch(w) ==
  /\ job[w].phase = "idle" /\ lock = Nobody
  /\ \E i \in Intents : /\ IsHead(i)
                        /\ job' = [job EXCEPT ![w] = Pass("sending", i, "none")]
  /\ lock' = w
  /\ UNCHANGED <<outbox, requeuing, parkLog>>

\* LedgerUnreadableError: nothing is recorded and the caller is told to stop.
Pause(w) ==
  /\ job[w].phase = "idle" /\ lock = Nobody
  /\ \E i \in Intents : /\ IsHead(i)
                        /\ job' = [job EXCEPT ![w] = Pass("paused", i, "none")]
  /\ UNCHANGED <<outbox, lock, requeuing, parkLog>>

\* The ledger no longer yields this payload: a terminal rejection.
RejectRebuild(w) ==
  /\ job[w].phase = "idle" /\ lock = Nobody
  /\ \E i \in Intents :
       /\ IsHead(i)
       /\ outbox' = [outbox EXCEPT ![i] = Recorded(i, "REJECTED", "rehydration_invalid")]
       /\ job' = [job EXCEPT ![w] = Pass("recorded", i, "rehydration_invalid")]
  /\ UNCHANGED <<lock, requeuing, parkLog>>

\* `submit` returned: park if the answer has come often enough, append the
\* dispatch record, leave the lock.
RecordAnswer(w, status, code) ==
  /\ job[w].phase = "sending"
  /\ LET i == job[w].intent
         outcome == IF Parks(i, status, code) THEN "REJECTED" ELSE status
         reason  == IF Parks(i, status, code) THEN ParkedCode(code) ELSE code
     IN  /\ outbox' = [outbox EXCEPT ![i] = Recorded(i, outcome, reason)]
         /\ job' = [job EXCEPT ![w] =
              Pass("recorded", i, IF outcome = "REJECTED" THEN reason ELSE "none")]
  /\ lock' = Nobody
  /\ UNCHANGED <<requeuing, parkLog>>

Answer(w) == /\ job[w].phase = "sending"
             /\ \E ans \in Answers[ActionOf[outbox[job[w].intent].proj]] :
                  RecordAnswer(w, ans[1], ans[2])

\* Mutant of Report: the recorded dispatch is reported again in the next pass.
ReportAgain(w) ==
  /\ job[w].phase = "recorded"
  /\ IsParkEvent(job[w].intent, job[w].refusal)
  /\ Len(parkLog) < MaxIntents
  /\ parkLog' = Append(parkLog, <<job[w].intent, job[w].refusal>>)
  /\ UNCHANGED <<outbox, lock, job, requeuing>>

\* After the lock is left, the dispatch that was just recorded may become an
\* event; a failed append is swallowed.
Report(w) ==
  /\ job[w].phase = "recorded"
  /\ \/ /\ IsParkEvent(job[w].intent, job[w].refusal)
        /\ parkLog' = Append(parkLog, <<job[w].intent, job[w].refusal>>)
     \/ UNCHANGED parkLog
  /\ job' = [job EXCEPT ![w] = Idle]
  /\ UNCHANGED <<outbox, lock, requeuing>>

ReportPause(w) ==
  /\ job[w].phase = "paused"
  /\ job' = [job EXCEPT ![w] = Idle]
  /\ UNCHANGED <<outbox, lock, requeuing, parkLog>>

\* The dispatcher dies (during the submission, or after the record): the
\* kernel drops its lock, whatever the receiver did is not on disk here.
Crash(w) ==
  /\ job[w].phase \in {"sending", "recorded"}
  /\ lock' = IF lock = w THEN Nobody ELSE lock
  /\ job' = [job EXCEPT ![w] = Idle]
  /\ UNCHANGED <<outbox, requeuing, parkLog>>

\* requeue_rejected_projection_intents: the set is computed once under the
\* lock; each fresh copy is a separate durable append.
BeginRequeue(t) ==
  /\ lock = Nobody
  /\ Requeueable(t) # {}
  /\ requeuing' = Requeueable(t)
  /\ lock' = Operator
  /\ UNCHANGED <<outbox, job, parkLog>>

\* by_key keeps the keys in the order of their first copy in the file.
RequeueNext ==
  /\ lock = Operator
  /\ Len(outbox) < MaxIntents
  /\ \E i \in Intents :
       /\ outbox[i].proj \in requeuing
       /\ \A j \in Intents : outbox[j].proj \in requeuing => i <= j
       /\ outbox' = Append(outbox, NewEntry(outbox[i].proj))
       /\ requeuing' = requeuing \ {outbox[i].proj}
  /\ lock' = IF requeuing' = {} THEN Nobody ELSE Operator
  /\ UNCHANGED <<job, parkLog>>

\* The requeue tool dies, or the bound is reached: a prefix was appended.
RequeueCrash ==
  /\ lock = Operator
  /\ requeuing' = {}
  /\ lock' = Nobody
  /\ UNCHANGED <<outbox, job, parkLog>>

Dispatcher(w) == \/ BeginDispatch(w) \/ Pause(w) \/ RejectRebuild(w)
                 \/ Answer(w) \/ Report(w) \/ ReportPause(w) \/ Crash(w)

Next == \/ \E p \in Projections : Enqueue(p)
        \/ \E w \in Workers : Dispatcher(w)
        \/ \E t \in Trades : BeginRequeue(t)
        \/ RequeueNext
        \/ RequeueCrash

Spec == Init /\ [][Next]_vars

-----------------------------------------------------------------------------
(* Properties.                                                             *)

\* Every variable keeps its type; entries are only ever appended or amended.
TypeOK == /\ outbox \in Seq(Entry)
          /\ lock \in Workers \cup {Operator, Nobody}
          /\ job \in [Workers -> Jobs]
          /\ \A w \in Workers : job[w].phase # "idle" => job[w].intent \in Intents
          /\ requeuing \subseteq Projections
          /\ parkLog \in Seq(Nat \X Codes)

\* A projection the receiver confirmed is never delivered again: no other copy
\* of it is waiting in the queue or was confirmed too, whatever mixture of
\* enqueues, requeues, crashes and dispatchers produced the file.
ConfirmedIsFinal ==
  \A i, j \in Intents :
    (i # j /\ outbox[i].proj = outbox[j].proj /\ "CONFIRMED" \in outbox[i].seen)
      => ~Live(j) /\ "CONFIRMED" \notin outbox[j].seen

\* No intent is ever recorded both CONFIRMED and REJECTED: two dispatchers never
\* decide the same intent, and a late answer never contradicts an outcome.
OneOutcome == \A i \in Intents : ~(Terminal \subseteq outbox[i].seen)

\* At most one copy of a projection is waiting: neither a repeated enqueue nor a
\* requeue interrupted half-way and run again doubles it.
OneLiveCopy ==
  \A i, j \in Intents :
    (Live(i) /\ Live(j) /\ outbox[i].proj = outbox[j].proj) => i = j

\* Strict head of line: nothing behind a waiting intent has been attempted, so a
\* trade's rows reach the receiver in the order the ledger produced them.
HeadOfLine ==
  \A i, j \in Intents : (i < j /\ Live(i)) => outbox[j].seen = {}

QueueInOrder == OneLiveCopy /\ HeadOfLine

\* What an interrupted requeue has not appended yet is still waiting for the next
\* requeue: nothing in the remainder was delivered or queued meanwhile.
RequeueResumable ==
  \A p \in requeuing : /\ Copies(p) # {} /\ ~Confirmed(p)
                        /\ \A i \in Copies(p) : ~Live(i)

\* The fleet event log names each parked or refused intent at most once, and only
\* an intent that is really out of the queue with that code.
ParkLineOnce ==
  /\ \A k \in DOMAIN parkLog :
       LET i == parkLog[k][1]
       IN  /\ i \in Intents
           /\ "REJECTED" \in outbox[i].seen
           /\ outbox[i].code = parkLog[k][2]
  /\ \A k, l \in DOMAIN parkLog : parkLog[k][1] = parkLog[l][1] => k = l

\* The intent a dispatcher is submitting is the head of the queue for as long as
\* the submission lasts, though it was read before the network call.
SubmitsTheHead ==
  \A w \in Workers : job[w].phase = "sending" => IsHead(job[w].intent)

\* An outcome is for ever: no later record takes an intent back into the queue or
\* changes the code it was closed with.
OutcomeIsStable ==
  [][\A i \in Intents : ~Live(i) => outbox'[i] = outbox[i]]_vars

\* The queue sends a trade's close before its correction (projection_outbox.py
\* lines 42-43): no correction is being submitted while a close of its trade waits.
CloseSentBeforeCorrection ==
  \A w \in Workers :
    (/\ job[w].phase = "sending"
     /\ ActionOf[outbox[job[w].intent].proj] = "correct_close_v2")
      => ~\E j \in Intents :
            /\ Live(j)
            /\ ActionOf[outbox[j].proj] = "update_close_v2"
            /\ TradeOf[outbox[j].proj] = TradeOf[outbox[job[w].intent].proj]

\* The outbox keeps the contract of DeliveryContract: by what its copies say, each
\* projection is accepted, delivered once or refused, and put back only if refused.
Progress(p) == IF Copies(p) = {} THEN "unknown"
               ELSE IF \E i \in Copies(p) : Live(i) THEN "waiting"
               ELSE IF Confirmed(p) THEN "delivered" ELSE "refused"

Contract == INSTANCE DeliveryContract WITH status <- [p \in Projections |-> Progress(p)]
KeepsContract == Contract!Spec
=============================================================================
