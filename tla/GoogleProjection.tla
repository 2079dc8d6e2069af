--------------------------- MODULE GoogleProjection ---------------------------
(***************************************************************************)
(* The whole path of a ledger row to the Google sheet: the durable outbox  *)
(* (ProjectionOutbox), the delivery client a dispatcher calls while it     *)
(* holds the outbox lock (src/src/trade_alerts/google_ledger_client.py) and*)
(* the receiver (LedgerReceiver).                                          *)
(*                                                                         *)
(* The client sends one signed payload up to Attempts times, each time     *)
(* with a timeout; an execution whose client gave up runs on by itself.    *)
(* What the outbox calls `submit` is here the client, so every answer the  *)
(* outbox records is one the receiver gave, or the client's own.  What the  *)
(* comparison of ledger and sheet says on the way is SheetCompare's.       *)
(***************************************************************************)
EXTENDS ProjectionOutbox, SheetCompare

CONSTANTS Attempts,  \* sends per submission (3 in the code)
          MaxFaults  \* bound: lost calls, timeouts, kills, errors and crashes

ASSUME DeliveryAssumption == Attempts \in Nat \ {0} /\ MaxFaults \in Nat

\* What a correction names by its digest is in the ledger before it.
ASSUME CorrectionAssumption ==
  \A p \in Projections : BaseOf[p] \in Projections => BaseOf[p] \in Earlier[p]

VARIABLES
  call,    \* the client of the dispatcher that holds the lock
  faults   \* faults so far

allVars == <<vars, receiverVars, call, faults>>

\* A submission: sends left, and the execution it waits for.
Call == [left : 0 .. Attempts, exec : Execs \cup {Nothing}]
NoCall == [left |-> 0, exec |-> Nothing]

Fault == faults < MaxFaults /\ faults' = faults + 1
NoFault == UNCHANGED faults

\* _TERMINAL_RECEIVER_ERRORS: what the same payload can never get past.
TerminalErrors == {"projection_invalid", "correction_base_mismatch"}

\* Mutant of StatusOf: every error burns the intent.
EveryErrorRejects(answer) == IF answer = "ok" THEN "CONFIRMED" ELSE "REJECTED"

StatusOf(answer) == CASE answer = "ok" -> "CONFIRMED"
                      [] answer \in TerminalErrors -> "REJECTED"
                      [] OTHER -> "TRANSPORT_FAILED"
CodeOf(answer) == IF answer = "ok" THEN "none" ELSE answer

Retry(codes)  == {<<"TRANSPORT_FAILED", c>> : c \in codes}
Refuse(codes) == {<<"REJECTED", c>> : c \in codes}

\* The table of answers the outbox has to reckon with while executions do not
\* overlap: what each handler can reply (never duplicate_trade_id, a trade then has
\* one row), and what the client reports when there is no reply.
ReceiverAnswers ==
  [a \in Actions |->
     {<<"CONFIRMED", "none">>}
     \cup Retry({"malformed_request", "request_refused", "transport_failed"})
     \cup Refuse({"endpoint_not_configured", "projection_invalid"})
     \cup CASE a \in RowActions -> Retry({"trade_id_conflict"})
            [] a = "update_close_v2" -> Retry({"trade_id_not_found", "trade_close_conflict"})
            [] OTHER -> Retry({"trade_id_not_found", "close_not_confirmed"})
                        \cup Refuse({"correction_base_mismatch"})]

-----------------------------------------------------------------------------
GoogleInit == /\ Init /\ ReceiverInit
              /\ call = NoCall
              /\ faults = 0

\* The outbox acts alone.
OutboxAlone ==
  /\ \/ \E p \in Projections : Enqueue(p)
     \/ \E w \in Workers : \/ Pause(w) \/ RejectRebuild(w)
                           \/ Report(w) \/ ReportPause(w)
     \/ \E t \in Trades : BeginRequeue(t)
     \/ RequeueNext \/ RequeueCrash
  /\ UNCHANGED <<receiverVars, call, faults>>

\* dispatch_next_projection reaches `submit`: deliver_projection_v2 begins.
Start(w) == /\ BeginDispatch(w)
            /\ call' = [left |-> Attempts, exec |-> Nothing]
            /\ UNCHANGED <<receiverVars, faults>>

\* No endpoint in the settings: nothing is sent and the submission is REJECTED.
NoEndpoint(w) == /\ job[w].phase = "sending" /\ call.left = Attempts
                 /\ call.exec = Nothing
                 /\ RecordAnswer(w, "REJECTED", "endpoint_not_configured")
                 /\ call' = NoCall /\ Fault
                 /\ UNCHANGED receiverVars

Waiting(w) == job[w].phase = "sending" /\ call.exec = Nothing

\* One POST; the platform starts an execution for it.
Send(w) ==
  /\ Waiting(w) /\ call.left > 0
  /\ \E e \in Execs : /\ Arrive(e, outbox[job[w].intent].proj)
                      /\ call' = [left |-> call.left - 1, exec |-> e]
  /\ NoFault /\ UNCHANGED vars

\* A POST that never reached the receiver.
SendLost(w) == /\ Waiting(w) /\ call.left > 0
               /\ call' = [call EXCEPT !.left = @ - 1]
               /\ Fault /\ UNCHANGED <<vars, receiverVars>>

\* The client stops waiting, for a slow execution or for a lost answer.
TimeOut(w) == /\ job[w].phase = "sending" /\ call.exec # Nothing
              /\ call' = [call EXCEPT !.exec = Nothing]
              /\ Fault /\ UNCHANGED <<vars, receiverVars>>

\* An answer of any kind ends the submission, and the outbox records it.
Result(w) ==
  /\ job[w].phase = "sending" /\ call.exec # Nothing
  /\ LET answer == exec[call.exec].answer
     IN  /\ Finish(call.exec)
         /\ RecordAnswer(w, StatusOf(answer), CodeOf(answer))
  /\ call' = NoCall /\ NoFault

\* Every attempt failed without an answer.
GiveUp(w) == /\ Waiting(w) /\ call.left = 0
             /\ RecordAnswer(w, "TRANSPORT_FAILED", "transport_failed")
             /\ call' = NoCall /\ NoFault
             /\ UNCHANGED receiverVars

\* The dispatcher dies; a request it has sent is served nevertheless.
WorkerCrash(w) == /\ Crash(w)
                  /\ call' = IF job[w].phase = "sending" THEN NoCall ELSE call
                  /\ Fault /\ UNCHANGED receiverVars

\* The receiver's executions, with the errors it does not choose counted.
Execution(e) == /\ \/ Invalidate(e) \/ Look(e) \/ Decide(e)
                   \/ WriteFirst(e) \/ WriteRest(e) \/ Confirm(e)
                   \/ Finish(e) /\ call.exec # e
                /\ UNCHANGED <<vars, call, faults>>

BadAnswer(e) == (TurnAway(e) \/ Throw(e)) /\ Fault /\ UNCHANGED <<vars, call>>

KillExecution(e) == /\ Kill(e)
                    /\ call' = IF call.exec = e THEN [call EXCEPT !.exec = Nothing] ELSE call
                    /\ Fault /\ UNCHANGED vars

Delivery(w) == \/ Start(w) \/ NoEndpoint(w) \/ Send(w) \/ SendLost(w) \/ TimeOut(w)
               \/ Result(w) \/ GiveUp(w) \/ WorkerCrash(w)

GoogleNext == \/ OutboxAlone
              \/ \E w \in Workers : Delivery(w)
              \/ \E e \in Execs : Execution(e) \/ BadAnswer(e) \/ KillExecution(e)

GoogleSpec == GoogleInit /\ [][GoogleNext]_allVars

\* The projection worker keeps running passes and finishes them; executions end.
GoogleFairness ==
  /\ \A w \in Workers : /\ SF_allVars(Start(w))
                        /\ WF_allVars(Send(w) \/ SendLost(w) \/ Result(w) \/ GiveUp(w))
                        /\ WF_allVars((Report(w) \/ ReportPause(w)) /\ OutboxAlone)
  /\ \A e \in Execs : WF_allVars(Execution(e))
  /\ WF_allVars((RequeueNext \/ RequeueCrash) /\ OutboxAlone)

GoogleFairSpec == GoogleSpec /\ GoogleFairness

-----------------------------------------------------------------------------
(* Properties.                                                             *)

\* The delivery path implements the outbox: whatever the client and the receiver
\* do, the outbox only ever sees answers its own specification allows.
ImplementsOutbox == Spec

\* An entry recorded CONFIRMED is the one row of its trade, shown in full.
ConfirmedIsShown ==
  \A i \in Intents :
    ("CONFIRMED" \in outbox[i].seen /\ ActionOf[outbox[i].proj] \in RowActions) =>
      \E n \in DOMAIN rows :
        /\ rows[n].open = outbox[i].proj
        /\ RowsOf(TradeOf[outbox[i].proj]) = {n}

\* A close or correction is answered trade_id_not_found only while the outbox has
\* no confirmed entry of its trade: the order of the queue reaches the sheet.
OrphanOnlyWithoutEntry ==
  [][\A i \in Intents :
       (/\ outbox'[i] # outbox[i]
        /\ outbox'[i].code \in {"trade_id_not_found", "orphan_close_no_open_row"})
         => \A j \in Intents :
              (/\ TradeOf[outbox[j].proj] = TradeOf[outbox[i].proj]
               /\ ActionOf[outbox[j].proj] \in RowActions)
                => "CONFIRMED" \notin outbox[j].seen]_allVars

\* The ledger as far as it was put in the queue, each fact once.
Projected == LET firsts == {i \in Intents : \A j \in Copies(outbox[i].proj) : i <= j}
             IN  [i \in firsts |-> outbox[i].proj]

\* No false alarm: while every fact put in the queue has been delivered, whatever
\* was resent, refused and put back before, the sheet agrees with the ledger.
DivergedIsUndelivered ==
  (\A k \in DOMAIN Projected : Confirmed(Projected[k])) => "DIVERGED" \notin SheetVerdicts(Projected)

\* Whatever faults there were, once they stop every intent gets an outcome.
QueueSettles == \A i \in 1 .. MaxIntents : (i \in Intents) ~> (i \in Intents /\ ~Live(i))
=============================================================================
