------------------------ MODULE GoogleProjectionProofs ------------------------
(***************************************************************************)
(* Proofs about GoogleProjection.  The outbox and the receiver keep the    *)
(* invariants proved for each of them, because every step of the whole path*)
(* is a step of one, of the other, or of both; what the two say about each *)
(* other then follows from what the client carries between them.           *)
(***************************************************************************)
EXTENDS GoogleProjection, ProjectionOutboxProofs, LedgerReceiverProofs

\* The outbox reckons with every answer the receiver and the client can give.
AnswersCover == \A a \in Actions : ReceiverAnswers[a] \subseteq Answers[a]

\* An answer is one of the table, and true of the sheet for as long as it waits to be
\* read: a confirmed projection has its line, a trade that was not found has no row.
AnswerInv(e) ==
  LET x == exec[e]
  IN  x.pc = "answered" =>
        /\ x.answer \in {"ok"} \cup Errors
        /\ <<StatusOf(x.answer), CodeOf(x.answer)>> \in ReceiverAnswers[ActionOf[x.proj]]
        /\ x.answer = "ok" => x.proj \in Audited
        /\ x.answer = "trade_id_not_found" => RowsOf(TradeOf[x.proj]) = {}

\* The execution a client waits for serves the intent its dispatcher submits.
CallInv ==
  /\ call \in Call
  /\ call.exec # Nothing => /\ call.exec \in Execs
                            /\ lock \in Workers
                            /\ exec[call.exec].pc # "idle"
                            /\ exec[call.exec].proj = outbox[job[lock].intent].proj

\* What the outbox calls CONFIRMED has a CONFIRMED line in the audit sheet.
ConfirmInv == \A i \in Intents : "CONFIRMED" \in outbox[i].seen => outbox[i].proj \in Audited

PathInv == /\ IInv /\ ReceiverInv /\ AuditInv
           /\ \A e \in Execs : AnswerInv(e)
           /\ CallInv /\ ConfirmInv

-----------------------------------------------------------------------------
(* The answers of the receiver.                                            *)

\* What a decision not to write says, for the rows as they are.
LEMMA AnswerDecision ==
  ASSUME ReceiverInv, NEW p \in Projections, NEW d, d = Decision(p, RowsOf(TradeOf[p])),
         d # "write"
  PROVE  /\ d \in {"ok"} \cup Errors
         /\ <<StatusOf(d), CodeOf(d)>> \in ReceiverAnswers[ActionOf[p]]
         /\ d = "ok" => p \in Audited
         /\ d = "trade_id_not_found" => RowsOf(TradeOf[p]) = {}
<1> DEFINE found == RowsOf(TradeOf[p])
<1>1. ActionOf[p] \in Actions /\ TradeOf[p] \in Trades
  BY LedgerAssumption
<1>2. ~ \E m, n \in found : m # n
  BY <1>1, ReceiverAssumption DEF ReceiverInv, OneRowPerTrade, RowsOf
<1> HIDE DEF found
<1>3. CASE ActionOf[p] \in RowActions
  <2>1. d \in {"ok", "trade_id_conflict"}
    BY <1>2, <1>3 DEF Decision, DecideRow, found
  <2>2. d = "ok" => \E k \in DOMAIN audit : audit[k] = p
    BY <1>3 DEF Decision, DecideRow, OnlyLine, AuditOf
  <2>3. <<StatusOf(d), CodeOf(d)>> \in ReceiverAnswers[ActionOf[p]]
    BY <1>1, <1>3, <2>1 DEF StatusOf, CodeOf, TerminalErrors, ReceiverAnswers, Retry, RowActions
  <2> QED
    BY <2>1, <2>2, <2>3 DEF Errors, Audited
<1>4. CASE ActionOf[p] = "update_close_v2"
  <2>1. d \in {"ok", "trade_id_not_found", "trade_close_conflict"}
    BY <1>2, <1>4 DEF Decision, DecideClose, RowActions, found
  <2>2. /\ d = "trade_id_not_found" => found = {}
        /\ d = "ok" => \E k \in DOMAIN audit : audit[k] = p
    BY <1>2, <1>4 DEF Decision, DecideClose, OnlyLine, AuditOf, RowActions, found
  <2>3. <<StatusOf(d), CodeOf(d)>> \in ReceiverAnswers[ActionOf[p]]
    BY <1>1, <1>4, <2>1 DEF StatusOf, CodeOf, TerminalErrors, ReceiverAnswers, Retry, RowActions
  <2> QED
    BY <2>1, <2>2, <2>3 DEF Errors, Audited, found
<1>5. CASE ActionOf[p] = "correct_close_v2"
  <2>1. d \in {"ok", "trade_id_not_found", "close_not_confirmed", "correction_base_mismatch"}
    BY <1>2, <1>5 DEF Decision, DecideCorrection, RowActions, found
  <2>2. /\ d = "trade_id_not_found" => found = {}
        /\ d = "ok" => \E k \in DOMAIN audit : audit[k] = p
    BY <1>2, <1>5 DEF Decision, DecideCorrection, AuditOf, RowActions, found
  <2>3. <<StatusOf(d), CodeOf(d)>> \in ReceiverAnswers[ActionOf[p]]
    BY <1>1, <1>5, <2>1
    DEF StatusOf, CodeOf, TerminalErrors, ReceiverAnswers, Retry, Refuse, RowActions
  <2> QED
    BY <2>1, <2>2, <2>3 DEF Errors, Audited, found
<1> QED
  BY <1>1, <1>3, <1>4, <1>5 DEF Actions, CloseActions

\* The answers that do not depend on the sheet.
LEMMA AnswerAnyway ==
  ASSUME NEW a \in Actions, NEW x \in {"malformed_request", "request_refused", "projection_invalid"}
  PROVE  /\ x \in Errors
         /\ <<StatusOf(x), CodeOf(x)>> \in ReceiverAnswers[a]
         /\ x # "ok" /\ x # "trade_id_not_found"
BY DEF StatusOf, CodeOf, TerminalErrors, ReceiverAnswers, Retry, Refuse, Errors

\* A step of one execution keeps the answers true, and takes no audit line back.
LEMMA AnswerStep ==
  ASSUME Serial, ReceiverInv, AuditInv, \A e \in Execs : AnswerInv(e), NEW e \in Execs,
         \/ \E p \in Projections : Arrive(e, p)
         \/ Serve(e) \/ Throw(e) \/ Kill(e) \/ Finish(e)
  PROVE  /\ \A f \in Execs : AnswerInv(f)'
         /\ Audited \subseteq Audited'
<1> USE DEF ReceiverInv, ReceiverTypeOK
<1>1. exec[e] \in Exec /\ exec \in [Execs -> Exec]
  OBVIOUS
<1>2. ASSUME exec'[e].pc # "answered" PROVE \A f \in Execs : AnswerInv(f)'
  BY <1>2 DEF Serial, AnswerInv
<1>3. CASE Confirm(e)
  <2>1. exec[e].proj \in Projections /\ audit' = Append(audit, exec[e].proj)
    BY <1>3, ExecTypes DEF Confirm
  <2>2. Audited' = Audited \cup {exec[e].proj}
    BY <2>1, AuditGrows
  <2>3. exec'[e].answer = "ok" /\ exec'[e].proj = exec[e].proj
    BY <1>1, <1>3 DEF Confirm, Exec
  <2>4. ActionOf[exec[e].proj] \in Actions
    BY <2>1, LedgerAssumption
  <2>5. <<StatusOf("ok"), CodeOf("ok")>> \in ReceiverAnswers[ActionOf[exec[e].proj]]
    <3>1. StatusOf("ok") = "CONFIRMED" /\ CodeOf("ok") = "none"
      BY DEF StatusOf, CodeOf, TerminalErrors
    <3> QED
      BY <2>4, <3>1 DEF ReceiverAnswers
  <2>6. AnswerInv(e)'
    BY <2>2, <2>3, <2>5 DEF AnswerInv
  <2> QED
    BY <2>2, <2>6 DEF Serial
<1>4. ASSUME ~Confirm(e) PROVE Audited' = Audited
  <2>1. audit' = audit
    BY <1>4 DEF Arrive, Serve, TurnAway, Invalidate, Look, Decide, WriteFirst, WriteRest, Throw,
                Kill, Finish
  <2> QED
    BY <2>1, AuditStays
<1>5. CASE \E p \in Projections : Arrive(e, p)
  <2>1. exec'[e].pc = "arrived"
    BY <1>1, <1>5 DEF Arrive, IdleExec
  <2> QED
    BY <1>2, <1>3, <1>4, <2>1
<1>6. CASE Kill(e) \/ Finish(e) \/ Look(e) \/ WriteFirst(e) \/ WriteRest(e)
  <2>1. exec'[e].pc \in {"idle", "looked", "torn", "written"}
    <3>1. CASE Kill(e) \/ Finish(e)
      BY <1>1, <3>1, IdleFacts DEF Kill, Finish
    <3>2. CASE Look(e)
      BY <1>1, <3>2 DEF Look, Exec
    <3>3. CASE WriteFirst(e) \/ WriteRest(e)
      BY <1>1, <3>3 DEF WriteFirst, WriteRest, Exec
    <3> QED
      BY <1>6, <3>1, <3>2, <3>3
  <2> QED
    BY <1>2, <1>3, <1>4, <2>1
<1>7. CASE TurnAway(e) \/ Invalidate(e) \/ Throw(e)
  <2>1. PICK x \in {"malformed_request", "request_refused", "projection_invalid"} :
             exec' = [exec EXCEPT ![e].pc = "answered", ![e].answer = x]
    BY <1>7 DEF TurnAway, Invalidate, Throw
  <2>2. exec'[e].answer = x /\ exec'[e].proj = exec[e].proj
    BY <1>1, <2>1 DEF Exec
  <2>3. exec[e].proj \in Projections
    BY <1>7, ExecTypes DEF TurnAway, Invalidate, Throw, Running
  <2>4. ActionOf[exec[e].proj] \in Actions
    BY <2>3, LedgerAssumption
  <2>5. AnswerInv(e)'
    BY <2>2, <2>4, AnswerAnyway DEF AnswerInv
  <2> QED
    BY <1>3, <1>4, <2>5 DEF Serial
<1>8. CASE Decide(e)
  <2> DEFINE p == exec[e].proj
             d == Decision(p, exec[e].found)
  <2>1. exec[e].pc = "looked" /\ p \in Projections /\ exec[e].found = RowsOf(TradeOf[p])
    BY <1>8, ExecTypes DEF Decide, ExecInv
  <2>2. CASE d = "write"
    <3>1. exec'[e].pc = "writing"
      BY <1>1, <1>8, <2>2 DEF Decide, Exec, Errors
    <3> QED
      BY <1>2, <1>3, <1>4, <3>1
  <2>3. CASE d # "write"
    <3>1. /\ exec' = [exec EXCEPT ![e].pc = "answered", ![e].answer = d]
          /\ UNCHANGED <<rows, audit>>
      BY <1>8, <2>3 DEF Decide
    <3>2. exec'[e].answer = d /\ exec'[e].proj = p
      BY <1>1, <3>1 DEF Exec
    <3>3. d = Decision(p, RowsOf(TradeOf[p]))
      BY <2>1
    <3> HIDE DEF d
    <3>4. /\ d \in {"ok"} \cup Errors
          /\ <<StatusOf(d), CodeOf(d)>> \in ReceiverAnswers[ActionOf[p]]
          /\ d = "ok" => p \in Audited
          /\ d = "trade_id_not_found" => RowsOf(TradeOf[p]) = {}
      BY <2>1, <2>3, <3>3, AnswerDecision
    <3>5. AnswerInv(e)'
      BY <3>1, <3>2, <3>4, AuditStays DEF AnswerInv, RowsOf
    <3> QED
      BY <1>3, <1>4, <3>5 DEF Serial
  <2> QED
    BY <2>2, <2>3
<1> QED
  BY <1>3, <1>5, <1>6, <1>7, <1>8 DEF Serve

-----------------------------------------------------------------------------
(* Every step of the path is a step of its parts.                          *)

\* The dispatcher that submits is the one that holds the lock.
LEMMA SenderHoldsLock ==
  ASSUME IInv, NEW w \in Workers, job[w].phase = "sending"
  PROVE  lock = w
BY DEF IInv, LockInv

\* A step of the path as the outbox sees it.
LEMMA OutboxSteps ==
  ASSUME AnswersCover, PathInv, GoogleNext
  PROVE  [Next]_vars
<1>1. CASE OutboxAlone
  BY <1>1 DEF OutboxAlone, Next, Dispatcher
<1>2. CASE \E e \in Execs : Execution(e) \/ BadAnswer(e) \/ KillExecution(e)
  BY <1>2 DEF Execution, BadAnswer, KillExecution
<1>3. ASSUME NEW w \in Workers, Delivery(w) PROVE [Next]_vars
  <2>1. CASE Start(w) \/ WorkerCrash(w)
    BY <2>1 DEF Start, WorkerCrash, Next, Dispatcher
  <2>2. CASE Send(w) \/ SendLost(w) \/ TimeOut(w)
    BY <2>2 DEF Send, SendLost, TimeOut
  <2> DEFINE a == ActionOf[outbox[job[w].intent].proj]
  <2>3. ASSUME job[w].phase = "sending"
        PROVE  a \in Actions /\ Answers[a] \subseteq Statuses \X Codes
    <3>1. outbox[job[w].intent] \in Entry
      BY <2>3, ElementOfSeq DEF PathInv, IInv, TypeOK, Intents
    <3> QED
      BY <3>1, LedgerAssumption, OutboxAssumption DEF Entry
  <2>4. ASSUME job[w].phase = "sending", NEW s, NEW c, RecordAnswer(w, s, c),
               <<s, c>> \in ReceiverAnswers[a]
        PROVE  [Next]_vars
    <3>1. <<s, c>> \in Answers[a]
      BY <2>3, <2>4 DEF AnswersCover
    <3>2. \E ans \in Answers[a] : RecordAnswer(w, ans[1], ans[2])
      BY <2>4, <3>1
    <3> QED
      BY <2>4, <3>2 DEF Answer, Dispatcher, Next
  <2>5. CASE NoEndpoint(w)
    <3>1. <<"REJECTED", "endpoint_not_configured">> \in ReceiverAnswers[a]
      BY <2>3, <2>5 DEF NoEndpoint, ReceiverAnswers, Refuse
    <3> QED
      BY <2>4, <2>5, <3>1 DEF NoEndpoint
  <2>6. CASE GiveUp(w)
    <3>1. <<"TRANSPORT_FAILED", "transport_failed">> \in ReceiverAnswers[a]
      BY <2>3, <2>6 DEF GiveUp, Waiting, ReceiverAnswers, Retry
    <3> QED
      BY <2>4, <2>6, <3>1 DEF GiveUp, Waiting
  <2>7. CASE Result(w)
    <3> DEFINE e == call.exec
               x == exec[e].answer
    <3>1. /\ job[w].phase = "sending" /\ e # Nothing /\ exec[e].pc = "answered"
          /\ RecordAnswer(w, StatusOf(x), CodeOf(x))
      BY <2>7 DEF Result, Finish
    <3>2. e \in Execs /\ exec[e].proj = outbox[job[w].intent].proj
      BY <3>1, SenderHoldsLock DEF PathInv, CallInv
    <3>3. <<StatusOf(x), CodeOf(x)>> \in ReceiverAnswers[a]
      BY <3>1, <3>2 DEF PathInv, AnswerInv
    <3> QED
      BY <2>4, <3>1, <3>3
  <2> QED
    BY <1>3, <2>1, <2>2, <2>5, <2>6, <2>7 DEF Delivery
<1> QED
  BY <1>1, <1>2, <1>3 DEF GoogleNext

\* A step of the path as the receiver sees it.
LEMMA ReceiverSteps ==
  ASSUME PathInv, GoogleNext
  PROVE  \/ UNCHANGED receiverVars
         \/ \E e \in Execs : \/ \E p \in Projections : Arrive(e, p)
                             \/ Serve(e) \/ Throw(e) \/ Kill(e) \/ Finish(e)
<1>1. CASE OutboxAlone
  BY <1>1 DEF OutboxAlone
<1>2. CASE \E e \in Execs : Execution(e) \/ BadAnswer(e) \/ KillExecution(e)
  BY <1>2 DEF Execution, BadAnswer, KillExecution, Serve
<1>3. ASSUME NEW w \in Workers, Delivery(w)
      PROVE  \/ UNCHANGED receiverVars
             \/ \E e \in Execs : \/ \E p \in Projections : Arrive(e, p)
                                 \/ Serve(e) \/ Throw(e) \/ Kill(e) \/ Finish(e)
  <2>1. CASE Start(w) \/ NoEndpoint(w) \/ SendLost(w) \/ TimeOut(w) \/ GiveUp(w) \/ WorkerCrash(w)
    BY <2>1 DEF Start, NoEndpoint, SendLost, TimeOut, GiveUp, WorkerCrash
  <2>2. CASE Send(w)
    <3>1. outbox[job[w].intent] \in Entry
      BY <2>2, ElementOfSeq DEF Send, Waiting, PathInv, IInv, TypeOK, Intents
    <3>2. outbox[job[w].intent].proj \in Projections
      BY <3>1 DEF Entry
    <3> QED
      BY <2>2, <3>2 DEF Send
  <2>3. CASE Result(w)
    <3>1. call.exec \in Execs
      BY <2>3 DEF Result, PathInv, CallInv
    <3> QED
      BY <2>3, <3>1 DEF Result
  <2> QED
    BY <1>3, <2>1, <2>2, <2>3 DEF Delivery
<1> QED
  BY <1>1, <1>2, <1>3 DEF GoogleNext

-----------------------------------------------------------------------------
(* What the client carries.                                                *)

LEMMA CallTypes ==
  ASSUME call \in Call
  PROVE  /\ NoCall \in Call /\ NoCall.exec = Nothing
         /\ [call EXCEPT !.exec = Nothing] \in Call
         /\ [call EXCEPT !.exec = Nothing].exec = Nothing
         /\ [left |-> Attempts, exec |-> Nothing] \in Call
         /\ [left |-> Attempts, exec |-> Nothing].exec = Nothing
         /\ call.left > 0 => [call EXCEPT !.left = @ - 1] \in Call
         /\ [call EXCEPT !.left = @ - 1].exec = call.exec
         /\ \A e \in Execs : call.left > 0 => [left |-> call.left - 1, exec |-> e] \in Call
BY DeliveryAssumption DEF Call, NoCall

\* A step that keeps the lock, the pass that holds it and the client keeps what the
\* client carries.
LEMMA CallKept ==
  ASSUME PathInv, call' = call, outbox' = outbox \/ lock \notin Workers,
         lock \in Workers => lock' = lock /\ job'[lock] = job[lock],
         call.exec # Nothing => /\ exec'[call.exec].pc # "idle"
                                /\ exec'[call.exec].proj = exec[call.exec].proj
  PROVE  CallInv'
BY DEF PathInv, CallInv

LEMMA CallStep ==
  ASSUME PathInv, GoogleNext
  PROVE  CallInv'
<1> USE DEF PathInv
<1>1. call \in Call /\ exec \in [Execs -> Exec] /\ job \in [Workers -> Jobs]
  BY DEF CallInv, ReceiverInv, ReceiverTypeOK, IInv, TypeOK
<1>2. ASSUME call' \in Call, call'.exec = Nothing PROVE CallInv'
  BY <1>2 DEF CallInv
<1>3. \A v \in Workers : job[v].phase = "sending" <=> lock = v
  BY DEF IInv, LockInv
<1>4. call.exec # Nothing => /\ call.exec \in Execs /\ lock \in Workers
                            /\ exec[call.exec].pc # "idle"
  BY DEF CallInv
<1>5. CASE OutboxAlone
  <2>1. call' = call /\ exec' = exec
    BY <1>5 DEF OutboxAlone, receiverVars
  <2>2. CASE \E v \in Workers : Report(v) \/ ReportPause(v)
    <3>1. PICK v \in Workers : Report(v) \/ ReportPause(v)
      BY <2>2
    <3>2. v # lock /\ lock' = lock /\ outbox' = outbox /\ job' = [job EXCEPT ![v] = Idle]
      BY <1>3, <3>1 DEF Report, ReportPause
    <3> QED
      BY <1>1, <1>4, <2>1, <3>2, CallKept
  <2>3. CASE ~ \E v \in Workers : Report(v) \/ ReportPause(v)
    <3>1. lock \notin Workers
      BY <1>5, <2>3, OutboxAssumption
      DEF OutboxAlone, Enqueue, Pause, RejectRebuild, BeginRequeue, RequeueNext, RequeueCrash
    <3> QED
      BY <1>4, <2>1, <3>1, CallKept
  <2> QED
    BY <2>2, <2>3
<1>6. ASSUME NEW w \in Workers, Delivery(w) PROVE CallInv'
  <2>1. CASE Start(w) \/ NoEndpoint(w) \/ TimeOut(w) \/ Result(w) \/ GiveUp(w)
    <3>1. call' \in {NoCall, [left |-> Attempts, exec |-> Nothing], [call EXCEPT !.exec = Nothing]}
      BY <2>1 DEF Start, NoEndpoint, TimeOut, Result, GiveUp
    <3> QED
      BY <1>1, <1>2, <3>1, CallTypes
  <2>2. CASE SendLost(w)
    <3>1. call' = [call EXCEPT !.left = @ - 1] /\ call.left > 0 /\ call.exec = Nothing
      BY <2>2 DEF SendLost, Waiting
    <3> QED
      BY <1>1, <1>2, <3>1, CallTypes
  <2>3. CASE Send(w)
    <3>1. /\ job[w].phase = "sending" /\ call.left > 0
          /\ UNCHANGED <<outbox, lock, job>>
      BY <2>3 DEF Send, Waiting, vars
    <3>2. PICK e \in Execs : /\ Arrive(e, outbox[job[w].intent].proj)
                             /\ call' = [left |-> call.left - 1, exec |-> e]
      BY <2>3 DEF Send
    <3>3. exec'[e].pc = "arrived" /\ exec'[e].proj = outbox[job[w].intent].proj
      BY <1>1, <3>2 DEF Arrive, IdleExec
    <3>4. call' \in Call /\ call'.exec = e
      BY <1>1, <3>1, <3>2, CallTypes
    <3>5. lock = w
      BY <1>3, <3>1
    <3> QED
      BY <3>1, <3>3, <3>4, <3>5 DEF CallInv
  <2>4. CASE WorkerCrash(w)
    <3>1. CASE job[w].phase = "sending"
      BY <1>1, <1>2, <2>4, <3>1, CallTypes DEF WorkerCrash
    <3>2. CASE job[w].phase # "sending"
      <4>1. /\ call' = call /\ outbox' = outbox /\ exec' = exec
            /\ lock' = IF lock = w THEN Nobody ELSE lock
            /\ job' = [job EXCEPT ![w] = Idle]
        BY <2>4, <3>2 DEF WorkerCrash, Crash, receiverVars
      <4>2. lock # w
        BY <1>3, <3>2
      <4> QED
        BY <1>1, <1>4, <4>1, <4>2, CallKept
    <3> QED
      BY <3>1, <3>2
  <2> QED
    BY <1>6, <2>1, <2>2, <2>3, <2>4 DEF Delivery
<1>7. ASSUME NEW e \in Execs, Execution(e) \/ BadAnswer(e) \/ KillExecution(e) PROVE CallInv'
  <2>1. UNCHANGED <<outbox, lock, job>>
    BY <1>7 DEF Execution, BadAnswer, KillExecution, vars
  <2>2. CASE KillExecution(e) /\ call.exec = e
    BY <1>1, <1>2, <2>2, CallTypes DEF KillExecution
  <2>3. CASE (KillExecution(e) \/ (Execution(e) /\ Finish(e))) /\ call.exec # e
    <3>1. call' = call /\ exec' = [exec EXCEPT ![e] = IdleExec]
      BY <2>3 DEF KillExecution, Execution, Kill, Finish
    <3> QED
      BY <1>1, <1>4, <2>1, <2>3, <3>1, CallKept
  <2>4. CASE \/ BadAnswer(e)
             \/ /\ Execution(e)
                /\ \/ Invalidate(e) \/ Look(e) \/ Decide(e)
                   \/ WriteFirst(e) \/ WriteRest(e) \/ Confirm(e)
    <3>1. call' = call
      BY <2>4 DEF BadAnswer, Execution
    <3>2. /\ exec'[e].pc # "idle" /\ exec'[e].proj = exec[e].proj
          /\ \A f \in Execs : f # e => exec'[f] = exec[f]
      <4>1. CASE BadAnswer(e) \/ Invalidate(e) \/ Look(e) \/ Confirm(e)
        BY <1>1, <4>1 DEF BadAnswer, TurnAway, Throw, Invalidate, Look, Confirm, Exec
      <4>2. CASE WriteFirst(e) \/ WriteRest(e)
        BY <1>1, <4>2 DEF WriteFirst, WriteRest, Exec
      <4>3. CASE Decide(e)
        BY <1>1, <4>3 DEF Decide, Exec
      <4> QED
        BY <2>4, <4>1, <4>2, <4>3
    <3> QED
      BY <1>4, <2>1, <3>1, <3>2, CallKept
  <2> QED
    BY <1>7, <2>2, <2>3, <2>4 DEF Execution
<1> QED
  BY <1>5, <1>6, <1>7 DEF GoogleNext

-----------------------------------------------------------------------------
(* What reaches the file.                                                  *)

OrphanCodes == {"trade_id_not_found", "orphan_close_no_open_row"}

\* A record that no answer of the receiver is behind.
RecordAlone == \E i \in Intents, s \in Statuses, c \in Codes :
                 AmendHead(i, s, c) /\ s # "CONFIRMED" /\ c \notin OrphanCodes

\* The record of an answer that execution e gave for the same projection.
RecordOf(e) == \E i \in Intents, s \in Statuses, c \in Codes :
                 /\ AmendHead(i, s, c)
                 /\ exec[e].pc = "answered" /\ exec[e].proj = outbox[i].proj
                 /\ s = "CONFIRMED" => exec[e].answer = "ok"
                 /\ c \in OrphanCodes => exec[e].answer = "trade_id_not_found"

\* Parking neither confirms anything nor makes an orphan of another answer.
LEMMA WhatParkingRecords ==
  ASSUME IInv, NEW w \in Workers, NEW s \in Statuses, NEW c \in Codes, c \notin ParkedCodes,
         RecordAnswer(w, s, c)
  PROVE  \E t \in Statuses, d \in Codes :
           /\ AmendHead(job[w].intent, t, d) /\ job[w].intent \in Intents
           /\ t = "CONFIRMED" => s = "CONFIRMED"
           /\ d \in OrphanCodes => c = "trade_id_not_found"
<1> DEFINE i == job[w].intent
           t == IF Parks(i, s, c) THEN "REJECTED" ELSE s
           d == IF Parks(i, s, c) THEN ParkedCode(c) ELSE c
<1>1. IsHead(i) /\ i \in Intents
  BY DEF RecordAnswer, IInv, SubmitsTheHead, IsHead
<1>2. outbox' = [outbox EXCEPT ![i] = Recorded(i, t, d)]
  BY DEF RecordAnswer
<1>3. t \in Statuses /\ d \in Codes
  BY DEF Statuses, Codes, ParkedCodes, ParkedCode
<1>4. t = "CONFIRMED" => s = "CONFIRMED"
  OBVIOUS
<1>5. d \in OrphanCodes => c = "trade_id_not_found"
  BY DEF OrphanCodes, ParkedCodes, ParkedCode
<1> HIDE DEF i, t, d
<1>6. AmendHead(i, t, d)
  BY <1>1, <1>2 DEF AmendHead
<1> QED
  BY <1>1, <1>3, <1>4, <1>5, <1>6 DEF i

LEMMA WhatIsRecorded ==
  ASSUME AnswersCover, PathInv, GoogleNext
  PROVE  \/ outbox' = outbox
         \/ \E p \in Projections : AppendCopy(p)
         \/ RecordAlone
         \/ \E e \in Execs : RecordOf(e)
<1> USE DEF PathInv
<1>1. CASE OutboxAlone
  <2>1. CASE \E p \in Projections : Enqueue(p)
    BY <2>1, EnqueueAppends
  <2>2. CASE RequeueNext
    BY <2>2, RequeueAppends DEF IInv, TypeOK
  <2>3. CASE \E w \in Workers : RejectRebuild(w)
    <3>1. PICK i \in Intents : AmendHead(i, "REJECTED", "rehydration_invalid")
      BY <2>3, RejectAmends
    <3>2. "REJECTED" \in Statuses /\ "rehydration_invalid" \in Codes \ OrphanCodes
      BY DEF Statuses, Codes, OrphanCodes
    <3> QED
      BY <3>1, <3>2 DEF RecordAlone
  <2> QED
    BY <1>1, <2>1, <2>2, <2>3 DEF OutboxAlone, Pause, Report, ReportPause, BeginRequeue, RequeueCrash
<1>2. CASE \E e \in Execs : Execution(e) \/ BadAnswer(e) \/ KillExecution(e)
  BY <1>2 DEF Execution, BadAnswer, KillExecution, vars
<1>3. CASE \E w \in Workers : Delivery(w)
  <2>1. PICK w \in Workers : Delivery(w)
    BY <1>3
  <2>2. CASE Start(w) \/ WorkerCrash(w) \/ Send(w) \/ SendLost(w) \/ TimeOut(w)
    BY <2>2 DEF Start, BeginDispatch, WorkerCrash, Crash, Send, SendLost, TimeOut, vars
  <2>3. CASE NoEndpoint(w) \/ GiveUp(w)
    <3>1. PICK s \in {"REJECTED", "TRANSPORT_FAILED"},
               c \in {"endpoint_not_configured", "transport_failed"} : RecordAnswer(w, s, c)
      BY <2>3 DEF NoEndpoint, GiveUp
    <3>2. /\ s \in Statuses /\ s # "CONFIRMED"
          /\ c \in Codes /\ c \notin ParkedCodes /\ c # "trade_id_not_found"
      BY DEF Statuses, Codes, ParkedCodes
    <3> QED
      BY <3>1, <3>2, WhatParkingRecords DEF RecordAlone
  <2>4. CASE Result(w)
    <3> DEFINE e == call.exec
               x == exec[e].answer
               i == job[w].intent
    <3>1. /\ job[w].phase = "sending" /\ e # Nothing /\ exec[e].pc = "answered"
          /\ RecordAnswer(w, StatusOf(x), CodeOf(x))
      BY <2>4 DEF Result, Finish
    <3>2. e \in Execs /\ exec[e].proj = outbox[i].proj /\ x \in {"ok"} \cup Errors
      BY <3>1, SenderHoldsLock DEF CallInv, AnswerInv
    <3> HIDE DEF x
    <3>3. /\ StatusOf(x) \in Statuses
          /\ StatusOf(x) = "CONFIRMED" => x = "ok"
          /\ CodeOf(x) = "trade_id_not_found" => x = "trade_id_not_found"
      BY DEF StatusOf, CodeOf, TerminalErrors, Statuses
    <3>4. CodeOf(x) \in Codes /\ CodeOf(x) \notin ParkedCodes
      BY <3>2 DEF CodeOf, Errors, Codes, ParkedCodes
    <3>5. PICK s \in Statuses, c \in Codes : s = StatusOf(x) /\ c = CodeOf(x)
      BY <3>3, <3>4
    <3>6. RecordAnswer(w, s, c)
      BY <3>1, <3>5 DEF RecordAnswer
    <3>7. PICK t \in Statuses, d \in Codes :
             /\ AmendHead(i, t, d) /\ i \in Intents
             /\ t = "CONFIRMED" => s = "CONFIRMED"
             /\ d \in OrphanCodes => c = "trade_id_not_found"
      BY <3>4, <3>5, <3>6, WhatParkingRecords
    <3>8. RecordOf(e)
      BY <3>1, <3>2, <3>3, <3>5, <3>7 DEF RecordOf, x
    <3> QED
      BY <3>2, <3>8
  <2> QED
    BY <2>1, <2>2, <2>3, <2>4 DEF Delivery
<1> QED
  BY <1>1, <1>2, <1>3 DEF GoogleNext

LEMMA ConfirmStep ==
  ASSUME AnswersCover, PathInv, GoogleNext, Audited \subseteq Audited'
  PROVE  ConfirmInv'
<1> USE DEF PathInv
<1>1. CASE outbox' = outbox
  BY <1>1 DEF ConfirmInv, Intents
<1>2. CASE \E p \in Projections : AppendCopy(p)
  <2>1. PICK p \in Projections : AppendCopy(p)
    BY <1>2
  <2>2. /\ Len(outbox) \in Nat /\ Intents = 1 .. Len(outbox) /\ Intents' = 1 .. Len(outbox) + 1
        /\ \A j \in Intents : outbox'[j] = outbox[j]
        /\ outbox'[Len(outbox) + 1] = NewEntry(p)
    BY <2>1, AppendShape DEF IInv
  <2>3. \A j \in Intents' : j \in Intents \/ outbox'[j].seen = {}
    BY <2>2 DEF NewEntry
  <2> QED
    BY <2>2, <2>3 DEF ConfirmInv
<1>3. ASSUME NEW i \in Intents, NEW s \in Statuses, NEW c \in Codes, AmendHead(i, s, c),
             s = "CONFIRMED" => outbox[i].proj \in Audited
      PROVE  ConfirmInv'
  BY <1>3, AmendShape DEF IInv, ConfirmInv
<1>4. CASE RecordAlone
  BY <1>3, <1>4 DEF RecordAlone
<1>5. ASSUME NEW e \in Execs, RecordOf(e) PROVE ConfirmInv'
  <2>1. exec[e].answer = "ok" /\ exec[e].pc = "answered" => exec[e].proj \in Audited
    BY DEF AnswerInv
  <2> QED
    BY <1>3, <1>5, <2>1 DEF RecordOf
<1> QED
  BY <1>1, <1>2, <1>4, <1>5, WhatIsRecorded

-----------------------------------------------------------------------------
(* The invariant of the path, and what follows from it.                    *)

LEMMA PathInit == GoogleInit => PathInv
<1> SUFFICES ASSUME GoogleInit PROVE PathInv
  OBVIOUS
<1>1. Init /\ ReceiverInit /\ call = NoCall
  BY DEF GoogleInit
<1>2. IInv /\ ReceiverInv /\ AuditInv
  BY <1>1, InitInv, InitHolds, AuditInit
<1>3. \A e \in Execs : AnswerInv(e)
  BY <1>1, IdleFacts DEF ReceiverInit, AnswerInv
<1>4. CallInv
  BY <1>1, DeliveryAssumption DEF CallInv, NoCall, Call
<1>5. ConfirmInv
  BY <1>1 DEF Init, ConfirmInv, Intents
<1> QED
  BY <1>2, <1>3, <1>4, <1>5 DEF PathInv

LEMMA PathStep ==
  ASSUME Serial, AnswersCover, PathInv, [GoogleNext]_allVars
  PROVE  PathInv' /\ [Next]_vars /\ [ReceiverNext]_receiverVars
<1> USE DEF PathInv
<1>1. CASE GoogleNext
  <2>1. [Next]_vars
    BY <1>1, OutboxSteps
  <2>2. \/ UNCHANGED receiverVars
        \/ \E e \in Execs : \/ \E p \in Projections : Arrive(e, p)
                            \/ Serve(e) \/ Throw(e) \/ Kill(e) \/ Finish(e)
    BY <1>1, ReceiverSteps
  <2>3. [ReceiverNext]_receiverVars
    BY <2>2 DEF ReceiverNext
  <2>4. IInv' /\ ReceiverInv' /\ AuditInv'
    BY <2>1, <2>3, StepKeepsIInv, StepKeeps, AuditStep
  <2>5. (\A e \in Execs : AnswerInv(e)') /\ Audited \subseteq Audited'
    <3>1. CASE UNCHANGED receiverVars
      <4>1. exec' = exec /\ rows' = rows /\ audit' = audit
        BY <3>1 DEF receiverVars
      <4> QED
        BY <4>1, AuditStays DEF AnswerInv, RowsOf
    <3>2. CASE \E e \in Execs : \/ \E p \in Projections : Arrive(e, p)
                               \/ Serve(e) \/ Throw(e) \/ Kill(e) \/ Finish(e)
      BY <3>2, AnswerStep
    <3> QED
      BY <2>2, <3>1, <3>2
  <2>6. CallInv' /\ ConfirmInv'
    BY <1>1, <2>5, CallStep, ConfirmStep
  <2> QED
    BY <2>1, <2>3, <2>4, <2>5, <2>6
<1>2. CASE UNCHANGED allVars
  <2>1. UNCHANGED vars /\ UNCHANGED receiverVars /\ call' = call
    BY <1>2 DEF allVars
  <2>2. IInv' /\ ReceiverInv' /\ AuditInv'
    BY <2>1, StepKeepsIInv, StepKeeps, AuditStep
  <2>3. /\ exec' = exec /\ rows' = rows /\ audit' = audit
        /\ outbox' = outbox /\ lock' = lock /\ job' = job
    BY <2>1 DEF receiverVars, vars
  <2>4. (\A e \in Execs : AnswerInv(e)') /\ CallInv' /\ ConfirmInv'
    BY <2>1, <2>3, AuditStays DEF AnswerInv, RowsOf, CallInv, ConfirmInv, Intents
  <2> QED
    BY <2>1, <2>2, <2>4
<1> QED
  BY <1>1, <1>2

\* While executions do not overlap, outbox, client and receiver agree about every
\* submission, whatever is lost, killed, repeated or answered late.
THEOREM PathInvariant == ASSUME Serial, AnswersCover PROVE GoogleSpec => []PathInv
<1>1. GoogleInit => PathInv
  BY PathInit
<1>2. PathInv /\ [GoogleNext]_allVars => PathInv'
  BY PathStep
<1> QED
  BY <1>1, <1>2, PTL DEF GoogleSpec

\* While executions do not overlap, the delivery path implements the outbox: what the
\* outbox promises for any answers holds for those the receiver gives.
THEOREM PathImplementsOutbox == ASSUME Serial, AnswersCover PROVE GoogleSpec => ImplementsOutbox
<1>1. GoogleInit => Init
  BY DEF GoogleInit
<1>2. PathInv /\ [GoogleNext]_allVars => [Next]_vars
  BY PathStep
<1> QED
  BY <1>1, <1>2, PathInvariant, PTL DEF GoogleSpec, ImplementsOutbox, Spec

\* While executions do not overlap, the path asks nothing of the receiver that the
\* receiver's own specification does not allow, so that what is proved of it holds here.
THEOREM PathImplementsReceiver == ASSUME Serial, AnswersCover PROVE GoogleSpec => ReceiverSpec
<1>1. GoogleInit => ReceiverInit
  BY DEF GoogleInit
<1>2. PathInv /\ [GoogleNext]_allVars => [ReceiverNext]_receiverVars
  BY PathStep
<1> QED
  BY <1>1, <1>2, PathInvariant, PTL DEF GoogleSpec, ReceiverSpec

\* While executions do not overlap, an entry the outbox calls CONFIRMED is the one row of
\* its trade, in full.  The code does not see to that: the receiver takes no lock and the
\* client asks again after a timeout, see receiver_overlap.cfg.
THEOREM ConfirmedEntryIsShown ==
  ASSUME Serial, AnswersCover PROVE GoogleSpec => []ConfirmedIsShown
<1>1. ASSUME PathInv PROVE ConfirmedIsShown
  <2> SUFFICES ASSUME NEW i \in Intents, "CONFIRMED" \in outbox[i].seen,
                      ActionOf[outbox[i].proj] \in RowActions
               PROVE  \E n \in DOMAIN rows : /\ rows[n].open = outbox[i].proj
                                             /\ RowsOf(TradeOf[outbox[i].proj]) = {n}
    BY DEF ConfirmedIsShown
  <2> DEFINE p == outbox[i].proj
  <2>1. PICK k \in DOMAIN audit : audit[k] = p
    BY <1>1 DEF PathInv, ConfirmInv, Audited
  <2>2. p \in Projections
    BY <1>1, <2>1, ElementOfSeq, LenProperties DEF PathInv, ReceiverInv, ReceiverTypeOK
  <2>3. PICK n \in RowsOf(TradeOf[p]) : rows[n].open = p
    BY <1>1, <2>1 DEF PathInv, ReceiverInv, AuditedRowIsShown
  <2>4. TradeOf[p] # Nothing
    BY <2>2, LedgerAssumption, ReceiverAssumption
  <2>5. RowsOf(TradeOf[p]) = {n}
    BY <1>1, <2>3, <2>4 DEF PathInv, ReceiverInv, OneRowPerTrade, RowsOf
  <2> QED
    BY <2>3, <2>5 DEF RowsOf
<1>2. PathInv => ConfirmedIsShown
  BY <1>1
<1> QED
  BY <1>2, PathInvariant, PTL

\* While executions do not overlap, a close or a correction is refused for a missing row
\* only as long as the outbox has no confirmed entry of its trade.
THEOREM OrphansAreReal ==
  ASSUME Serial, AnswersCover PROVE GoogleSpec => OrphanOnlyWithoutEntry
<1> DEFINE NoEntry ==
      \A i \in Intents :
        (/\ outbox'[i] # outbox[i]
         /\ outbox'[i].code \in {"trade_id_not_found", "orphan_close_no_open_row"})
          => \A j \in Intents :
               (/\ TradeOf[outbox[j].proj] = TradeOf[outbox[i].proj]
                /\ ActionOf[outbox[j].proj] \in RowActions)
                 => "CONFIRMED" \notin outbox[j].seen
<1>1. ASSUME PathInv, GoogleNext PROVE NoEntry
  <2> USE <1>1 DEF PathInv
  <2> SUFFICES ASSUME NEW i \in Intents, outbox'[i] # outbox[i], outbox'[i].code \in OrphanCodes,
                      NEW j \in Intents, TradeOf[outbox[j].proj] = TradeOf[outbox[i].proj],
                      ActionOf[outbox[j].proj] \in RowActions, "CONFIRMED" \in outbox[j].seen
               PROVE  FALSE
    BY DEF OrphanCodes
  <2>1. ~ \E p \in Projections : AppendCopy(p)
    BY AppendShape DEF IInv
  <2>2. ~ RecordAlone
    BY AmendShape DEF RecordAlone, IInv
  <2>3. PICK e \in Execs : RecordOf(e)
    BY <2>1, <2>2, WhatIsRecorded
  <2>4. /\ exec[e].pc = "answered" /\ exec[e].proj = outbox[i].proj
        /\ exec[e].answer = "trade_id_not_found"
    BY <2>3, AmendShape DEF RecordOf, IInv
  <2>5. RowsOf(TradeOf[outbox[i].proj]) = {}
    BY <2>4 DEF AnswerInv
  <2>6. PICK k \in DOMAIN audit : audit[k] = outbox[j].proj
    BY DEF ConfirmInv, Audited
  <2>7. RowsOf(TradeOf[outbox[j].proj]) # {}
    BY <2>6 DEF ReceiverInv, AuditedRowIsShown
  <2> QED
    BY <2>5, <2>7
<1>2. PathInv /\ [GoogleNext]_allVars => [NoEntry]_allVars
  BY <1>1
<1> QED
  BY <1>2, PathInvariant, PTL DEF GoogleSpec, OrphanOnlyWithoutEntry

-----------------------------------------------------------------------------
(* The order of the queue.                                                 *)

\* The facts put in the queue, and p put there before any copy of q.
Queued       == {outbox[i].proj : i \in Intents}
Before(p, q) == \E i \in Copies(p) : \A j \in Copies(q) : i < j

\* A fact is queued behind those that its strategy enqueues first.
EarlierInv == \A p \in Queued : \A q \in Earlier[p] : Before(q, p)

\* A step of the outbox puts at most one entry behind the others: a copy, or a fact
\* whose predecessors are there.
LEMMA QueueGrows ==
  ASSUME IInv, [Next]_vars
  PROVE  /\ Intents \subseteq Intents' /\ \A i \in Intents : outbox'[i].proj = outbox[i].proj
         /\ \A i \in Intents' \ Intents :
              /\ \A j \in Intents : j < i
              /\ Intents' = Intents \cup {i}
              /\ outbox'[i].proj \in Queued \/ Earlier[outbox'[i].proj] \subseteq Queued
<1> DEFINE Grows ==
      /\ Intents \subseteq Intents' /\ \A i \in Intents : outbox'[i].proj = outbox[i].proj
      /\ \A i \in Intents' \ Intents :
           /\ \A j \in Intents : j < i
           /\ Intents' = Intents \cup {i}
           /\ outbox'[i].proj \in Queued \/ Earlier[outbox'[i].proj] \subseteq Queued
<1> SUFFICES Grows
  OBVIOUS
<1>1. ASSUME NEW p \in Projections, AppendCopy(p), p \in Queued \/ Earlier[p] \subseteq Queued
      PROVE  Grows
  <2>1. /\ Len(outbox) \in Nat /\ Intents = 1 .. Len(outbox)
        /\ Intents' = 1 .. Len(outbox) + 1
        /\ \A j \in Intents : outbox'[j] = outbox[j]
        /\ outbox'[Len(outbox) + 1] = NewEntry(p)
    BY <1>1, AppendShape DEF IInv
  <2>2. NewEntry(p).proj = p
    BY DEF NewEntry
  <2>3. /\ Intents' = Intents \cup {Len(outbox) + 1}
        /\ \A j \in Intents : j < Len(outbox) + 1
    BY <2>1
  <2> QED
    BY <1>1, <2>1, <2>2, <2>3
<1>2. ASSUME NEW i, NEW s \in Statuses, NEW c \in Codes, AmendHead(i, s, c) PROVE Grows
  BY <1>2, AmendShape DEF IInv
<1>3. CASE outbox' = outbox
  BY <1>3 DEF Intents
<1> HIDE DEF Grows
<1>4. CASE \E p \in Projections : Enqueue(p)
  <2>1. PICK p \in Projections : Enqueue(p)
    BY <1>4
  <2>2. Earlier[p] \subseteq Queued
    BY <2>1, OutboxAssumption DEF Enqueue, Copies, Queued
  <2> QED
    BY <1>1, <2>1, <2>2, EnqueueAppends
<1>5. CASE RequeueNext
  <2>1. PICK i \in Intents : outbox[i].proj \in requeuing /\ outbox' = Append(outbox, NewEntry(outbox[i].proj))
    BY <1>5 DEF RequeueNext
  <2>2. AppendCopy(outbox[i].proj) /\ outbox[i].proj \in Projections
    BY <2>1 DEF IInv, RequeueResumable, TypeOK, AppendCopy
  <2>3. outbox[i].proj \in Queued
    BY DEF Queued
  <2> QED
    BY <1>1, <2>2, <2>3
<1>6. ASSUME NEW w \in Workers, RejectRebuild(w) PROVE Grows
  <2>1. "REJECTED" \in Statuses /\ "rehydration_invalid" \in Codes
    BY DEF Statuses, Codes
  <2> QED
    BY <1>2, <1>6, <2>1, RejectAmends
<1>7. ASSUME NEW w \in Workers, Answer(w) PROVE Grows
  BY <1>2, <1>7, AnswerAmends
<1>8. CASE UNCHANGED vars
  BY <1>3, <1>8 DEF vars
<1>9. ASSUME NEW w \in Workers,
             BeginDispatch(w) \/ Pause(w) \/ Report(w) \/ ReportPause(w) \/ Crash(w)
      PROVE  Grows
  <2>1. outbox' = outbox
    BY <1>9 DEF BeginDispatch, Pause, Report, ReportPause, Crash
  <2> QED
    BY <1>3, <2>1
<1>10. CASE (\E t \in Trades : BeginRequeue(t)) \/ RequeueCrash
  BY <1>3, <1>10 DEF BeginRequeue, RequeueCrash
<1> QED
  BY <1>4, <1>5, <1>6, <1>7, <1>8, <1>9, <1>10 DEF Next, Dispatcher, Grows

\* So the order in which facts were first queued stays what it is.
LEMMA OrderStays ==
  ASSUME IInv, [Next]_vars
  PROVE  /\ Queued \subseteq Queued'
         /\ \A p, q : Before(p, q) => Before(p, q)'
         /\ EarlierInv => EarlierInv'
<1>1. Queued \subseteq Queued'
  BY QueueGrows DEF Queued
<1>2. ASSUME NEW p, NEW q, Before(p, q) PROVE Before(p, q)'
  <2>1. PICK i \in Copies(p) : \A j \in Copies(q) : i < j
    BY <1>2 DEF Before
  <2>2. i \in Copies(p)'
    BY QueueGrows DEF Copies
  <2>3. \A j \in Copies(q)' : j \in Copies(q) \/ j \in Intents' \ Intents
    BY QueueGrows DEF Copies
  <2>4. i \in Intents
    BY DEF Copies
  <2>5. \A j \in Copies(q)' : i < j
    BY <2>1, <2>3, <2>4, QueueGrows
  <2> QED
    BY <2>2, <2>5 DEF Before
<1>3. ASSUME EarlierInv PROVE EarlierInv'
  <2> SUFFICES ASSUME NEW p \in Queued', NEW q \in Earlier[p] PROVE Before(q, p)'
    BY DEF EarlierInv
  <2>1. CASE p \in Queued
    BY <1>2, <1>3, <2>1 DEF EarlierInv
  <2>2. CASE p \notin Queued
    <3>1. PICK i \in Intents' : outbox'[i].proj = p
      BY DEF Queued
    <3>2. i \notin Intents
      BY <2>2, <3>1, QueueGrows DEF Queued
    <3>3. /\ \A j \in Intents : j < i /\ outbox'[j].proj # p
          /\ Intents' = Intents \cup {i} /\ q \in Queued
      BY <2>2, <3>1, <3>2, QueueGrows DEF Queued
    <3>4. PICK j \in Intents : outbox[j].proj = q
      BY <3>3 DEF Queued
    <3>5. j \in Copies(q)' /\ \A k \in Copies(p)' : k = i
      BY <3>3, <3>4, QueueGrows DEF Copies
    <3> QED
      BY <3>3, <3>5 DEF Before
  <2> QED
    BY <2>1, <2>2
<1> QED
  BY <1>1, <1>2, <1>3

LEMMA BeforeTransitive ==
  ASSUME IInv, NEW p, NEW q, NEW r, Before(p, q), Before(q, r)
  PROVE  Before(p, r)
<1>1. PICK i \in Copies(p) : \A j \in Copies(q) : i < j
  BY DEF Before
<1>2. PICK j \in Copies(q) : \A k \in Copies(r) : j < k
  BY DEF Before
<1>3. \A k \in Intents : k \in Nat
  BY LenProperties DEF IInv, TypeOK, Intents
<1>4. \A k \in Copies(r) : i < k
  BY <1>1, <1>2, <1>3 DEF Copies
<1> QED
  BY <1>4 DEF Before

-----------------------------------------------------------------------------
(* What the sheet shows of the facts that were queued.                     *)

\* Whatever the receiver works on, or has confirmed, was queued.
ServedInv == /\ \A e \in Execs : exec[e].pc # "idle" => exec[e].proj \in Queued
             /\ Audited \subseteq Queued

\* A row stands for an entry that was queued.
OriginInv ==
  \A n \in DOMAIN rows :
    rows[n].trade # Nothing =>
      \E p \in Queued : TradeOf[p] = rows[n].trade /\ ActionOf[p] \in RowActions

\* The exit columns show the version in force while no exit of the trade is undelivered.
ExitInv ==
  \A n \in DOMAIN rows, t \in Trades :
    rows[n].trade = t =>
      \/ rows[n].close = InForce(t)
      \/ \E p \in Queued \ Audited : TradeOf[p] = t /\ ActionOf[p] \in CloseActions

\* The version in force was queued behind every other confirmed exit of its trade.
LatestInv ==
  \A q \in Audited :
    ActionOf[q] \in CloseActions =>
      q = InForce(TradeOf[q]) \/ Before(q, InForce(TradeOf[q]))

CompareInv == EarlierInv /\ ServedInv /\ OriginInv /\ ExitInv /\ LatestInv

\* What writing cells does to the row of an execution: an entry begins or completes a
\* row without an exit, an exit goes into the row of its trade.
LEMMA CellsWritten ==
  ASSUME Serial, ReceiverInv, AuditInv, NEW e \in Execs, WriteFirst(e) \/ WriteRest(e)
  PROVE  \E n :
           /\ DOMAIN rows' = DOMAIN rows \cup {n}
           /\ \A m \in DOMAIN rows : m # n => rows'[m] = rows[m]
           /\ exec[e].proj \in Projections \ Audited
           /\ exec[e].pc # "idle" /\ audit' = audit
           /\ \/ /\ ActionOf[exec[e].proj] \in RowActions
                 /\ rows'[n].close = Nothing
                 /\ rows'[n].trade \in {TradeOf[exec[e].proj], Nothing}
              \/ /\ ActionOf[exec[e].proj] \in CloseActions
                 /\ n \in DOMAIN rows
                 /\ rows[n].trade = TradeOf[exec[e].proj]
                 /\ rows'[n].trade = TradeOf[exec[e].proj]
<1> DEFINE p == exec[e].proj
           n == exec[e].row
           r == IF WriteFirst(e) THEN FirstCells(CellsAt(n), p) ELSE AllCells(CellsAt(n), p)
<1>1. /\ p \in Projections /\ exec[e].pc \in {"writing", "torn"} /\ ExecInv(e) /\ WriteInv(e)
      /\ exec[e] \in Exec /\ rows' = WithRow(n, r) /\ audit' = audit
  BY ExecTypes DEF WriteFirst, WriteRest, AuditInv
<1>2. Len(rows) \in Nat /\ DOMAIN rows = 1 .. Len(rows)
  BY LenProperties DEF ReceiverInv, ReceiverTypeOK
<1>3. ActionOf[p] \in Actions
  BY <1>1, LedgerAssumption
<1>4. CASE ActionOf[p] \in RowActions
  <2>1. n \in 1 .. Len(rows) + 1 /\ n \in Nat
    BY <1>1, <1>2, <1>4 DEF ExecInv
  <2>2. r \in Row
    BY <1>1, <2>1, CellTypes DEF ReceiverInv
  <2>3. CellsAt(n).close = Nothing /\ CellsAt(n).trade \in {TradeOf[p], Nothing} /\ CellsAt(n) \in Row
    <3>1. CASE exec[e].pc = "writing"
      BY <1>1, <1>2, <1>4, <3>1, <2>1, CellTypes DEF ExecInv, CellsAt, EmptyRow, ReceiverInv
    <3>2. CASE exec[e].pc = "torn"
      BY <1>1, <1>2, <1>4, <3>2, <2>1, CellTypes DEF ExecInv, WriteInv, CellsAt, ReceiverInv
    <3> QED
      BY <1>1, <3>1, <3>2
  <2>4. r.close = Nothing /\ r.trade \in {TradeOf[p], Nothing}
    <3>1. CASE WriteFirst(e) /\ ActionOf[p] = "append_open_v2"
      BY <2>3, <3>1 DEF FirstCells, Row
    <3>2. CASE WriteFirst(e) /\ ActionOf[p] = "append_fill_v2"
      BY <2>3, <3>2 DEF FirstCells, Row
    <3>3. CASE ~WriteFirst(e)
      BY <1>4, <2>3, <3>3 DEF AllCells, Row
    <3> QED
      BY <1>4, <3>1, <3>2, <3>3 DEF RowActions
  <2> HIDE DEF r, n
  <2>5. /\ DOMAIN rows' = DOMAIN rows \cup {n} /\ rows'[n] = r
        /\ \A m \in DOMAIN rows : m # n => rows'[m] = rows[m]
    BY <1>1, <2>1, <2>2, WriteShape
  <2> QED
    BY <1>1, <1>4, <2>4, <2>5 DEF WriteInv
<1>5. CASE ActionOf[p] \notin RowActions
  <2>1. n \in DOMAIN rows /\ rows[n].trade = TradeOf[p] /\ p \notin Audited
    BY <1>1, <1>5 DEF ExecInv, WriteInv
  <2>2. n \in 1 .. Len(rows) + 1 /\ n \in Nat /\ CellsAt(n) = rows[n] /\ rows[n] \in Row
    BY <1>2, <2>1, ElementOfSeq DEF CellsAt, ReceiverInv, ReceiverTypeOK
  <2>3. r \in Row
    BY <1>1, <2>2, CellTypes DEF ReceiverInv
  <2>4. r.trade = TradeOf[p]
    BY <1>5, <2>1, <2>2 DEF FirstCells, AllCells, RowActions, Row
  <2> HIDE DEF r, n
  <2>5. /\ DOMAIN rows' = DOMAIN rows \cup {n} /\ rows'[n] = r
        /\ \A m \in DOMAIN rows : m # n => rows'[m] = rows[m]
    BY <1>1, <2>2, <2>3, WriteShape
  <2> QED
    BY <1>1, <1>3, <1>5, <2>1, <2>4, <2>5 DEF Actions
<1> QED
  BY <1>4, <1>5

\* Cells that are written before their audit line keep what the sheet shows in order.
LEMMA WritingKeepsCompare ==
  ASSUME Serial, ReceiverInv, AuditInv, ReceiverInv', AuditInv', OriginInv, ExitInv,
         Queued \subseteq Queued', NEW e \in Execs, exec[e].pc # "idle" => exec[e].proj \in Queued,
         WriteFirst(e) \/ WriteRest(e)
  PROVE  OriginInv' /\ ExitInv'
<1> DEFINE p == exec[e].proj
<1>1. PICK n :
        /\ DOMAIN rows' = DOMAIN rows \cup {n}
        /\ \A m \in DOMAIN rows : m # n => rows'[m] = rows[m]
        /\ p \in Projections \ Audited
        /\ exec[e].pc # "idle" /\ audit' = audit
        /\ \/ /\ ActionOf[p] \in RowActions
              /\ rows'[n].close = Nothing
              /\ rows'[n].trade \in {TradeOf[p], Nothing}
           \/ /\ ActionOf[p] \in CloseActions
              /\ n \in DOMAIN rows
              /\ rows[n].trade = TradeOf[p]
              /\ rows'[n].trade = TradeOf[p]
  BY CellsWritten
<1>2. p \in Queued' \ Audited /\ Audited' = Audited /\ \A t : InForce(t)' = InForce(t)
  BY <1>1, AuditStays
<1>3. TradeOf[p] # Nothing
  BY <1>1, LedgerAssumption, ReceiverAssumption
<1>4. ASSUME NEW t \in Trades, n \in DOMAIN rows', rows'[n].trade = t, rows'[n].close = Nothing
      PROVE  InForce(t) = Nothing
  <2>1. \A q \in Audited : ActionOf[q] \in CloseActions => TradeOf[q] # t
    <3> SUFFICES ASSUME NEW q \in Audited, ActionOf[q] \in CloseActions, TradeOf[q] = t
                 PROVE  FALSE
      OBVIOUS
    <3>1. PICK m \in DOMAIN rows' : rows'[m].trade = t /\ rows'[m].close # Nothing
      BY <1>2 DEF AuditInv, ExitIsReached, RowsOf
    <3> QED
      BY <1>4, <3>1, ReceiverAssumption DEF ReceiverInv, OneRowPerTrade
  <2>2. AuditOf(t, "update_close_v2") = {} /\ AuditOf(t, "correct_close_v2") = {}
    BY <2>1 DEF AuditOf, Audited, CloseActions
  <2> QED
    BY <2>2 DEF InForce, InForceAfter
<1> HIDE DEF p
<1>5. OriginInv'
  <2> SUFFICES ASSUME NEW m \in DOMAIN rows', rows'[m].trade # Nothing
               PROVE  \E q \in Queued' : TradeOf[q] = rows'[m].trade /\ ActionOf[q] \in RowActions
    BY DEF OriginInv
  <2>1. CASE m = n /\ ActionOf[p] \in RowActions
    BY <1>1, <1>2, <2>1 DEF RowActions, CloseActions
  <2>2. CASE m # n \/ ActionOf[p] \notin RowActions
    <3>1. m \in DOMAIN rows /\ rows'[m].trade = rows[m].trade
      BY <1>1, <2>2
    <3> QED
      BY <3>1 DEF OriginInv
  <2> QED
    BY <2>1, <2>2
<1>6. ExitInv'
  <2> SUFFICES ASSUME NEW m \in DOMAIN rows', NEW t \in Trades, rows'[m].trade = t
               PROVE  \/ rows'[m].close = InForce(t)
                      \/ \E q \in Queued' \ Audited : TradeOf[q] = t /\ ActionOf[q] \in CloseActions
    BY <1>2 DEF ExitInv
  <2>1. CASE m = n /\ ActionOf[p] \in RowActions
    BY <1>1, <1>4, <2>1 DEF RowActions, CloseActions
  <2>2. CASE m = n /\ ActionOf[p] \notin RowActions
    BY <1>1, <1>2, <2>2
  <2>3. CASE m # n
    <3>1. m \in DOMAIN rows /\ rows'[m] = rows[m]
      BY <1>1, <2>3
    <3> QED
      BY <3>1 DEF ExitInv
  <2> QED
    BY <2>1, <2>2, <2>3
<1> QED
  BY <1>5, <1>6

\* A confirmed exit is the one in force, and queued behind the one it replaces.
LEMMA ConfirmKeepsCompare ==
  ASSUME Serial, IInv, ReceiverInv, AuditInv, CompareInv, Queued \subseteq Queued',
         \A p, q : Before(p, q) => Before(p, q)', NEW e \in Execs, Confirm(e)
  PROVE  Audited' \subseteq Queued' /\ OriginInv' /\ ExitInv' /\ LatestInv'
<1>1. exec[e].pc = "written" /\ exec[e].proj \in Projections
  BY ExecTypes DEF Confirm
<1>2. PICK p \in Projections : p = exec[e].proj
  BY <1>1
<1>3. PICK t \in Trades : t = TradeOf[p] /\ ActionOf[p] \in Actions
  BY LedgerAssumption
<1> DEFINE n == exec[e].row
<1>4. /\ ExecInv(e) /\ WriteInv(e) /\ audit \in Seq(Projections)
      /\ rows' = rows /\ audit' = Append(audit, p)
  BY <1>2 DEF Confirm, AuditInv, ReceiverInv, ReceiverTypeOK
<1>5. /\ n \in DOMAIN rows /\ p \notin Audited
      /\ ActionOf[p] \notin RowActions => rows[n].trade = t /\ rows[n].close = p
      /\ ActionOf[p] = "update_close_v2" => AuditOf(t, "update_close_v2") = {}
      /\ ActionOf[p] = "correct_close_v2" => BaseOf[p] = InForce(t) /\ InForce(t) # Nothing
  BY <1>1, <1>2, <1>3, <1>4 DEF ExecInv, WriteInv
<1> HIDE DEF n
<1>6. Audited' = Audited \cup {p} /\ p \in Queued
  BY <1>1, <1>2, <1>4, AuditGrows DEF CompareInv, ServedInv
<1>7. /\ \A u : (t # u \/ ActionOf[p] \notin CloseActions) => InForce(u)' = InForce(u)
      /\ ActionOf[p] \in CloseActions => InForce(t)' = p
  BY <1>3, <1>4, <1>5, ForceGrows DEF CloseActions, AuditInv, ForceInv
<1>8. ActionOf[p] \in RowActions => ActionOf[p] \notin CloseActions
  BY DEF RowActions, CloseActions
<1>9. Audited' \subseteq Queued'
  BY <1>6 DEF CompareInv, ServedInv
<1>10. OriginInv'
  BY <1>4 DEF CompareInv, OriginInv
<1>11. ExitInv'
  <2> SUFFICES ASSUME NEW m \in DOMAIN rows, NEW u \in Trades, rows[m].trade = u
               PROVE  \/ rows[m].close = InForce(u)'
                      \/ \E q \in Queued' \ Audited' : TradeOf[q] = u /\ ActionOf[q] \in CloseActions
    BY <1>4 DEF ExitInv
  <2>1. CASE u = t /\ ActionOf[p] \in CloseActions
    <3>1. m = n
      BY <1>5, <1>8, <2>1, ReceiverAssumption DEF ReceiverInv, OneRowPerTrade
    <3> QED
      BY <1>5, <1>7, <1>8, <2>1, <3>1
  <2>2. CASE u # t \/ ActionOf[p] \notin CloseActions
    <3>1. InForce(u)' = InForce(u)
      BY <1>7, <2>2
    <3>2. \A q \in Queued \ Audited :
            TradeOf[q] = u /\ ActionOf[q] \in CloseActions => q \in Queued' \ Audited'
      BY <1>3, <1>6, <2>2
    <3> QED
      BY <3>1, <3>2 DEF CompareInv, ExitInv
  <2> QED
    BY <2>1, <2>2
<1>12. LatestInv'
  <2> SUFFICES ASSUME NEW q \in Audited', ActionOf[q] \in CloseActions
               PROVE  \E f : f = InForce(TradeOf[q])' /\ (q = f \/ Before(q, f)')
    BY DEF LatestInv
  <2>1. CASE q = p
    BY <1>3, <1>7, <2>1
  <2>2. CASE q # p /\ (TradeOf[q] # t \/ ActionOf[p] \notin CloseActions)
    <3>1. q \in Audited /\ InForce(TradeOf[q])' = InForce(TradeOf[q])
      BY <1>6, <1>7, <2>2
    <3> QED
      BY <3>1 DEF CompareInv, LatestInv
  <2>3. CASE q # p /\ TradeOf[q] = t /\ ActionOf[p] \in CloseActions
    <3>1. q \in Audited /\ InForce(t)' = p
      BY <1>6, <1>7, <2>3
    <3>2. AuditOf(t, "update_close_v2") # {}
      BY <2>3, <3>1 DEF AuditOf, Audited, CloseActions, AuditInv, ForceInv
    <3>3. ActionOf[p] = "correct_close_v2"
      BY <1>5, <2>3, <3>2 DEF CloseActions
    <3> DEFINE f == InForce(t)
    <3>4. f = BaseOf[p] /\ f \in Projections
      BY <1>5, <3>2, <3>3 DEF AuditInv, ForceInv
    <3>5. Before(f, p)
      BY <1>6, <3>4, CorrectionAssumption DEF CompareInv, EarlierInv
    <3>6. q = f \/ Before(q, f)
      BY <2>3, <3>1 DEF CompareInv, LatestInv
    <3> HIDE DEF f
    <3>7. Before(q, p)
      BY <3>5, <3>6, BeforeTransitive
    <3> QED
      BY <2>3, <3>1, <3>7
  <2> QED
    BY <2>1, <2>2, <2>3
<1> QED
  BY <1>9, <1>10, <1>11, <1>12

\* An execution works on what the client has sent it.
LEMMA ServedStep ==
  ASSUME PathInv, ServedInv, Queued \subseteq Queued', GoogleNext, NEW e \in Execs, exec'[e].pc # "idle"
  PROVE  exec'[e].proj \in Queued'
<1>1. exec \in [Execs -> Exec]
  BY DEF PathInv, ReceiverInv, ReceiverTypeOK
<1>2. CASE exec'[e] = exec[e]
  BY <1>2 DEF ServedInv
<1>3. ASSUME NEW w \in Workers, Send(w) PROVE exec'[e].proj \in Queued'
  <2>1. outbox[job[w].intent].proj \in Queued
    BY <1>3 DEF Send, Waiting, PathInv, IInv, TypeOK, Queued
  <2>2. PICK f \in Execs : Arrive(f, outbox[job[w].intent].proj)
    BY <1>3 DEF Send
  <2>3. /\ exec'[f].proj = outbox[job[w].intent].proj
        /\ \A g \in Execs : g # f => exec'[g] = exec[g]
    BY <1>1, <2>2 DEF Arrive, IdleExec
  <2> QED
    BY <1>2, <2>1, <2>3
<1>4. ASSUME NEW f \in Execs, Finish(f) \/ Kill(f) PROVE exec'[e].proj \in Queued'
  <2>1. exec' = [exec EXCEPT ![f] = IdleExec]
    BY <1>4 DEF Finish, Kill
  <2> QED
    BY <1>1, <1>2, <2>1, IdleFacts
<1>5. ASSUME NEW f \in Execs, Serve(f) \/ Throw(f) PROVE exec'[e].proj \in Queued'
  <2>1. /\ exec[f].pc # "idle" /\ exec'[f].proj = exec[f].proj
        /\ \A g \in Execs : g # f => exec'[g] = exec[g]
    <3>1. CASE TurnAway(f) \/ Invalidate(f) \/ Look(f) \/ Confirm(f) \/ Throw(f)
      BY <1>1, <3>1 DEF TurnAway, Invalidate, Look, Confirm, Throw, Running, Exec
    <3>2. CASE WriteFirst(f) \/ WriteRest(f)
      BY <1>1, <3>2 DEF WriteFirst, WriteRest, Exec
    <3>3. CASE Decide(f)
      BY <1>1, <3>3 DEF Decide, Exec
    <3> QED
      BY <1>5, <3>1, <3>2, <3>3 DEF Serve
  <2> QED
    BY <1>2, <2>1 DEF ServedInv
<1>6. CASE OutboxAlone
  BY <1>2, <1>6 DEF OutboxAlone, receiverVars
<1>7. ASSUME NEW w \in Workers, Delivery(w) PROVE exec'[e].proj \in Queued'
  <2>1. CASE Start(w) \/ NoEndpoint(w) \/ SendLost(w) \/ TimeOut(w) \/ GiveUp(w) \/ WorkerCrash(w)
    <3>1. exec' = exec
      BY <2>1 DEF Start, NoEndpoint, SendLost, TimeOut, GiveUp, WorkerCrash, receiverVars
    <3> QED
      BY <1>2, <3>1
  <2>2. CASE Result(w)
    <3>1. call.exec \in Execs /\ Finish(call.exec)
      BY <2>2 DEF Result, PathInv, CallInv
    <3> QED
      BY <1>4, <3>1
  <2> QED
    BY <1>3, <1>7, <2>1, <2>2 DEF Delivery
<1>8. ASSUME NEW f \in Execs, Execution(f) \/ BadAnswer(f) \/ KillExecution(f)
      PROVE  exec'[e].proj \in Queued'
  BY <1>4, <1>5, <1>8 DEF Execution, BadAnswer, KillExecution, Serve
<1> QED
  BY <1>6, <1>7, <1>8 DEF GoogleNext

LEMMA CompareStep ==
  ASSUME Serial, AnswersCover, PathInv, CompareInv, [GoogleNext]_allVars
  PROVE  CompareInv'
<1>1. PathInv' /\ [Next]_vars
  BY PathStep
<1>2. IInv /\ ReceiverInv /\ AuditInv /\ ReceiverInv' /\ AuditInv'
  BY <1>1 DEF PathInv
<1>3. /\ Queued \subseteq Queued' /\ EarlierInv'
      /\ \A p, q : Before(p, q) => Before(p, q)'
  BY <1>1, <1>2, OrderStays DEF CompareInv
<1>4. ASSUME UNCHANGED <<rows, audit>>
      PROVE  Audited' \subseteq Queued' /\ OriginInv' /\ ExitInv' /\ LatestInv'
  <2>1. Audited' = Audited /\ \A t : InForce(t)' = InForce(t)
    BY <1>4, AuditStays
  <2>2. OriginInv'
    BY <1>3, <1>4 DEF CompareInv, OriginInv
  <2>3. ExitInv'
    BY <1>3, <1>4, <2>1 DEF CompareInv, ExitInv
  <2>4. LatestInv'
    BY <1>3, <2>1 DEF CompareInv, LatestInv
  <2> QED
    BY <1>3, <2>1, <2>2, <2>3, <2>4 DEF CompareInv, ServedInv
<1>5. CASE UNCHANGED allVars
  <2>1. UNCHANGED <<rows, audit, exec>>
    BY <1>5 DEF allVars, receiverVars
  <2> QED
    BY <1>3, <1>4, <2>1 DEF CompareInv, ServedInv
<1>6. CASE GoogleNext
  <2>1. \A e \in Execs : exec'[e].pc # "idle" => exec'[e].proj \in Queued'
    BY <1>3, <1>6, ServedStep DEF CompareInv
  <2>2. ASSUME NEW e \in Execs, WriteFirst(e) \/ WriteRest(e)
        PROVE  Audited' \subseteq Queued' /\ OriginInv' /\ ExitInv' /\ LatestInv'
    <3>1. audit' = audit
      BY <2>2 DEF WriteFirst, WriteRest
    <3>2. Audited' = Audited /\ \A t : InForce(t)' = InForce(t)
      BY <3>1, AuditStays
    <3>3. OriginInv' /\ ExitInv'
      BY <1>2, <1>3, <2>2, WritingKeepsCompare DEF CompareInv, ServedInv
    <3>4. LatestInv'
      BY <1>3, <3>2 DEF CompareInv, LatestInv
    <3> QED
      BY <1>3, <3>2, <3>3, <3>4 DEF CompareInv, ServedInv
  <2>3. \/ UNCHANGED <<rows, audit>>
        \/ \E e \in Execs : WriteFirst(e) \/ WriteRest(e) \/ Confirm(e)
    <3>1. \/ UNCHANGED receiverVars
          \/ \E e \in Execs : \/ \E p \in Projections : Arrive(e, p)
                              \/ Serve(e) \/ Throw(e) \/ Kill(e) \/ Finish(e)
      BY <1>6, ReceiverSteps
    <3> QED
      BY <3>1 DEF receiverVars, Arrive, Serve, TurnAway, Invalidate, Look, Decide, Throw, Kill, Finish
  <2>4. Audited' \subseteq Queued' /\ OriginInv' /\ ExitInv' /\ LatestInv'
    BY <1>2, <1>3, <1>4, <2>2, <2>3, ConfirmKeepsCompare
  <2> QED
    BY <1>3, <2>1, <2>4 DEF CompareInv, ServedInv
<1> QED
  BY <1>5, <1>6

-----------------------------------------------------------------------------
(* What the comparison makes of it.                                        *)

\* A queued fact stands in the ledger, at its first copy.
LEMMA FirstCopy ==
  ASSUME IInv
  PROVE  /\ DOMAIN Projected \subseteq Intents
         /\ \A k \in DOMAIN Projected : /\ Projected[k] = outbox[k].proj /\ Projected[k] \in Queued
                                        /\ \A j \in Copies(Projected[k]) : k <= j
         /\ \A p \in Queued : \E k \in DOMAIN Projected : Projected[k] = p
<1> DEFINE firsts == {i \in Intents : \A j \in Copies(outbox[i].proj) : i <= j}
<1>1. Projected = [i \in firsts |-> outbox[i].proj]
  BY DEF Projected
<1>2. DOMAIN Projected = firsts /\ \A k \in firsts : Projected[k] = outbox[k].proj
  BY <1>1
<1>3. ASSUME NEW p \in Queued PROVE \E k \in firsts : outbox[k].proj = p
  <2>1. Len(outbox) \in Nat /\ Intents = 1 .. Len(outbox)
    BY LenProperties DEF IInv, TypeOK, Intents
  <2>2. Copies(p) \in SUBSET (1 .. Len(outbox)) /\ Copies(p) # {}
    BY <2>1 DEF Copies, Queued
  <2>3. Min(Copies(p)) \in Copies(p) /\ \A k \in Copies(p) : Min(Copies(p)) <= k
    BY <2>1, <2>2, MinOf
  <2>4. \E k \in Copies(p) : \A j \in Copies(p) : k <= j
    BY <2>3
  <2> QED
    BY <2>4 DEF Copies
<1> QED
  BY <1>2, <1>3 DEF Queued

\* Once everything queued is confirmed, the fold of the ledger yields for each trade
\* the version in force on the sheet.
LEMMA FoldIsInForce ==
  ASSUME IInv, ReceiverInv, AuditInv, CompareInv, Queued \subseteq Audited, NEW t \in Trades
  PROVE  Effective(Projected, t) = InForce(t)
<1> DEFINE closes      == FactsOf(Projected, t, {"update_close_v2"})
           corrections == FactsOf(Projected, t, {"correct_close_v2"})
<1>1. /\ Len(outbox) \in Nat /\ closes \in SUBSET (1 .. Len(outbox))
      /\ corrections \in SUBSET (1 .. Len(outbox))
  BY FirstCopy, LenProperties DEF FactsOf, IInv, TypeOK, Intents
<1>2. Queued = Audited
  BY DEF CompareInv, ServedInv
<1>3. \A a : (AuditOf(t, a) # {} <=> FactsOf(Projected, t, {a}) # {})
  BY <1>2, FirstCopy DEF AuditOf, Audited, FactsOf
<1>4. CASE closes = {}
  <2>1. AuditOf(t, "update_close_v2") = {} /\ AuditOf(t, "correct_close_v2") = {}
    BY <1>3, <1>4 DEF AuditInv, ForceInv
  <2> QED
    BY <1>4, <2>1 DEF Effective, InForce, InForceAfter
<1>5. CASE closes # {} /\ corrections # {}
  <2>1. Max(corrections) \in corrections /\ \A k \in corrections : k <= Max(corrections)
    BY <1>1, <1>5, MaxOf
  <2>2. PICK m \in corrections : m = Max(corrections)
    BY <2>1
  <2>3. Effective(Projected, t) = Projected[m]
    BY <1>5, <2>2 DEF Effective
  <2> DEFINE q == Projected[m]
             f == InForce(t)
  <2>4. q \in Audited /\ TradeOf[q] = t /\ ActionOf[q] \in CloseActions
    BY <1>2, FirstCopy DEF FactsOf, CloseActions
  <2>5. q = f \/ Before(q, f)
    BY <2>4 DEF CompareInv, LatestInv
  <2>6. f \in Audited /\ TradeOf[f] = t /\ ActionOf[f] = "correct_close_v2"
    <3> DEFINE S == {k \in AuditOf(t, "correct_close_v2") : k <= Len(audit)}
    <3>1. Len(audit) \in Nat /\ DOMAIN audit = 1 .. Len(audit)
      BY LenProperties DEF ReceiverInv, ReceiverTypeOK
    <3>2. S = AuditOf(t, "correct_close_v2") /\ S \in SUBSET (1 .. Len(audit))
      BY <3>1 DEF AuditOf
    <3>3. S # {}
      BY <1>3, <1>5, <3>2
    <3>4. f = audit[Max(S)]
      BY <3>3 DEF InForce, InForceAfter
    <3>5. Max(S) \in S
      BY <3>1, <3>2, <3>3, MaxOf
    <3> QED
      BY <3>2, <3>4, <3>5 DEF AuditOf, Audited
  <2> HIDE DEF f
  <2>7. PICK k \in corrections : Projected[k] = f
    BY <1>2, <2>6, FirstCopy DEF FactsOf
  <2>8. ~Before(q, f)
    <3> SUFFICES ASSUME NEW i \in Copies(q), \A j \in Copies(f) : i < j PROVE FALSE
      BY DEF Before
    <3>1. m <= i
      BY FirstCopy DEF FactsOf
    <3>2. k \in Copies(f)
      BY <2>7, FirstCopy DEF FactsOf, Copies
    <3>3. i < k /\ k <= m
      BY <2>1, <2>2, <3>2
    <3>4. i \in Nat /\ k \in Nat /\ m \in Nat
      BY <1>1, LenProperties DEF Copies, Intents, IInv, TypeOK
    <3> QED
      BY <3>1, <3>3, <3>4
  <2> QED
    BY <2>3, <2>5, <2>8 DEF f
<1>6. CASE closes # {} /\ corrections = {}
  <2>1. Min(closes) \in closes
    BY <1>1, <1>6, MinOf
  <2>2. PICK m \in closes : m = Min(closes)
    BY <2>1
  <2>3. Effective(Projected, t) = Projected[m]
    BY <1>6, <2>2 DEF Effective
  <2>4. PICK k \in DOMAIN audit : audit[k] = Projected[m]
    BY <1>2, FirstCopy DEF FactsOf, Audited
  <2>5. k \in AuditOf(t, "update_close_v2")
    BY <2>4 DEF AuditOf, FactsOf
  <2> DEFINE S == {n \in AuditOf(t, "update_close_v2") : n <= Len(audit)}
  <2>6. Len(audit) \in Nat /\ DOMAIN audit = 1 .. Len(audit)
    BY LenProperties DEF ReceiverInv, ReceiverTypeOK
  <2>7. S = AuditOf(t, "update_close_v2") /\ S \in SUBSET (1 .. Len(audit)) /\ S # {}
    BY <2>5, <2>6 DEF AuditOf
  <2>8. AuditOf(t, "correct_close_v2") = {}
    BY <1>3, <1>6
  <2>9. InForce(t) = audit[Min(S)]
    BY <2>7, <2>8 DEF InForce, InForceAfter
  <2>10. Min(S) \in S
    BY <2>6, <2>7, MinOf
  <2>11. PICK l \in AuditOf(t, "update_close_v2") : l = Min(S)
    BY <2>7, <2>10
  <2>12. l = k
    BY <2>5, <2>11 DEF AuditInv, ConfirmedOnce, AuditOf
  <2> QED
    BY <2>3, <2>4, <2>9, <2>11, <2>12
<1> QED
  BY <1>4, <1>5, <1>6

\* While executions do not overlap, queue, audit lines and rows tell of the same facts in
\* the same order.
THEOREM CompareInvariant ==
  ASSUME Serial, AnswersCover PROVE GoogleSpec => []CompareInv
<1>1. GoogleInit => CompareInv
  <2> SUFFICES ASSUME GoogleInit PROVE CompareInv
    OBVIOUS
  <2>1. outbox = <<>> /\ rows = <<>> /\ audit = <<>> /\ \A e \in Execs : exec[e].pc = "idle"
    BY IdleFacts DEF GoogleInit, Init, ReceiverInit
  <2>2. Queued = {} /\ Audited = {}
    BY <2>1 DEF Queued, Intents, Audited
  <2> QED
    BY <2>1, <2>2 DEF CompareInv, EarlierInv, ServedInv, OriginInv, ExitInv, LatestInv
<1>2. PathInv /\ CompareInv /\ [GoogleNext]_allVars => CompareInv'
  BY CompareStep
<1> QED
  BY <1>1, <1>2, PathInvariant, PTL DEF GoogleSpec

\* No false alarm while executions do not overlap: once every fact put in the queue is
\* confirmed, the comparison of the ledger with the sheet can not say DIVERGED.
THEOREM DeliveredAgrees ==
  ASSUME Serial, AnswersCover PROVE GoogleSpec => []DivergedIsUndelivered
<1>1. ASSUME PathInv, CompareInv PROVE DivergedIsUndelivered
  <2> SUFFICES ASSUME \A k \in DOMAIN Projected : Confirmed(Projected[k])
               PROVE  "DIVERGED" \notin SheetVerdicts(Projected)
    BY DEF DivergedIsUndelivered
  <2>1. IInv /\ ReceiverInv /\ AuditInv /\ ConfirmInv
    BY <1>1 DEF PathInv
  <2>2. Queued = Audited
    <3>1. ASSUME NEW p \in Queued PROVE p \in Audited
      <4>1. Confirmed(p)
        BY <2>1, FirstCopy
      <4> QED
        BY <2>1, <4>1 DEF Confirmed, Copies, ConfirmInv
    <3> QED
      BY <1>1, <3>1 DEF CompareInv, ServedInv
  <2>3. \A t \in Trades : Effective(Projected, t) = InForce(t)
    BY <1>1, <2>1, <2>2, FoldIsInForce
  <2> DEFINE trades == Folded(Projected)
             known  == {t \in Trades :
                          FactsOf(Projected, t, RowActions \cup {"update_close_v2"}) # {}}
  <2>4. DOMAIN trades = known /\ \A t \in known : trades[t] = InForce(t)
    BY <2>3 DEF Folded
  <2> HIDE DEF trades
  <2>5. /\ DOMAIN rows \subseteq Nat
        /\ \A n \in DOMAIN rows : rows[n].trade \in Trades \cup {Nothing}
    <3>1. rows \in Seq(Row)
      BY <2>1 DEF ReceiverInv, ReceiverTypeOK
    <3>2. \A n \in DOMAIN rows : rows[n] \in Row
      BY <3>1, ElementOfSeq, LenProperties
    <3> QED
      BY <3>1, <3>2, LenProperties DEF Row
  <2>6. ~UnknownRow(trades)
    <3> SUFFICES ASSUME NEW n \in DOMAIN rows, rows[n].trade # Nothing PROVE rows[n].trade \in known
      BY <2>4 DEF UnknownRow
    <3>1. PICK p \in Queued : TradeOf[p] = rows[n].trade /\ ActionOf[p] \in RowActions
      BY <1>1 DEF CompareInv, OriginInv
    <3>2. PICK k \in DOMAIN Projected : Projected[k] = p
      BY <2>1, FirstCopy
    <3> QED
      BY <2>5, <3>1, <3>2 DEF FactsOf
  <2>7. ASSUME NEW t \in known PROVE ~MayDiverge(Projected, t, trades[t])
    <3>1. PICK k \in DOMAIN Projected : /\ TradeOf[Projected[k]] = t
                                        /\ ActionOf[Projected[k]] \in RowActions \cup CloseActions
      BY DEF FactsOf, CloseActions
    <3>2. Projected[k] \in Audited
      BY <2>1, <2>2, FirstCopy
    <3>3. RowsOf(t) # {}
      <4>1. CASE ActionOf[Projected[k]] \in RowActions
        BY <2>1, <3>1, <3>2, <4>1 DEF Audited, ReceiverInv, AuditedRowIsShown
      <4>2. CASE ActionOf[Projected[k]] \in CloseActions
        BY <2>1, <3>1, <3>2, <4>2 DEF AuditInv, ExitIsReached
      <4> QED
        BY <3>1, <4>1, <4>2
    <3>4. PICK n \in DOMAIN rows : rows[n].trade = t
      BY <3>3 DEF RowsOf
    <3>5. t # Nothing
      BY ReceiverAssumption
    <3>6. RowsOf(t) = {n} /\ n <= n
      BY <2>1, <2>5, <3>4, <3>5 DEF RowsOf, ReceiverInv, OneRowPerTrade
    <3>7. MatchedRows(Projected, t) = {n}
      BY <3>6 DEF MatchedRows
    <3>8. rows[n].close = InForce(t)
      BY <1>1, <2>2, <3>4 DEF CompareInv, ExitInv
    <3>9. InForce(t) # Torn
      <4>1. CASE AuditOf(t, "update_close_v2") = {}
        <5>1. AuditOf(t, "correct_close_v2") = {}
          BY <2>1, <4>1 DEF AuditInv, ForceInv
        <5> QED
          BY <4>1, <5>1, ReceiverAssumption DEF InForce, InForceAfter
      <4>2. CASE AuditOf(t, "update_close_v2") # {}
        BY <2>1, <4>2, ReceiverAssumption DEF AuditInv, ForceInv
      <4> QED
        BY <4>1, <4>2
    <3> QED
      BY <2>4, <3>7, <3>8, <3>9 DEF MayDiverge, TradeDiverges
  <2> QED
    BY <2>4, <2>6, <2>7 DEF SheetVerdicts, trades
<1>2. PathInv /\ CompareInv => DivergedIsUndelivered
  BY <1>1
<1> QED
  BY <1>2, PathInvariant, CompareInvariant, PTL
=============================================================================
