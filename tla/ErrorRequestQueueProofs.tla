------------------------ MODULE ErrorRequestQueueProofs ------------------------
(***************************************************************************)
(* Proofs about ErrorRequestQueue, for any number of processes, problems   *)
(* and records and for deaths at any point: the queue keeps its promises   *)
(* and implements RequestLifecycle.                                        *)
(***************************************************************************)
EXTENDS ErrorRequestQueue, SequenceTheorems, TLAPS

\* What an operation found when it looked still holds when it appends, because it has
\* the lock.
ProcInv(p) ==
  /\ proc[p].pc # "idle" => lock = p
  /\ proc[p].pc \in {"append_request", "append_outcome"} => tail # "broken"
  /\ proc[p].pc = "append_request" => OutstandingFor(proc[p].problem) = {}
  /\ proc[p].pc = "append_outcome" => proc[p].request \in Outstanding

QueueInv == /\ TypeOK /\ OneOpenRequest /\ OneOutcomeEach
            /\ \A p \in Processes : ProcInv(p)

-----------------------------------------------------------------------------
LEMMA RecordFacts ==
  ASSUME TypeOK
  PROVE  /\ DOMAIN file = 1 .. Len(file) /\ Len(file) \in Nat
         /\ \A k \in DOMAIN file : file[k] \in Record
  BY LenProperties, ElementOfSeq DEF TypeOK

\* The operation of a process, by its pc.
LEMMA ProcFacts ==
  ASSUME TypeOK, NEW p \in Processes
  PROVE  /\ proc[p].pc \in {"open", "append_request"} =>
              proc[p].problem \in Problems /\ proc[p] = [pc |-> proc[p].pc, problem |-> proc[p].problem]
         /\ proc[p].pc \in {"close", "append_outcome"} =>
              proc[p].request \in Nat /\ proc[p] = [pc |-> proc[p].pc, request |-> proc[p].request]
  BY DEF TypeOK, Proc

\* One more line: what it adds and what it keeps.
LEMMA AppendShape ==
  ASSUME TypeOK, NEW r \in Record, file' = Append(file, r)
  PROVE  /\ file' \in Seq(Record) /\ DOMAIN file' = DOMAIN file \cup {Len(file) + 1}
         /\ Len(file) + 1 \notin DOMAIN file /\ file'[Len(file) + 1] = r
         /\ \A k \in DOMAIN file : file'[k] = file[k]
<1>1. file \in Seq(Record) /\ Len(file) \in Nat /\ DOMAIN file = 1 .. Len(file)
  BY RecordFacts DEF TypeOK
<1>2. /\ file' \in Seq(Record) /\ Len(file') = Len(file) + 1
      /\ file'[Len(file) + 1] = r /\ \A k \in 1 .. Len(file) : file'[k] = file[k]
  BY <1>1, AppendProperties
<1>3. DOMAIN file' = 1 .. Len(file')
  BY <1>2, LenProperties
<1> QED
  BY <1>1, <1>2, <1>3

\* A request line opens one request and leaves the others as they were.
LEMMA RequestAppended ==
  ASSUME TypeOK, OneOutcomeEach, NEW f \in Problems,
         file' = Append(file, [kind |-> "request", problem |-> f])
  PROVE  /\ Requests' = Requests \cup {Len(file) + 1} /\ Closed' = Closed
         /\ Outstanding' = Outstanding \cup {Len(file) + 1}
         /\ file'[Len(file) + 1].problem = f
         /\ \A r \in Requests : file'[r] = file[r]
<1> DEFINE n == Len(file) + 1
           rec == [kind |-> "request", problem |-> f]
<1>1. rec \in Record
  BY DEF Record
<1>2. /\ DOMAIN file' = DOMAIN file \cup {n} /\ n \notin DOMAIN file /\ file'[n] = rec
      /\ \A k \in DOMAIN file : file'[k] = file[k]
  BY <1>1, AppendShape
<1>3. rec.kind = "request" /\ rec.problem = f
  OBVIOUS
<1> HIDE DEF n, rec
<1>4. Requests' = Requests \cup {n}
  BY <1>2, <1>3 DEF Requests
<1>5. Closed' = Closed
  BY <1>2, <1>3 DEF Closed
<1>6. n \notin Closed
  BY <1>2, <1>3, RecordFacts DEF OneOutcomeEach, Closed, Requests
<1>7. Outstanding' = Outstanding \cup {n}
  BY <1>4, <1>5, <1>6 DEF Outstanding
<1> QED
  BY <1>2, <1>3, <1>4, <1>5, <1>7 DEF n, Requests

\* An outcome line closes the request it names and nothing else.
LEMMA OutcomeAppended ==
  ASSUME TypeOK, NEW r \in Outstanding,
         file' = Append(file, [kind |-> "outcome", request |-> r])
  PROVE  /\ Requests' = Requests /\ Closed' = Closed \cup {r}
         /\ Outstanding' = Outstanding \ {r}
         /\ \A s \in Requests : file'[s] = file[s]
<1> DEFINE n == Len(file) + 1
           rec == [kind |-> "outcome", request |-> r]
<1>1. rec \in Record
  BY RecordFacts DEF Record, Outstanding, Requests
<1>2. /\ DOMAIN file' = DOMAIN file \cup {n} /\ n \notin DOMAIN file /\ file'[n] = rec
      /\ \A k \in DOMAIN file : file'[k] = file[k]
  BY <1>1, AppendShape
<1>3. rec.kind = "outcome" /\ rec.request = r
  OBVIOUS
<1> HIDE DEF n, rec
<1>4. Requests' = Requests
  BY <1>2, <1>3 DEF Requests
<1>5. Closed' = Closed \cup {r}
  BY <1>2, <1>3 DEF Closed
<1> QED
  BY <1>2, <1>4, <1>5 DEF Outstanding, Requests

-----------------------------------------------------------------------------
\* Steps that write nothing.
LEMMA ReadStepKeeps ==
  ASSUME QueueInv, NEW p \in Processes,
         BeginOpen(p) \/ LookForOpen(p) \/ BeginClose(p) \/ LookForClose(p) \/ Die(p)
  PROVE  QueueInv' /\ UNCHANGED file
<1>1. UNCHANGED <<file, tail>>
  BY DEF BeginOpen, LookForOpen, BeginClose, LookForClose, Die, Begin
<1>2. OneOpenRequest' /\ OneOutcomeEach'
  BY <1>1 DEF QueueInv, OneOpenRequest, OneOutcomeEach, Outstanding, Requests, Closed
<1>3. \A q \in Processes : (q # p /\ proc[q].pc # "idle") => lock = q
  BY DEF QueueInv, ProcInv
<1>4. CASE BeginOpen(p) \/ BeginClose(p)
  <2>1. PICK op \in Proc : op.pc \in {"open", "close"} /\ Begin(p, op)
    <3>1. CASE BeginOpen(p)
      <4>1. PICK f \in Problems : Begin(p, [pc |-> "open", problem |-> f])
        BY <3>1 DEF BeginOpen
      <4>2. [pc |-> "open", problem |-> f] \in Proc
        BY DEF Proc
      <4> QED
        BY <4>1, <4>2
    <3>2. CASE BeginClose(p)
      <4>1. PICK r \in 1 .. MaxRecords : Begin(p, [pc |-> "close", request |-> r])
        BY <3>2 DEF BeginClose
      <4>2. [pc |-> "close", request |-> r] \in Proc
        BY QueueAssumption DEF Proc
      <4> QED
        BY <4>1, <4>2
    <3> QED
      BY <1>4, <3>1, <3>2
  <2>2. TypeOK'
    BY <1>1, <2>1 DEF Begin, QueueInv, TypeOK
  <2>3. \A q \in Processes : q # p => proc'[q].pc = "idle"
    BY <2>1, QueueAssumption DEF Begin, QueueInv, ProcInv, TypeOK
  <2>4. \A q \in Processes : ProcInv(q)'
    BY <2>1, <2>3 DEF Begin, ProcInv, QueueInv, TypeOK
  <2> QED
    BY <1>1, <1>2, <2>2, <2>4 DEF QueueInv
<1>5. CASE Leave(p)
  <2>1. TypeOK'
    BY <1>1, <1>5 DEF Leave, Idle, Proc, QueueInv, TypeOK
  <2>2. \A q \in Processes : ProcInv(q)'
    BY <1>1, <1>5 DEF Leave, Idle, ProcInv, QueueInv, TypeOK, OutstandingFor, Outstanding, Requests, Closed
  <2> QED
    BY <1>1, <1>2, <2>1, <2>2 DEF QueueInv
<1>6. CASE LookForOpen(p) /\ ~Leave(p)
  <2>1. /\ proc[p].pc = "open" /\ tail # "broken" /\ OutstandingFor(proc[p].problem) = {}
        /\ proc' = [proc EXCEPT ![p].pc = "append_request"] /\ lock' = lock
    BY <1>6 DEF LookForOpen, Known
  <2>2. proc[p].problem \in Problems /\ proc[p] = [pc |-> "open", problem |-> proc[p].problem]
    BY <2>1, ProcFacts DEF QueueInv
  <2> DEFINE new == [pc |-> "append_request", problem |-> proc[p].problem]
  <2>3. proc' = [proc EXCEPT ![p] = new]
    <3>1. [proc[p] EXCEPT !.pc = "append_request"] = new
      BY <2>2
    <3> QED
      BY <2>1, <3>1
  <2>6. /\ new \in Proc /\ new.pc = "append_request" /\ new.problem = proc[p].problem
        /\ proc'[p] = new /\ lock = p
        /\ \A q \in Processes : q # p => proc'[q].pc = "idle"
    BY <1>3, <2>1, <2>2, <2>3 DEF QueueInv, TypeOK, Proc, ProcInv
  <2> HIDE DEF new
  <2>4. TypeOK'
    BY <1>1, <2>1, <2>3, <2>6 DEF QueueInv, TypeOK
  <2>5. \A q \in Processes : ProcInv(q)'
    BY <1>1, <2>1, <2>6 DEF ProcInv, OutstandingFor, Outstanding, Requests, Closed
  <2> QED
    BY <1>1, <1>2, <2>4, <2>5 DEF QueueInv
<1>7. CASE LookForClose(p) /\ ~Leave(p)
  <2>1. /\ proc[p].pc = "close" /\ tail # "broken" /\ proc[p].request \in Outstanding
        /\ proc' = [proc EXCEPT ![p].pc = "append_outcome"] /\ lock' = lock
    BY <1>7 DEF LookForClose, MayClose
  <2>2. proc[p].request \in Nat /\ proc[p] = [pc |-> "close", request |-> proc[p].request]
    BY <2>1, ProcFacts DEF QueueInv
  <2> DEFINE new == [pc |-> "append_outcome", request |-> proc[p].request]
  <2>3. proc' = [proc EXCEPT ![p] = new]
    <3>1. [proc[p] EXCEPT !.pc = "append_outcome"] = new
      BY <2>2
    <3> QED
      BY <2>1, <3>1
  <2>6. /\ new \in Proc /\ new.pc = "append_outcome" /\ new.request = proc[p].request
        /\ proc'[p] = new /\ lock = p
        /\ \A q \in Processes : q # p => proc'[q].pc = "idle"
    BY <1>3, <2>1, <2>2, <2>3 DEF QueueInv, TypeOK, Proc, ProcInv
  <2> HIDE DEF new
  <2>4. TypeOK'
    BY <1>1, <2>1, <2>3, <2>6 DEF QueueInv, TypeOK
  <2>5. \A q \in Processes : ProcInv(q)'
    BY <1>1, <2>1, <2>6 DEF ProcInv, OutstandingFor, Outstanding, Requests, Closed
  <2> QED
    BY <1>1, <1>2, <2>4, <2>5 DEF QueueInv
<1> QED
  BY <1>1, <1>4, <1>5, <1>6, <1>7 DEF Die

\* After a process has left, nobody holds the lock or works on the queue.
LEMMA Left ==
  ASSUME QueueInv, NEW p \in Processes, proc[p].pc # "idle", Leave(p), tail' \in Tails
  PROVE  /\ \A q \in Processes : proc'[q].pc = "idle"
         /\ lock' = Nobody /\ proc' \in [Processes -> Proc]
<1>1. lock = p /\ \A q \in Processes : q # p => proc[q].pc = "idle"
  BY DEF QueueInv, ProcInv
<1> QED
  BY <1>1 DEF Leave, Idle, Proc, QueueInv, TypeOK

\* Steps that write the line they have prepared.
LEMMA WriteStepKeeps ==
  ASSUME QueueInv, NEW p \in Processes,
         AppendRequest(p) \/ AppendOutcome(p) \/ DieWriting(p)
  PROVE  /\ QueueInv'
         /\ \/ UNCHANGED file
            \/ proc[p].pc = "append_request" /\ file' = Append(file, Line(p))
            \/ proc[p].pc = "append_outcome" /\ file' = Append(file, Line(p))
<1>1. /\ proc[p].pc \in {"append_request", "append_outcome"} /\ Leave(p)
      /\ tail' \in Tails
      /\ file' = file \/ file' = Append(file, Line(p))
  BY DEF AppendRequest, AppendOutcome, DieWriting, AppendLine, Tails
<1>2. /\ \A q \in Processes : proc'[q].pc = "idle"
      /\ lock' = Nobody /\ proc' \in [Processes -> Proc]
  BY <1>1, Left
<1>3. \A q \in Processes : ProcInv(q)'
  BY <1>2 DEF ProcInv
<1>4. TypeOK /\ OneOpenRequest /\ OneOutcomeEach /\ ProcInv(p)
  BY DEF QueueInv
<1>5. CASE file' = file
  <2>1. OneOpenRequest' /\ OneOutcomeEach'
    BY <1>4, <1>5 DEF OneOpenRequest, OneOutcomeEach, Outstanding, Requests, Closed
  <2> QED
    BY <1>1, <1>2, <1>3, <1>4, <1>5, <2>1 DEF QueueInv, TypeOK
<1>6. CASE proc[p].pc = "append_request" /\ file' = Append(file, Line(p))
  <2> DEFINE f == proc[p].problem
  <2>1. f \in Problems /\ Line(p) = [kind |-> "request", problem |-> f]
    BY <1>4, <1>6, ProcFacts DEF Line
  <2>2. /\ Requests' = Requests \cup {Len(file) + 1}
        /\ Outstanding' = Outstanding \cup {Len(file) + 1}
        /\ file'[Len(file) + 1].problem = f /\ \A r \in Requests : file'[r] = file[r]
    BY <1>4, <1>6, <2>1, RequestAppended
  <2>3. /\ file' \in Seq(Record) /\ DOMAIN file' = DOMAIN file \cup {Len(file) + 1}
        /\ file'[Len(file) + 1].kind = "request"
        /\ \A k \in DOMAIN file : file'[k] = file[k]
    BY <1>4, <1>6, <2>1, AppendShape DEF Record
  <2>4. OneOpenRequest'
    <3> DEFINE n == Len(file) + 1
    <3>1. \A r \in Outstanding : file[r].problem # f
      BY <1>4, <1>6 DEF ProcInv, OutstandingFor
    <3>2. \A r \in Outstanding : file'[r].problem = file[r].problem
      BY <2>2 DEF Outstanding
    <3> HIDE DEF n, f
    <3>3. /\ Outstanding' = Outstanding \cup {n} /\ file'[n].problem = f
      BY <2>2 DEF n
    <3> QED
      BY <1>4, <3>1, <3>2, <3>3 DEF OneOpenRequest
  <2>5. OneOutcomeEach'
    BY <1>4, <2>2, <2>3 DEF OneOutcomeEach
  <2> QED
    BY <1>1, <1>2, <1>3, <1>6, <2>3, <2>4, <2>5 DEF QueueInv, TypeOK
<1>7. CASE proc[p].pc = "append_outcome" /\ file' = Append(file, Line(p))
  <2> DEFINE r == proc[p].request
             n == Len(file) + 1
  <2>1. r \in Outstanding /\ Line(p) = [kind |-> "outcome", request |-> r]
    BY <1>4, <1>7 DEF Line, ProcInv
  <2>2. /\ Requests' = Requests /\ Outstanding' = Outstanding \ {r}
        /\ \A s \in Requests : file'[s] = file[s]
    BY <1>4, <1>7, <2>1, OutcomeAppended
  <2>3. [kind |-> "outcome", request |-> r] \in Record /\ r \in DOMAIN file
    BY <1>4, <2>1, RecordFacts DEF Record, Outstanding, Requests
  <2>4. /\ file' \in Seq(Record) /\ DOMAIN file' = DOMAIN file \cup {n}
        /\ file'[n] = [kind |-> "outcome", request |-> r] /\ n \notin DOMAIN file
        /\ \A k \in DOMAIN file : file'[k] = file[k]
    BY <1>4, <1>7, <2>1, <2>3, AppendShape
  <2>5. r < n /\ r \in Requests /\ r \notin Closed
    BY <1>4, <2>1, <2>3, RecordFacts DEF Outstanding
  <2> HIDE DEF n, r
  <2>6. OneOpenRequest'
    BY <1>4, <2>2 DEF OneOpenRequest, Outstanding
  <2>7. \A k \in DOMAIN file : file[k].kind = "outcome" => file[k].request # r
    BY <2>5 DEF Closed
  <2>8. OneOutcomeEach'
    BY <1>4, <2>2, <2>4, <2>5, <2>7 DEF OneOutcomeEach
  <2> QED
    BY <1>1, <1>2, <1>3, <1>7, <2>4, <2>6, <2>8 DEF QueueInv, TypeOK
<1> QED
  BY <1>1, <1>5, <1>6, <1>7

LEMMA InitHolds == Init => QueueInv
<1> SUFFICES ASSUME Init PROVE QueueInv
  OBVIOUS
<1>1. file = <<>> /\ tail = "whole" /\ lock = Nobody /\ proc = [p \in Processes |-> Idle]
  BY DEF Init
<1>2. file \in Seq(Record) /\ DOMAIN file = {}
  BY <1>1
<1>3. TypeOK
  BY <1>1, <1>2 DEF TypeOK, Tails, Proc, Idle
<1>4. OneOpenRequest /\ OneOutcomeEach
  BY <1>2 DEF OneOpenRequest, OneOutcomeEach, Outstanding, Requests
<1>5. \A p \in Processes : ProcInv(p)
  BY <1>1 DEF ProcInv, Idle
<1> QED
  BY <1>3, <1>4, <1>5 DEF QueueInv

LEMMA StutterKeeps == QueueInv /\ UNCHANGED queueVars => QueueInv'
  BY DEF QueueInv, queueVars, TypeOK, OneOpenRequest, OneOutcomeEach, ProcInv,
         OutstandingFor, Outstanding, Requests, Closed

LEMMA StepKeeps == QueueInv /\ [Next]_queueVars => QueueInv'
<1> SUFFICES ASSUME QueueInv, [Next]_queueVars PROVE QueueInv'
  OBVIOUS
<1>1. CASE Next
  BY <1>1, ReadStepKeeps, WriteStepKeeps DEF Next
<1>2. CASE UNCHANGED queueVars
  BY <1>2, StutterKeeps
<1> QED
  BY <1>1, <1>2

\* What every operation found under the lock stays true until it appends; with the
\* state predicates below it is inductive.
THEOREM QueueInvariant == Spec => []QueueInv
  BY InitHolds, StepKeeps, PTL DEF Spec

\* Every reachable state of the queue is well typed.
THEOREM QueueIsTyped == Spec => []TypeOK
<1>1. QueueInv => TypeOK
  BY DEF QueueInv
<1> QED
  BY <1>1, QueueInvariant, PTL

\* open_error_request never opens a second request for a problem that has one.
THEOREM NoSecondRequest == Spec => []OneOpenRequest
<1>1. QueueInv => OneOpenRequest
  BY DEF QueueInv
<1> QED
  BY <1>1, QueueInvariant, PTL

\* record_request_outcome closes each request once, and only one that exists.
THEOREM HistoryIsUnambiguous == Spec => []OneOutcomeEach
<1>1. QueueInv => OneOutcomeEach
  BY DEF QueueInv
<1> QED
  BY <1>1, QueueInvariant, PTL

\* No process is about to append to a queue that readers refuse.
THEOREM BrokenStaysLast == Spec => []BrokenIsRefused
<1>1. QueueInv => BrokenIsRefused
  BY DEF QueueInv, BrokenIsRefused, ProcInv
<1> QED
  BY <1>1, QueueInvariant, PTL

-----------------------------------------------------------------------------
\* The history of the problems, as the file tells it.
History == [k \in DOMAIN file |-> Told(k)]

\* Of two requests of one problem the first is closed before the second is opened.
TurnsInv ==
  \A r, s \in Requests : r < s /\ file[r].problem = file[s].problem =>
    \E k \in DOMAIN file : k < s /\ file[k].kind = "outcome" /\ file[k].request = r

\* A step writes nothing, or the request or outcome its process has prepared.
LEMMA StepWrites ==
  ASSUME QueueInv, [Next]_queueVars
  PROVE  \/ UNCHANGED file
         \/ \E f \in Problems : /\ OutstandingFor(f) = {}
                                /\ file' = Append(file, [kind |-> "request", problem |-> f])
         \/ \E r \in Outstanding : file' = Append(file, [kind |-> "outcome", request |-> r])
<1>1. CASE Next
  <2>1. PICK p \in Processes :
          \/ UNCHANGED file
          \/ proc[p].pc = "append_request" /\ file' = Append(file, Line(p))
          \/ proc[p].pc = "append_outcome" /\ file' = Append(file, Line(p))
    BY <1>1, ReadStepKeeps, WriteStepKeeps DEF Next
  <2>2. TypeOK /\ ProcInv(p)
    BY DEF QueueInv
  <2>3. proc[p].pc = "append_request" =>
          /\ proc[p].problem \in Problems /\ OutstandingFor(proc[p].problem) = {}
          /\ Line(p) = [kind |-> "request", problem |-> proc[p].problem]
    BY <2>2, ProcFacts DEF ProcInv, Line
  <2>4. proc[p].pc = "append_outcome" =>
          /\ proc[p].request \in Outstanding
          /\ Line(p) = [kind |-> "outcome", request |-> proc[p].request]
    BY <2>2 DEF ProcInv, Line
  <2> QED
    BY <2>1, <2>3, <2>4
<1>2. CASE UNCHANGED queueVars
  BY <1>2 DEF queueVars
<1> QED
  BY <1>1, <1>2

\* The requests of a problem keep taking turns with their outcomes.
LEMMA TurnsStep == QueueInv /\ TurnsInv /\ [Next]_queueVars => TurnsInv'
<1> SUFFICES ASSUME QueueInv, TurnsInv, [Next]_queueVars PROVE TurnsInv'
  OBVIOUS
<1>0. TypeOK /\ OneOutcomeEach
  BY DEF QueueInv
<1>1. CASE UNCHANGED file
  BY <1>1 DEF TurnsInv, Requests
<1>2. ASSUME NEW f \in Problems, OutstandingFor(f) = {},
             file' = Append(file, [kind |-> "request", problem |-> f])
      PROVE  TurnsInv'
  <2> DEFINE n == Len(file) + 1
  <2>1. /\ Requests' = Requests \cup {n} /\ file'[n].problem = f
        /\ \A r \in Requests : file'[r] = file[r]
    BY <1>0, <1>2, RequestAppended
  <2>2. [kind |-> "request", problem |-> f] \in Record
    BY DEF Record
  <2>3. DOMAIN file \subseteq DOMAIN file' /\ \A k \in DOMAIN file : file'[k] = file[k]
    BY <1>0, <1>2, <2>2, AppendShape
  <2>4. \A k \in DOMAIN file : k \in Nat /\ k < n
    BY <1>0, RecordFacts
  <2>5. \A r \in Requests : file[r].problem = f => r \in Closed
    BY <1>2 DEF OutstandingFor, Outstanding
  <2> HIDE DEF n
  <2> SUFFICES ASSUME NEW r \in Requests', NEW s \in Requests', r < s,
                      file'[r].problem = file'[s].problem
               PROVE  \E k \in DOMAIN file' : k < s /\ file'[k].kind = "outcome" /\ file'[k].request = r
    BY DEF TurnsInv
  <2>6. r \in Requests
    BY <2>1, <2>4 DEF n, Requests
  <2>7. CASE s \in Requests
    BY <2>1, <2>3, <2>6, <2>7 DEF TurnsInv
  <2>8. CASE s = n
    BY <2>1, <2>3, <2>4, <2>5, <2>6, <2>8 DEF Closed
  <2> QED
    BY <2>1, <2>7, <2>8
<1>3. ASSUME NEW r \in Outstanding, file' = Append(file, [kind |-> "outcome", request |-> r])
      PROVE  TurnsInv'
  <2>1. Requests' = Requests /\ \A s \in Requests : file'[s] = file[s]
    BY <1>0, <1>3, OutcomeAppended
  <2>2. [kind |-> "outcome", request |-> r] \in Record
    BY <1>0, RecordFacts DEF Record, Outstanding, Requests
  <2>3. DOMAIN file \subseteq DOMAIN file' /\ \A k \in DOMAIN file : file'[k] = file[k]
    BY <1>0, <1>3, <2>2, AppendShape
  <2> QED
    BY <2>1, <2>3 DEF TurnsInv
<1> QED
  BY <1>1, <1>2, <1>3, StepWrites

\* In the history a problem is open exactly when the file has an open request for it.
LEMMA OpenIsOutstanding ==
  ASSUME QueueInv, TurnsInv, NEW f \in Problems
  PROVE  Lifecycle!Open(f) <=> OutstandingFor(f) # {}
<1> DEFINE Since(k) == \A l \in k + 1 .. Len(file) :
                         ~(file[l].kind = "outcome" /\ file[file[l].request].problem = f)
<1>0. /\ OneOutcomeEach /\ DOMAIN file = 1 .. Len(file) /\ Len(file) \in Nat
      /\ \A k \in DOMAIN file : file[k].kind \in {"request", "outcome"}
  BY RecordFacts DEF QueueInv, Record
<1>1. Lifecycle!Open(f) <=> \E k \in Requests : file[k].problem = f /\ Since(k)
  <2>1. DOMAIN History = DOMAIN file /\ Len(History) = Len(file)
    BY <1>0 DEF History
  <2>2. \A k \in DOMAIN file :
          /\ History[k] = [act |-> "raise", problem |-> f] <=>
               file[k].kind = "request" /\ file[k].problem = f
          /\ History[k] = [act |-> "settle", problem |-> f] <=>
               file[k].kind = "outcome" /\ file[file[k].request].problem = f
    BY <1>0 DEF History, Told
  <2>3. Lifecycle!Open(f) <=>
          \E k \in DOMAIN History :
            /\ History[k] = [act |-> "raise", problem |-> f]
            /\ \A l \in k + 1 .. Len(History) : History[l] # [act |-> "settle", problem |-> f]
    BY DEF Lifecycle!Open, Lifecycle!Raised, Lifecycle!Settled, History
  <2> QED
    BY <1>0, <2>1, <2>2, <2>3 DEF Requests
<1>2. ASSUME NEW k \in Requests, file[k].problem = f, Since(k) PROVE k \in OutstandingFor(f)
  <2>1. ASSUME k \in Closed PROVE FALSE
    <3>1. PICK l \in DOMAIN file : file[l].kind = "outcome" /\ file[l].request = k
      BY <2>1 DEF Closed
    <3>2. k < l /\ k \in 1 .. Len(file)
      BY <1>0, <3>1 DEF OneOutcomeEach, Requests
    <3> QED
      BY <1>0, <1>2, <3>1, <3>2
  <2> QED
    BY <1>2, <2>1 DEF OutstandingFor, Outstanding
<1>3. ASSUME NEW k \in OutstandingFor(f) PROVE k \in Requests /\ file[k].problem = f /\ Since(k)
  <2>1. k \in Requests /\ file[k].problem = f /\ k \notin Closed /\ k \in DOMAIN file
    BY DEF OutstandingFor, Outstanding, Requests
  <2>2. ASSUME NEW l \in k + 1 .. Len(file), file[l].kind = "outcome", file[file[l].request].problem = f
        PROVE  FALSE
    <3> DEFINE r == file[l].request
    <3>1. l \in DOMAIN file /\ k < l
      BY <1>0, <2>1
    <3>2. r \in Requests /\ r # k
      BY <1>0, <2>1, <2>2, <3>1 DEF OneOutcomeEach, Closed
    <3>3. file[r].problem = f
      BY <2>2
    <3>4. file[l].request = r
      OBVIOUS
    <3> HIDE DEF r
    <3>5. CASE r < k
      <4>1. PICK m \in DOMAIN file : m < k /\ file[m].kind = "outcome" /\ file[m].request = r
        BY <2>1, <3>2, <3>3, <3>5 DEF TurnsInv
      <4>2. m = l
        BY <1>0, <2>2, <3>1, <3>4, <4>1 DEF OneOutcomeEach
      <4> QED
        BY <1>0, <2>1, <3>1, <4>1, <4>2
    <3>6. CASE k < r
      <4>1. PICK m \in DOMAIN file : file[m].kind = "outcome" /\ file[m].request = k
        BY <2>1, <3>2, <3>3, <3>6 DEF TurnsInv
      <4> QED
        BY <2>1, <4>1 DEF Closed
    <3> QED
      BY <1>0, <2>1, <3>2, <3>5, <3>6 DEF Requests
  <2> QED
    BY <2>1, <2>2
<1> QED
  BY <1>1, <1>2, <1>3

\* A record more in the file is one more in the history.
LEMMA HistoryAppended ==
  ASSUME QueueInv, NEW r \in Record, file' = Append(file, r), NEW e,
         NEW n, n = Len(file) + 1, Told(n)' = e
  PROVE  History' = Append(History, e)
<1>0. /\ TypeOK /\ OneOutcomeEach /\ DOMAIN file = 1 .. Len(file) /\ Len(file) \in Nat
      /\ \A k \in DOMAIN file : file[k].kind \in {"request", "outcome"}
  BY RecordFacts DEF QueueInv, Record
<1>1. /\ DOMAIN file' = 1 .. Len(file) + 1
      /\ \A k \in DOMAIN file : file'[k] = file[k]
  BY <1>0, AppendShape
<1>2. \A k \in DOMAIN file : file[k].kind = "outcome" => file[k].request \in DOMAIN file
  BY <1>0 DEF OneOutcomeEach, Requests
<1>3. \A k \in DOMAIN file : Told(k)' = Told(k)
  BY <1>0, <1>1, <1>2 DEF Told
<1>4. History' = [k \in 1 .. n |-> Told(k)']
  BY <1>1 DEF History
<1>5. \A k \in 1 .. n : Told(k)' = IF k = n THEN e ELSE Told(k)
  BY <1>0, <1>3
<1> DEFINE S == {Told(k) : k \in DOMAIN file} \cup {e}
<1>6. /\ History \in Seq(S) /\ Len(History) = Len(file)
      /\ \A k \in 1 .. Len(file) : History[k] = Told(k)
  BY <1>0 DEF History
<1>7. /\ Append(History, e) \in Seq(S) /\ Len(Append(History, e)) = n
      /\ Append(History, e)[n] = e
      /\ \A k \in 1 .. Len(file) : Append(History, e)[k] = Told(k)
  <2> HIDE DEF S
  <2>1. e \in S
    BY DEF S
  <2> QED
    BY <1>6, <2>1, AppendProperties
<1>8. Append(History, e) = [k \in 1 .. n |-> Append(History, e)[k]]
  <2> HIDE DEF S
  <2>1. PICK H : H = Append(History, e)
    OBVIOUS
  <2>2. H \in [1 .. n -> S]
    BY <1>7, <2>1, LenProperties
  <2> QED
    BY <2>1, <2>2
<1>9. \A k \in 1 .. n : Append(History, e)[k] = Told(k)'
  BY <1>0, <1>5, <1>7
<1> QED
  BY <1>4, <1>8, <1>9

\* A step of the queue raises one problem, settles one, or does neither.
LEMMA StepIsLifecycle ==
  ASSUME QueueInv, TurnsInv, [Next]_queueVars
  PROVE  \/ \E f \in Problems : Lifecycle!Raise(f) \/ Lifecycle!Settle(f)
         \/ UNCHANGED History
<1>0. TypeOK /\ OneOpenRequest /\ OneOutcomeEach
  BY DEF QueueInv
<1>1. CASE UNCHANGED file
  BY <1>1 DEF History, Told
<1>2. ASSUME NEW f \in Problems, OutstandingFor(f) = {},
             file' = Append(file, [kind |-> "request", problem |-> f])
      PROVE  Lifecycle!Raise(f)
  <2> DEFINE rec == [kind |-> "request", problem |-> f]
             e == [act |-> "raise", problem |-> f]
  <2>1. rec \in Record
    BY DEF Record
  <2>6. PICK n : n = Len(file) + 1
    OBVIOUS
  <2>2. file'[n] = rec
    BY <1>0, <1>2, <2>1, <2>6, AppendShape
  <2>3. Told(n)' = e
    BY <2>2 DEF Told
  <2>4. History' = Append(History, e)
    BY <1>2, <2>1, <2>3, <2>6, HistoryAppended
  <2>5. ~Lifecycle!Open(f)
    BY <1>2, OpenIsOutstanding
  <2> QED
    BY <2>4, <2>5 DEF Lifecycle!Raise, Lifecycle!Raised, History
<1>3. ASSUME NEW r \in Outstanding, file' = Append(file, [kind |-> "outcome", request |-> r])
      PROVE  \E f \in Problems : Lifecycle!Settle(f)
  <2>7. PICK n, f : n = Len(file) + 1 /\ f = file[r].problem
    OBVIOUS
  <2> DEFINE rec == [kind |-> "outcome", request |-> r]
             e == [act |-> "settle", problem |-> f]
  <2>1. f \in Problems /\ r \in DOMAIN file /\ rec \in Record
    BY <1>0, <2>7, RecordFacts DEF Outstanding, Requests, Record
  <2>2. file'[n] = rec /\ file'[r] = file[r]
    BY <1>0, <1>3, <2>1, <2>7, AppendShape
  <2>3. Told(n)' = e
    BY <2>2, <2>7 DEF Told
  <2>4. History' = Append(History, e)
    BY <1>3, <2>1, <2>3, <2>7, HistoryAppended
  <2>5. r \in OutstandingFor(f)
    BY <2>7 DEF OutstandingFor
  <2>6. Lifecycle!Open(f)
    BY <2>1, <2>5, OpenIsOutstanding
  <2> QED
    BY <2>1, <2>4, <2>6 DEF Lifecycle!Settle, Lifecycle!Settled, History
<1> QED
  BY <1>1, <1>2, <1>3, StepWrites

\* The file, its lock and its processes keep an append-only history in which the
\* requests and the outcomes of each problem take turns.
THEOREM QueueKeepsLifecycle == Spec => KeepsLifecycle
<1>1. Init => Lifecycle!Init /\ TurnsInv
  BY DEF Init, Lifecycle!Init, TurnsInv, Requests
<1>2. QueueInv /\ TurnsInv /\ [Next]_queueVars =>
        [Lifecycle!Next]_[k \in DOMAIN file |-> Told(k)]
  BY StepIsLifecycle DEF Lifecycle!Next, History
<1> QED
  BY <1>1, <1>2, QueueInvariant, TurnsStep, PTL DEF Spec, KeepsLifecycle, Lifecycle!Spec
=============================================================================
