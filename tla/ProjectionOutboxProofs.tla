------------------------ MODULE ProjectionOutboxProofs ------------------------
(***************************************************************************)
(* Proofs about ProjectionOutbox, for every set of projections, trades and *)
(* dispatchers, every answer table and every parking limit.                *)
(*                                                                         *)
(* The file invariants are inductive only together with the lock: a        *)
(* dispatcher that submits holds the lock and its intent is the head, and  *)
(* what a requeue still has to append has no waiting or confirmed copy.    *)
(***************************************************************************)
EXTENDS ProjectionOutbox, SequenceTheorems, TLAPS

FileInv == HeadOfLine /\ OneLiveCopy /\ ConfirmedIsFinal /\ OneOutcome

\* The lock is held by whoever is between a read of the file and its record.
LockInv == /\ \A w \in Workers : job[w].phase = "sending" <=> lock = w
           /\ requeuing # {} => lock = Operator

\* A refusal a dispatcher still has to report is on disk, in nobody else's hands
\* and not in the event log yet.
RefusalInv ==
  \A w \in Workers :
    (job[w].phase = "recorded" /\ job[w].refusal # "none") =>
      /\ "REJECTED" \in outbox[job[w].intent].seen
      /\ outbox[job[w].intent].code = job[w].refusal
      /\ \A k \in DOMAIN parkLog : parkLog[k][1] # job[w].intent
      /\ \A v \in Workers :
           (v # w /\ job[v].phase = "recorded" /\ job[v].refusal # "none")
             => job[v].intent # job[w].intent

IInv == /\ TypeOK /\ FileInv /\ LockInv /\ SubmitsTheHead
        /\ RequeueResumable /\ RefusalInv /\ ParkLineOnce

-----------------------------------------------------------------------------
\* The two ways an action changes the file: it amends the head with one more
\* dispatch record, or it appends a fresh copy.
AmendHead(i, s, c) ==
  /\ IsHead(i)
  /\ outbox' = [outbox EXCEPT ![i] = Recorded(i, s, c)]

AppendCopy(p) ==
  /\ \A i \in Copies(p) : ~Live(i)
  /\ ~Confirmed(p)
  /\ outbox' = Append(outbox, NewEntry(p))

\* What an amended file looks like, entry by entry.
LEMMA AmendShape ==
  ASSUME TypeOK, NEW i, NEW s \in Statuses, NEW c \in Codes, AmendHead(i, s, c)
  PROVE  /\ outbox' \in Seq(Entry)
         /\ Intents' = Intents
         /\ i \in Intents
         /\ \A j \in Intents : j # i => outbox'[j] = outbox[j]
         /\ outbox'[i].proj = outbox[i].proj
         /\ outbox'[i].seen = outbox[i].seen \cup {s}
         /\ outbox'[i].code = c
<1>1. i \in Intents /\ outbox \in Seq(Entry) /\ i \in 1 .. Len(outbox)
  BY DEF AmendHead, IsHead, TypeOK, Intents
<1>2. outbox[i] \in Entry
  BY <1>1, ElementOfSeq
<1>3. ConsecutiveAnswers(i, c) \in Nat
  BY <1>2 DEF ConsecutiveAnswers, Entry
<1>4. /\ Recorded(i, s, c) \in Entry
      /\ Recorded(i, s, c).proj = outbox[i].proj
      /\ Recorded(i, s, c).seen = outbox[i].seen \cup {s}
      /\ Recorded(i, s, c).code = c
  <2> DEFINE n == IF ParkAfter(ActionOf[outbox[i].proj], c) = 0
                  THEN 0 ELSE ConsecutiveAnswers(i, c) + 1
  <2>1. n \in Nat
    BY <1>3
  <2> HIDE DEF n
  <2>2. Recorded(i, s, c) = [outbox[i] EXCEPT !.seen = @ \cup {s}, !.code = c, !.run = n]
    BY DEF Recorded, n
  <2> QED
    BY <1>2, <2>1, <2>2 DEF Entry
<1> HIDE DEF Recorded
<1> QED
  BY <1>1, <1>4, ExceptSeq DEF AmendHead, Intents

\* What an extended file looks like.
LEMMA AppendShape ==
  ASSUME TypeOK, NEW p \in Projections, AppendCopy(p)
  PROVE  /\ outbox' \in Seq(Entry)
         /\ Len(outbox) \in Nat
         /\ Intents = 1 .. Len(outbox)
         /\ Intents' = 1 .. Len(outbox) + 1
         /\ \A j \in Intents : outbox'[j] = outbox[j]
         /\ outbox'[Len(outbox) + 1] = NewEntry(p)
<1>1. NewEntry(p) \in Entry
  BY DEF NewEntry, Entry, Codes, ParkedCodes
<1>2. outbox \in Seq(Entry)
  BY DEF TypeOK
<1> QED
  BY <1>1, <1>2, AppendProperties, LenProperties DEF AppendCopy, Intents

LEMMA AmendKeepsFileInv ==
  ASSUME TypeOK, FileInv, NEW i, NEW s \in Statuses, NEW c \in Codes, AmendHead(i, s, c)
  PROVE  FileInv'
<1>a. /\ Intents' = Intents
      /\ i \in Intents
      /\ \A j \in Intents : j # i => outbox'[j] = outbox[j]
      /\ outbox'[i].proj = outbox[i].proj
      /\ outbox'[i].seen = outbox[i].seen \cup {s}
  BY AmendShape
<1>b. \A j \in Intents : outbox'[j].proj = outbox[j].proj
  BY <1>a
<1>0. Live(i) /\ \A j \in Intents : j < i => ~Live(j)
  BY DEF AmendHead, IsHead
<1>1. \A j \in Intents : j # i => (Live(j)' <=> Live(j))
  BY <1>a DEF Live
<1>2. Live(i)' => Live(i)
  BY <1>0
<1>3. Intents \subseteq Nat
  BY LenProperties DEF TypeOK, Intents
<1>4. HeadOfLine'
  <2> SUFFICES ASSUME NEW a \in Intents, NEW b \in Intents, a < b, Live(a)'
               PROVE  outbox'[b].seen = {}
    BY <1>a DEF HeadOfLine
  <2>1. Live(a)
    BY <1>1, <1>2
  <2>2. b # i
    BY <1>0, <1>3, <2>1
  <2> QED
    BY <1>a, <2>1, <2>2 DEF FileInv, HeadOfLine
<1>5. OneLiveCopy'
  <2> SUFFICES ASSUME NEW a \in Intents, NEW b \in Intents, Live(a)', Live(b)',
                      outbox'[a].proj = outbox'[b].proj
               PROVE  a = b
    BY <1>a DEF OneLiveCopy
  <2>1. Live(a) /\ Live(b)
    BY <1>1, <1>2
  <2>2. outbox[a].proj = outbox[b].proj
    BY <1>b
  <2> QED
    BY <2>1, <2>2 DEF FileInv, OneLiveCopy
<1>6. ConfirmedIsFinal'
  <2> SUFFICES ASSUME NEW a \in Intents, NEW b \in Intents, a # b,
                      outbox'[a].proj = outbox'[b].proj, "CONFIRMED" \in outbox'[a].seen
               PROVE  ~Live(b)' /\ "CONFIRMED" \notin outbox'[b].seen
    BY <1>a DEF ConfirmedIsFinal
  <2>1. outbox[a].proj = outbox[b].proj
    BY <1>b
  <2>2. CASE a = i
    <3>1. ~Live(b)
      BY <1>a, <1>0, <2>1, <2>2 DEF FileInv, OneLiveCopy
    <3>2. "CONFIRMED" \notin outbox[b].seen
      BY <1>a, <1>0, <2>1, <2>2 DEF FileInv, ConfirmedIsFinal
    <3> QED
      BY <1>a, <1>1, <2>2, <3>1, <3>2
  <2>3. CASE a # i
    <3>1. "CONFIRMED" \in outbox[a].seen
      BY <1>a, <2>3
    <3>2. ~Live(b) /\ "CONFIRMED" \notin outbox[b].seen
      BY <2>1, <3>1 DEF FileInv, ConfirmedIsFinal
    <3>3. b # i
      BY <3>2, <1>0
    <3> QED
      BY <1>a, <1>1, <3>2, <3>3
  <2> QED
    BY <2>2, <2>3
<1>7. OneOutcome'
  <2>1. ~(Terminal \subseteq outbox'[i].seen)
    BY <1>a, <1>0 DEF Live, Terminal
  <2> QED
    BY <1>a, <2>1 DEF FileInv, OneOutcome
<1> QED
  BY <1>4, <1>5, <1>6, <1>7 DEF FileInv

LEMMA AppendKeepsFileInv ==
  ASSUME TypeOK, FileInv, NEW p \in Projections, AppendCopy(p)
  PROVE  FileInv'
<1> DEFINE n == Len(outbox) + 1
<1>a. /\ n \in Nat
      /\ Intents = 1 .. n - 1
      /\ Intents' = 1 .. n
      /\ \A j \in Intents : outbox'[j] = outbox[j]
      /\ outbox'[n] = NewEntry(p)
  BY AppendShape
<1>b. outbox'[n].proj = p /\ outbox'[n].seen = {} /\ n \notin Intents
  BY <1>a DEF NewEntry
<1> HIDE DEF n
<1>c. \A j \in Intents' : j \in Intents \/ j = n
  BY <1>a
<1>1. \A j \in Intents : Live(j)' <=> Live(j)
  BY <1>a DEF Live
<1>2. \A j \in Intents : outbox[j].proj = p => ~Live(j) /\ "CONFIRMED" \notin outbox[j].seen
  BY DEF AppendCopy, Copies, Confirmed
<1>4. HeadOfLine'
  <2> SUFFICES ASSUME NEW a \in Intents', NEW b \in Intents', a < b, Live(a)'
               PROVE  outbox'[b].seen = {}
    BY DEF HeadOfLine
  <2>1. CASE b = n
    BY <1>b, <2>1
  <2>2. CASE b # n
    <3>1. b \in Intents /\ a \in Intents
      BY <1>a, <1>c, <2>2
    <3> QED
      BY <1>a, <1>1, <3>1 DEF FileInv, HeadOfLine
  <2> QED
    BY <2>1, <2>2
<1>5. OneLiveCopy'
  <2> SUFFICES ASSUME NEW a \in Intents', NEW b \in Intents', Live(a)', Live(b)',
                      outbox'[a].proj = outbox'[b].proj
               PROVE  a = b
    BY DEF OneLiveCopy
  <2>1. CASE a \in Intents /\ b \in Intents
    BY <1>a, <1>1, <2>1 DEF FileInv, OneLiveCopy
  <2>2. CASE a = n /\ b \in Intents
    BY <1>a, <1>b, <1>1, <1>2, <2>2
  <2>3. CASE b = n /\ a \in Intents
    BY <1>a, <1>b, <1>1, <1>2, <2>3
  <2> QED
    BY <1>c, <2>1, <2>2, <2>3
<1>6. ConfirmedIsFinal'
  <2> SUFFICES ASSUME NEW a \in Intents', NEW b \in Intents', a # b,
                      outbox'[a].proj = outbox'[b].proj, "CONFIRMED" \in outbox'[a].seen
               PROVE  ~Live(b)' /\ "CONFIRMED" \notin outbox'[b].seen
    BY DEF ConfirmedIsFinal
  <2>1. a \in Intents
    BY <1>b, <1>c
  <2>2. b \in Intents
    BY <1>a, <1>b, <1>c, <1>2, <2>1
  <2> QED
    BY <1>a, <1>1, <2>1, <2>2 DEF FileInv, ConfirmedIsFinal
<1>7. OneOutcome'
  BY <1>a, <1>b, <1>c DEF FileInv, OneOutcome, Terminal
<1> QED
  BY <1>4, <1>5, <1>6, <1>7 DEF FileInv

-----------------------------------------------------------------------------
(* Every action that touches the file is one of the two.                   *)

LEMMA AnswerAmends ==
  ASSUME IInv, NEW w \in Workers, Answer(w)
  PROVE  /\ lock = w /\ lock' = Nobody
         /\ \E s \in Statuses, c \in Codes :
              /\ AmendHead(job[w].intent, s, c)
              /\ job' = [job EXCEPT ![w] =
                   Pass("recorded", job[w].intent, IF s = "REJECTED" THEN c ELSE "none")]
<1> DEFINE i == job[w].intent
<1>1. IsHead(i) /\ lock = w
  BY DEF Answer, IInv, SubmitsTheHead, LockInv
<1>2. PICK ans \in Answers[ActionOf[outbox[i].proj]] : RecordAnswer(w, ans[1], ans[2])
  BY DEF Answer
<1>3. ActionOf[outbox[i].proj] \in Actions
  <2>1. outbox[i] \in Entry
    BY <1>1, ElementOfSeq DEF IInv, TypeOK, IsHead, Intents
  <2> QED
    BY <2>1, OutboxAssumption, LedgerAssumption DEF Entry
<1>4. ans[1] \in Statuses /\ ans[2] \in Codes
  BY <1>2, <1>3, OutboxAssumption, LedgerAssumption
<1> DEFINE s == IF Parks(i, ans[1], ans[2]) THEN "REJECTED" ELSE ans[1]
           c == IF Parks(i, ans[1], ans[2]) THEN ParkedCode(ans[2]) ELSE ans[2]
<1>5. s \in Statuses /\ c \in Codes
  BY <1>4 DEF Statuses, Codes, ParkedCodes, ParkedCode
<1>6. /\ outbox' = [outbox EXCEPT ![i] = Recorded(i, s, c)]
      /\ job' = [job EXCEPT ![w] = Pass("recorded", i, IF s = "REJECTED" THEN c ELSE "none")]
      /\ lock' = Nobody
  BY <1>2 DEF RecordAnswer
<1> HIDE DEF s, c
<1> QED
  BY <1>1, <1>5, <1>6 DEF AmendHead

LEMMA RequeueAppends ==
  ASSUME IInv, RequeueNext
  PROVE  /\ lock = Operator /\ requeuing # {}
         /\ \E p \in requeuing : AppendCopy(p) /\ requeuing' = requeuing \ {p}
<1>1. PICK i \in Intents : /\ outbox[i].proj \in requeuing
                           /\ outbox' = Append(outbox, NewEntry(outbox[i].proj))
                           /\ requeuing' = requeuing \ {outbox[i].proj}
  BY DEF RequeueNext
<1> QED
  BY <1>1 DEF RequeueNext, IInv, RequeueResumable, AppendCopy

LEMMA EnqueueAppends ==
  ASSUME NEW p \in Projections, Enqueue(p)
  PROVE  AppendCopy(p)
BY DEF Enqueue, AppendCopy, Confirmed

LEMMA RejectAmends ==
  ASSUME IInv, NEW w \in Workers, RejectRebuild(w)
  PROVE  \E i \in Intents :
           /\ AmendHead(i, "REJECTED", "rehydration_invalid")
           /\ job' = [job EXCEPT ![w] = Pass("recorded", i, "rehydration_invalid")]
BY DEF RejectRebuild, AmendHead

-----------------------------------------------------------------------------
(* Each kind of file change preserves the whole inductive invariant.       *)

\* A step that leaves the file alone leaves every file invariant alone.
LEMMA SameFile ==
  ASSUME FileInv, outbox' = outbox
  PROVE  /\ FileInv'
         /\ Intents' = Intents
         /\ \A i : Live(i)' = Live(i) /\ IsHead(i)' = IsHead(i)
BY DEF FileInv, HeadOfLine, OneLiveCopy, ConfirmedIsFinal, OneOutcome, Live, IsHead, Intents

LEMMA LockFacts ==
  ASSUME IInv
  PROVE  /\ lock \notin Workers => \A w \in Workers : job[w].phase # "sending"
         /\ lock # Operator => requeuing = {}
         /\ Nobody \notin Workers /\ Operator \notin Workers /\ Nobody # Operator
BY OutboxAssumption, LedgerAssumption DEF IInv, LockInv

\* Appending a fresh copy while no dispatcher submits.
LEMMA AppendKeepsIInv ==
  ASSUME IInv, NEW p \in Projections, AppendCopy(p), lock \notin Workers,
         UNCHANGED <<job, parkLog>>, lock' \in {lock, Nobody},
         requeuing' \subseteq requeuing \ {p}, requeuing' # {} => lock' = Operator
  PROVE  IInv'
<1> DEFINE n == Len(outbox) + 1
<1>a. /\ n \in Nat
      /\ Intents = 1 .. n - 1
      /\ Intents' = 1 .. n
      /\ \A j \in Intents : outbox'[j] = outbox[j]
      /\ outbox'[n] = NewEntry(p)
      /\ outbox' \in Seq(Entry)
  BY AppendShape DEF IInv
<1>b. outbox'[n].proj = p
  BY <1>a DEF NewEntry
<1> HIDE DEF n
<1>c. \A j \in Intents : j \in Intents' /\ Live(j)' = Live(j)
  BY <1>a DEF Live
<1>d. \A w \in Workers : job[w].phase # "sending"
  BY LockFacts
<1>1. TypeOK'
  BY <1>a, <1>c DEF IInv, TypeOK
<1>2. FileInv'
  BY AppendKeepsFileInv DEF IInv
<1>3. LockInv'
  BY <1>d, LockFacts DEF LockInv
<1>4. SubmitsTheHead'
  BY <1>d DEF SubmitsTheHead
<1>5. RequeueResumable'
  <2> SUFFICES ASSUME NEW q \in requeuing, q # p
               PROVE  /\ Copies(q)' # {} /\ ~Confirmed(q)'
                      /\ \A i \in Copies(q)' : ~Live(i)'
    BY DEF RequeueResumable
  <2>1. Copies(q)' = Copies(q)
    BY <1>a, <1>b DEF Copies
  <2>2. Copies(q) \subseteq Intents
    BY DEF Copies
  <2> QED
    BY <1>a, <1>c, <2>1, <2>2 DEF IInv, RequeueResumable, Confirmed
<1>6. RefusalInv'
  <2>1. \A w \in Workers : job[w].phase = "recorded" => job[w].intent \in Intents
    BY DEF IInv, TypeOK
  <2> QED
    BY <1>a, <2>1 DEF IInv, RefusalInv
<1>7. ParkLineOnce'
  BY <1>a, <1>c DEF IInv, ParkLineOnce
<1> QED
  BY <1>1, <1>2, <1>3, <1>4, <1>5, <1>6, <1>7 DEF IInv

\* Recording an outcome for the head, by the dispatcher that holds the lock or
\* that finds it free.
LEMMA AmendKeepsIInv ==
  ASSUME IInv, NEW w \in Workers, NEW i, NEW s \in Statuses, NEW c \in Codes,
         AmendHead(i, s, c), lock \in {w, Nobody}, lock' = Nobody,
         job[w].phase \in {"idle", "sending"},
         job' = [job EXCEPT ![w] = Pass("recorded", i, IF s = "REJECTED" THEN c ELSE "none")],
         UNCHANGED <<requeuing, parkLog>>
  PROVE  IInv'
<1> DEFINE r == IF s = "REJECTED" THEN c ELSE "none"
<1>a. /\ outbox' \in Seq(Entry)
      /\ Intents' = Intents
      /\ i \in Intents
      /\ \A j \in Intents : j # i => outbox'[j] = outbox[j]
      /\ outbox'[i].seen = outbox[i].seen \cup {s}
      /\ outbox'[i].code = c
  BY AmendShape DEF IInv
<1>b. "REJECTED" \notin outbox[i].seen
  BY DEF AmendHead, IsHead, Live, Terminal
<1>c. i \in Nat
  BY <1>a, LenProperties DEF IInv, TypeOK, Intents
<1>d. r \in Codes
  BY DEF Codes
<1>e. /\ job' \in [Workers -> Jobs]
      /\ job'[w] = Pass("recorded", i, r)
      /\ \A v \in Workers : v # w => job'[v] = job[v]
  BY <1>c, <1>d DEF IInv, TypeOK, Pass, Jobs
<1>f. job'[w].phase = "recorded" /\ job'[w].intent = i /\ job'[w].refusal = r
  BY <1>e DEF Pass
<1> HIDE DEF r
<1>g. \A v \in Workers : job'[v].phase # "sending"
  <2>1. \A v \in Workers : v # w => job[v].phase # "sending"
    BY LockFacts DEF IInv, LockInv
  <2> QED
    BY <1>e, <1>f, <2>1
<1>h. requeuing = {}
  BY LockFacts
<1>1. TypeOK'
  BY <1>a, <1>e, <1>f, <1>h DEF IInv, TypeOK
<1>2. FileInv'
  BY AmendKeepsFileInv DEF IInv
<1>3. LockInv'
  BY <1>g, <1>h, LockFacts DEF LockInv
<1>4. SubmitsTheHead'
  BY <1>g DEF SubmitsTheHead
<1>5. RequeueResumable'
  BY <1>h DEF RequeueResumable
<1>6. ParkLineOnce'
  BY <1>a, <1>b DEF IInv, ParkLineOnce
<1>7. \A k \in DOMAIN parkLog : parkLog[k][1] # i
  BY <1>b DEF IInv, ParkLineOnce
<1>8. \A v \in Workers : (v # w /\ job'[v].phase = "recorded" /\ job'[v].refusal # "none")
        => /\ job'[v].intent # i
           /\ job'[v].intent \in Intents
           /\ outbox'[job'[v].intent] = outbox[job[v].intent]
  BY <1>a, <1>b, <1>e DEF IInv, RefusalInv, TypeOK
<1>9. r # "none" => "REJECTED" \in outbox'[i].seen /\ outbox'[i].code = r
  BY <1>a DEF r
<1>10. RefusalInv'
  <2> SUFFICES ASSUME NEW v \in Workers, job'[v].phase = "recorded", job'[v].refusal # "none"
               PROVE  /\ "REJECTED" \in outbox'[job'[v].intent].seen
                      /\ outbox'[job'[v].intent].code = job'[v].refusal
                      /\ \A k \in DOMAIN parkLog : parkLog[k][1] # job'[v].intent
                      /\ \A u \in Workers :
                           (u # v /\ job'[u].phase = "recorded" /\ job'[u].refusal # "none")
                             => job'[u].intent # job'[v].intent
    BY DEF RefusalInv
  <2>1. CASE v = w
    BY <1>f, <1>7, <1>8, <1>9, <2>1
  <2>2. CASE v # w
    BY <1>e, <1>f, <1>8, <2>2 DEF IInv, RefusalInv
  <2> QED
    BY <2>1, <2>2
<1> QED
  BY <1>1, <1>2, <1>3, <1>4, <1>5, <1>6, <1>10 DEF IInv

-----------------------------------------------------------------------------
(* Steps that leave the file alone.                                        *)

\* What such a step has to show: the facts of the inductive invariant that are
\* about the other variables.
LEMMA FileAlone ==
  ASSUME IInv, outbox' = outbox
  PROVE  /\ FileInv'
         /\ Intents' = Intents
         /\ \A i \in Intents : IsHead(i)' = IsHead(i)
         /\ requeuing' = requeuing => RequeueResumable'
         /\ parkLog' = parkLog => ParkLineOnce'
<1>1. FileInv' /\ Intents' = Intents /\ \A i : Live(i)' = Live(i) /\ IsHead(i)' = IsHead(i)
  BY SameFile DEF IInv
<1>2. requeuing' = requeuing => RequeueResumable'
  <2> SUFFICES ASSUME requeuing' = requeuing PROVE RequeueResumable'
    OBVIOUS
  <2>1. \A p : Copies(p)' = Copies(p) /\ Confirmed(p)' = Confirmed(p)
    BY <1>1 DEF Copies, Confirmed
  <2> QED
    BY <1>1, <2>1 DEF IInv, RequeueResumable
<1>3. parkLog' = parkLog => ParkLineOnce'
  BY <1>1 DEF IInv, ParkLineOnce
<1> QED
  BY <1>1, <1>2, <1>3

\* A pass begins: the lock is free, so nobody else submits and no requeue runs.
LEMMA BeginDispatchStep ==
  ASSUME IInv, NEW w \in Workers, BeginDispatch(w)
  PROVE  IInv'
<1>1. PICK i \in Intents : IsHead(i) /\ job' = [job EXCEPT ![w] = Pass("sending", i, "none")]
  BY DEF BeginDispatch
<1>2. /\ lock = Nobody /\ lock' = w /\ outbox' = outbox
      /\ requeuing' = requeuing /\ parkLog' = parkLog
  BY DEF BeginDispatch
<1>3. requeuing = {} /\ \A v \in Workers : job[v].phase # "sending"
  BY <1>2, LockFacts
<1>4. i \in Nat
  BY <1>1, LenProperties DEF IInv, TypeOK, Intents
<1>5. /\ job' \in [Workers -> Jobs]
      /\ job'[w].phase = "sending" /\ job'[w].intent = i
      /\ \A v \in Workers : v # w => job'[v] = job[v]
  BY <1>1, <1>4 DEF IInv, TypeOK, Pass, Jobs, Codes
<1>6. TypeOK'
  BY <1>2, <1>5, FileAlone DEF IInv, TypeOK
<1>7. LockInv'
  BY <1>2, <1>3, <1>5 DEF LockInv
<1>8. SubmitsTheHead'
  BY <1>1, <1>2, <1>3, <1>5, FileAlone DEF SubmitsTheHead
<1>9. RefusalInv'
  BY <1>2, <1>5 DEF IInv, RefusalInv
<1> QED
  BY <1>2, <1>6, <1>7, <1>8, <1>9, FileAlone DEF IInv

\* A pass that leaves the lock to whoever has it: a pause, a finished report, a
\* crash.  Its dispatcher has nothing to report afterwards.
LEMMA EndOfPass ==
  ASSUME IInv, NEW w \in Workers, NEW pass \in Jobs,
         job' = [job EXCEPT ![w] = pass],
         pass.phase \in {"idle", "paused"},
         pass.phase # "idle" => pass.intent \in Intents,
         lock' = IF lock = w THEN Nobody ELSE lock,
         UNCHANGED <<outbox, requeuing, parkLog>>
  PROVE  IInv'
<1>1. /\ job' \in [Workers -> Jobs]
      /\ job'[w] = pass
      /\ \A v \in Workers : v # w => job'[v] = job[v]
  BY DEF IInv, TypeOK
<1>2. TypeOK'
  BY <1>1, FileAlone DEF IInv, TypeOK
<1>3. LockInv'
  BY <1>1, LockFacts DEF IInv, LockInv
<1>4. SubmitsTheHead'
  <2>1. \A v \in Workers : job'[v].phase = "sending" => job'[v] = job[v]
    BY <1>1
  <2> QED
    BY <2>1 DEF IInv, SubmitsTheHead, IsHead, Live, Intents
<1>5. RefusalInv'
  BY <1>1 DEF IInv, RefusalInv
<1> QED
  BY <1>2, <1>3, <1>4, <1>5, FileAlone DEF IInv

\* Reporting a refusal: the line is the first one that names this intent.
LEMMA ReportStep ==
  ASSUME IInv, NEW w \in Workers, Report(w), parkLog' # parkLog
  PROVE  IInv'
<1> DEFINE i == job[w].intent
           c == job[w].refusal
<1>1. /\ job[w].phase = "recorded" /\ IsParkEvent(i, c)
      /\ parkLog' = Append(parkLog, <<i, c>>)
      /\ job' = [job EXCEPT ![w] = Idle]
      /\ outbox' = outbox /\ lock' = lock /\ requeuing' = requeuing
  BY DEF Report
<1>2. c # "none"
  BY <1>1 DEF IsParkEvent, ParkedCodes
<1>3. /\ "REJECTED" \in outbox[i].seen
      /\ outbox[i].code = c
      /\ \A k \in DOMAIN parkLog : parkLog[k][1] # i
      /\ \A v \in Workers : (v # w /\ job[v].phase = "recorded" /\ job[v].refusal # "none")
           => job[v].intent # i
  BY <1>1, <1>2 DEF IInv, RefusalInv
<1>4. i \in Intents /\ i \in Nat /\ c \in Codes
  BY <1>1, LenProperties DEF IInv, TypeOK, Jobs, Intents
<1> HIDE DEF i, c
<1>5. /\ job' \in [Workers -> Jobs]
      /\ job'[w].phase = "idle"
      /\ \A v \in Workers : v # w => job'[v] = job[v]
  BY <1>1 DEF IInv, TypeOK, Idle, Pass, Jobs, Codes
<1> DEFINE n == Len(parkLog) + 1
<1>6. /\ parkLog' \in Seq(Nat \X Codes)
      /\ n \in Nat
      /\ DOMAIN parkLog = 1 .. n - 1
      /\ DOMAIN parkLog' = 1 .. n
      /\ \A k \in DOMAIN parkLog : parkLog'[k] = parkLog[k]
      /\ parkLog'[n] = <<i, c>>
  <2>1. parkLog \in Seq(Nat \X Codes) /\ <<i, c>> \in Nat \X Codes
    BY <1>4 DEF IInv, TypeOK
  <2> QED
    BY <1>1, <2>1, AppendProperties, LenProperties
<1> HIDE DEF n
<1>7. \A k \in DOMAIN parkLog' : k \in DOMAIN parkLog \/ k = n
  BY <1>6
<1>8. TypeOK'
  BY <1>1, <1>5, <1>6, FileAlone DEF IInv, TypeOK
<1>9. LockInv'
  BY <1>1, <1>5 DEF IInv, LockInv
<1>10. SubmitsTheHead'
  BY <1>1, <1>5 DEF IInv, SubmitsTheHead, IsHead, Live, Intents
<1>11. RefusalInv'
  <2> SUFFICES ASSUME NEW v \in Workers, job'[v].phase = "recorded", job'[v].refusal # "none"
               PROVE  /\ "REJECTED" \in outbox[job'[v].intent].seen
                      /\ outbox[job'[v].intent].code = job'[v].refusal
                      /\ \A k \in DOMAIN parkLog' : parkLog'[k][1] # job'[v].intent
                      /\ \A u \in Workers :
                           (u # v /\ job'[u].phase = "recorded" /\ job'[u].refusal # "none")
                             => job'[u].intent # job'[v].intent
    BY <1>1 DEF RefusalInv
  <2>1. v # w /\ job'[v] = job[v]
    BY <1>5
  <2>2. \A k \in DOMAIN parkLog' : parkLog'[k][1] # job'[v].intent
    BY <1>3, <1>6, <1>7, <2>1 DEF IInv, RefusalInv
  <2> QED
    BY <1>5, <2>1, <2>2 DEF IInv, RefusalInv
<1>12. ParkLineOnce'
  <2>1. \A k \in DOMAIN parkLog' :
          /\ parkLog'[k][1] \in Intents
          /\ "REJECTED" \in outbox[parkLog'[k][1]].seen
          /\ outbox[parkLog'[k][1]].code = parkLog'[k][2]
    BY <1>3, <1>4, <1>6, <1>7 DEF IInv, ParkLineOnce
  <2>2. \A k, l \in DOMAIN parkLog' : parkLog'[k][1] = parkLog'[l][1] => k = l
    BY <1>3, <1>6, <1>7 DEF IInv, ParkLineOnce
  <2> QED
    BY <1>1, <2>1, <2>2, FileAlone DEF ParkLineOnce
<1>13. FileInv' /\ RequeueResumable'
  BY <1>1, FileAlone
<1> QED
  BY <1>8, <1>9, <1>10, <1>11, <1>12, <1>13 DEF IInv

\* A requeue begins: what it will append satisfies the resume condition.
LEMMA BeginRequeueStep ==
  ASSUME IInv, NEW t \in Trades, BeginRequeue(t)
  PROVE  IInv'
<1>1. /\ lock = Nobody /\ lock' = Operator /\ requeuing' = Requeueable(t)
      /\ outbox' = outbox /\ job' = job /\ parkLog' = parkLog
  BY DEF BeginRequeue
<1>2. Intents' = Intents /\ \A i : Live(i)' = Live(i) /\ IsHead(i)' = IsHead(i)
  BY <1>1, SameFile DEF IInv
<1>3. \A p : Copies(p)' = Copies(p) /\ Confirmed(p)' = Confirmed(p)
  BY <1>1, <1>2 DEF Copies, Confirmed
<1>4. RequeueResumable'
  BY <1>1, <1>2, <1>3 DEF RequeueResumable, Requeueable
<1>5. TypeOK'
  BY <1>1, <1>2 DEF IInv, TypeOK, Requeueable
<1>6. LockInv'
  BY <1>1, LockFacts DEF IInv, LockInv
<1>7. SubmitsTheHead' /\ RefusalInv'
  BY <1>1, <1>2 DEF IInv, SubmitsTheHead, RefusalInv
<1> QED
  BY <1>1, <1>4, <1>5, <1>6, <1>7, FileAlone DEF IInv

\* The requeue process dies: its remainder is forgotten, the file is not.
LEMMA RequeueCrashStep ==
  ASSUME IInv, RequeueCrash
  PROVE  IInv'
<1>1. /\ lock = Operator /\ lock' = Nobody /\ requeuing' = {}
      /\ outbox' = outbox /\ job' = job /\ parkLog' = parkLog
  BY DEF RequeueCrash
<1>2. Intents' = Intents /\ \A i : IsHead(i)' = IsHead(i)
  BY <1>1, SameFile DEF IInv
<1>3. LockInv'
  BY <1>1, LockFacts DEF IInv, LockInv
<1> QED
  BY <1>1, <1>2, <1>3, FileAlone
  DEF IInv, TypeOK, SubmitsTheHead, RefusalInv, RequeueResumable

-----------------------------------------------------------------------------
(* The invariant, and what follows from it.                                *)

LEMMA InitInv == Init => IInv
<1> SUFFICES ASSUME Init PROVE IInv
  OBVIOUS
<1>1. Intents = {} /\ DOMAIN parkLog = {}
  BY DEF Init, Intents
<1>2. \A w \in Workers : job[w] = Idle
  BY DEF Init
<1>3. TypeOK
  BY <1>2 DEF Init, TypeOK, Idle, Pass, Jobs, Codes
<1>4. FileInv /\ ParkLineOnce
  BY <1>1 DEF FileInv, HeadOfLine, OneLiveCopy, ConfirmedIsFinal, OneOutcome, ParkLineOnce
<1>5. LockInv /\ SubmitsTheHead /\ RefusalInv /\ RequeueResumable
  BY <1>2, OutboxAssumption, LedgerAssumption
  DEF Init, LockInv, SubmitsTheHead, RefusalInv, RequeueResumable, Idle, Pass
<1> QED
  BY <1>3, <1>4, <1>5 DEF IInv

LEMMA DispatcherStep ==
  ASSUME IInv, NEW w \in Workers, Dispatcher(w)
  PROVE  IInv'
<1>1. CASE BeginDispatch(w)
  BY <1>1, BeginDispatchStep
<1>2. CASE Pause(w)
  <2>1. PICK i \in Intents : job' = [job EXCEPT ![w] = Pass("paused", i, "none")]
    BY <1>2 DEF Pause
  <2>2. Pass("paused", i, "none") \in Jobs
    BY <2>1, LenProperties DEF IInv, TypeOK, Intents, Pass, Jobs, Codes
  <2>3. lock # w /\ lock' = lock /\ UNCHANGED <<outbox, requeuing, parkLog>>
    BY <1>2, LockFacts DEF Pause
  <2>4. Pass("paused", i, "none").phase = "paused" /\ Pass("paused", i, "none").intent = i
    BY DEF Pass
  <2> QED
    BY <2>1, <2>2, <2>3, <2>4, EndOfPass
<1>3. CASE RejectRebuild(w)
  <2>1. PICK i \in Intents :
           /\ AmendHead(i, "REJECTED", "rehydration_invalid")
           /\ job' = [job EXCEPT ![w] = Pass("recorded", i, "rehydration_invalid")]
    BY <1>3, RejectAmends
  <2>2. "REJECTED" \in Statuses /\ "rehydration_invalid" \in Codes
    BY DEF Statuses, Codes
  <2> QED
    BY <1>3, <2>1, <2>2, AmendKeepsIInv DEF RejectRebuild
<1>4. CASE Answer(w)
  <2>1. UNCHANGED <<requeuing, parkLog>> /\ job[w].phase = "sending"
    BY <1>4 DEF Answer, RecordAnswer
  <2> QED
    BY <1>4, <2>1, AnswerAmends, AmendKeepsIInv
<1>5. CASE Report(w)
  <2>1. CASE parkLog' # parkLog
    BY <1>5, <2>1, ReportStep
  <2>2. CASE parkLog' = parkLog
    <3>1. lock # w
      BY <1>5 DEF Report, IInv, LockInv
    <3>2. Idle \in Jobs /\ Idle.phase = "idle"
      BY DEF Idle, Pass, Jobs, Codes
    <3> QED
      BY <1>5, <2>2, <3>1, <3>2, EndOfPass DEF Report
  <2> QED
    BY <2>1, <2>2
<1>6. CASE ReportPause(w) \/ Crash(w)
  <2>1. Idle \in Jobs /\ Idle.phase = "idle"
    BY DEF Idle, Pass, Jobs, Codes
  <2>2. ReportPause(w) => lock # w
    BY DEF ReportPause, IInv, LockInv
  <2> QED
    BY <1>6, <2>1, <2>2, EndOfPass DEF ReportPause, Crash
<1> QED
  BY <1>1, <1>2, <1>3, <1>4, <1>5, <1>6 DEF Dispatcher

LEMMA StepKeepsIInv == IInv /\ [Next]_vars => IInv'
<1> SUFFICES ASSUME IInv, [Next]_vars PROVE IInv'
  OBVIOUS
<1>1. CASE \E p \in Projections : Enqueue(p)
  <2>1. PICK p \in Projections : Enqueue(p)
    BY <1>1
  <2>2. requeuing = {} /\ lock \notin Workers
    BY <2>1, LockFacts DEF Enqueue
  <2> QED
    BY <2>1, <2>2, EnqueueAppends, AppendKeepsIInv DEF Enqueue
<1>2. CASE \E w \in Workers : Dispatcher(w)
  BY <1>2, DispatcherStep
<1>3. CASE \E t \in Trades : BeginRequeue(t)
  BY <1>3, BeginRequeueStep
<1>4. CASE RequeueNext
  <2>1. PICK p \in requeuing : AppendCopy(p) /\ requeuing' = requeuing \ {p}
    BY <1>4, RequeueAppends
  <2>2. p \in Projections /\ lock \notin Workers
    BY <1>4, LockFacts DEF IInv, TypeOK, RequeueNext
  <2>3. lock' \in {lock, Nobody} /\ (requeuing' # {} => lock' = Operator)
    BY <1>4 DEF RequeueNext
  <2> QED
    BY <1>4, <2>1, <2>2, <2>3, AppendKeepsIInv DEF RequeueNext
<1>5. CASE RequeueCrash
  BY <1>5, RequeueCrashStep
<1>6. CASE UNCHANGED vars
  BY <1>6, FileAlone DEF vars, IInv, TypeOK, LockInv, SubmitsTheHead, RefusalInv, IsHead,
     Live, Intents
<1> QED
  BY <1>1, <1>2, <1>3, <1>4, <1>5, <1>6 DEF Next

\* The inductive invariant holds in every reachable state: the lock, the pass in
\* each dispatcher's memory and the file agree at every moment.
THEOREM InductiveInvariant == Spec => []IInv
BY InitInv, StepKeepsIInv, PTL DEF Spec

\* Every reachable state is well typed, for every instance.
THEOREM TypeCorrect == Spec => []TypeOK
<1>1. IInv => TypeOK
  BY DEF IInv
<1> QED
  BY <1>1, InductiveInvariant, PTL

\* A confirmed projection is never delivered a second time, and no intent has two
\* outcomes: enqueue, requeue, dispatch and their crashes cannot combine to do it.
THEOREM NoSecondDelivery == Spec => [](ConfirmedIsFinal /\ OneOutcome)
<1>1. IInv => ConfirmedIsFinal /\ OneOutcome
  BY DEF IInv, FileInv
<1> QED
  BY <1>1, InductiveInvariant, PTL

\* The queue holds one waiting copy of a projection at most, and nothing behind a
\* waiting intent has been attempted.
THEOREM QueueIsInOrder == Spec => []QueueInOrder
<1>1. IInv => QueueInOrder
  BY DEF IInv, FileInv, QueueInOrder
<1> QED
  BY <1>1, InductiveInvariant, PTL

\* The intent read before the network call is still the head when the answer is
\* recorded: the lock is held across the submission.
THEOREM SubmissionIsCurrent == Spec => []SubmitsTheHead
<1>1. IInv => SubmitsTheHead
  BY DEF IInv
<1> QED
  BY <1>1, InductiveInvariant, PTL

\* What an interrupted requeue leaves over can be requeued later.
THEOREM RequeueCanResume == Spec => []RequeueResumable
<1>1. IInv => RequeueResumable
  BY DEF IInv
<1> QED
  BY <1>1, InductiveInvariant, PTL

\* The fleet event log never names a parked intent twice and never names one that
\* is still in the queue.
THEOREM OneLinePerPark == Spec => []ParkLineOnce
<1>1. IInv => ParkLineOnce
  BY DEF IInv
<1> QED
  BY <1>1, InductiveInvariant, PTL

\* What a step can do to the file.
FileStep == \/ \E i \in Intents, s \in Statuses, c \in Codes : AmendHead(i, s, c)
            \/ \E p \in Projections : AppendCopy(p)
            \/ outbox' = outbox

\* Every step amends the head, appends a fresh copy or leaves the file alone.
LEMMA FileSteps == ASSUME IInv, [Next]_vars PROVE FileStep
<1>1. CASE \E p \in Projections : Enqueue(p)
  BY <1>1, EnqueueAppends DEF FileStep
<1>2. CASE RequeueNext
  BY <1>2, RequeueAppends DEF FileStep, IInv, TypeOK
<1>3. ASSUME NEW w \in Workers, Dispatcher(w) PROVE FileStep
  <2>1. CASE Answer(w)
    BY <2>1, AnswerAmends DEF FileStep, AmendHead, IsHead
  <2>2. CASE RejectRebuild(w)
    <3>1. "REJECTED" \in Statuses /\ "rehydration_invalid" \in Codes
      BY DEF Statuses, Codes
    <3> QED
      BY <2>2, <3>1, RejectAmends DEF FileStep
  <2>3. CASE BeginDispatch(w) \/ Pause(w) \/ Report(w) \/ ReportPause(w) \/ Crash(w)
    BY <2>3 DEF BeginDispatch, Pause, Report, ReportPause, Crash, FileStep
  <2> QED
    BY <1>3, <2>1, <2>2, <2>3 DEF Dispatcher
<1>4. CASE (\E t \in Trades : BeginRequeue(t)) \/ RequeueCrash \/ UNCHANGED vars
  BY <1>4 DEF BeginRequeue, RequeueCrash, vars, FileStep
<1> QED
  BY <1>1, <1>2, <1>3, <1>4 DEF Next

\* Once an intent has an outcome its entry never changes again.
THEOREM OutcomesAreStable == Spec => OutcomeIsStable
<1> DEFINE Stable == \A i \in Intents : ~Live(i) => outbox'[i] = outbox[i]
<1>1. IInv /\ [Next]_vars => Stable
  <2> SUFFICES ASSUME IInv, [Next]_vars PROVE Stable
    OBVIOUS
  <2>1. ASSUME NEW i, NEW s \in Statuses, NEW c \in Codes, AmendHead(i, s, c) PROVE Stable
    <3>1. \A j \in Intents : j # i => outbox'[j] = outbox[j]
      BY <2>1, AmendShape DEF IInv
    <3> QED
      BY <2>1, <3>1 DEF AmendHead, IsHead
  <2>2. ASSUME NEW p \in Projections, AppendCopy(p) PROVE Stable
    BY <2>2, AppendShape DEF IInv
  <2> QED
    BY <2>1, <2>2, FileSteps DEF FileStep
<1> QED
  BY <1>1, InductiveInvariant, PTL DEF Spec, OutcomeIsStable

-----------------------------------------------------------------------------
(* The outbox implements its contract.                                     *)

\* A dispatch record moves the projection of the head, and no other.
LEMMA AmendProgress ==
  ASSUME IInv, NEW i, NEW s \in Statuses, NEW c \in Codes, AmendHead(i, s, c)
  PROVE  /\ outbox[i].proj \in Projections
         /\ \A q \in Projections : q # outbox[i].proj => Progress(q)' = Progress(q)
         /\ Progress(outbox[i].proj) = "waiting"
         /\ \A q : q = outbox[i].proj => Progress(q)' \in {"waiting", "delivered", "refused"}
<1> DEFINE p == outbox[i].proj
<1>a. /\ Intents' = Intents
      /\ i \in Intents
      /\ \A j \in Intents : j # i => outbox'[j] = outbox[j]
      /\ outbox'[i].proj = outbox[i].proj
      /\ outbox'[i].seen = outbox[i].seen \cup {s}
  BY AmendShape DEF IInv
<1>b. p \in Projections
  <2>1. outbox[i] \in Entry
    BY <1>a, ElementOfSeq DEF IInv, TypeOK, Intents
  <2> QED
    BY <2>1 DEF Entry
<1>c. \A q : Copies(q)' = Copies(q)
  BY <1>a DEF Copies
<1>d. Live(i)
  BY DEF AmendHead, IsHead
<1>e. \A j \in Intents : j # i => Live(j)' = Live(j)
  BY <1>a DEF Live
<1>1. \A q \in Projections : q # p => Progress(q)' = Progress(q)
  <2> SUFFICES ASSUME NEW q \in Projections, q # p PROVE Progress(q)' = Progress(q)
    OBVIOUS
  <2>1. \A j \in Copies(q) : j \in Intents /\ j # i
    BY DEF Copies
  <2>2. Confirmed(q)' = Confirmed(q)
    BY <1>a, <1>c, <2>1 DEF Confirmed
  <2>3. (\E j \in Copies(q) : Live(j))' = (\E j \in Copies(q) : Live(j))
    BY <1>c, <1>e, <2>1
  <2> QED
    BY <1>c, <2>2, <2>3 DEF Progress
<1>2. i \in Copies(p)
  BY <1>a DEF Copies
<1>3. Progress(p) = "waiting"
  BY <1>d, <1>2 DEF Progress
<1>4. \A q : q = p => Progress(q)' \in {"waiting", "delivered", "refused"}
  BY <1>c, <1>2 DEF Progress
<1> QED
  BY <1>b, <1>1, <1>3, <1>4

\* A fresh copy moves its projection to waiting, and no other.
LEMMA AppendProgress ==
  ASSUME IInv, NEW p \in Projections, AppendCopy(p)
  PROVE  /\ \A q \in Projections : q # p => Progress(q)' = Progress(q)
         /\ Progress(p) \in {"unknown", "refused"}
         /\ \A q : q = p => Progress(q)' = "waiting"
<1> DEFINE n == Len(outbox) + 1
<1>a. /\ n \in Nat
      /\ Intents = 1 .. n - 1
      /\ Intents' = 1 .. n
      /\ \A j \in Intents : outbox'[j] = outbox[j]
      /\ outbox'[n] = NewEntry(p)
  BY AppendShape DEF IInv
<1>b. outbox'[n].proj = p /\ outbox'[n].seen = {} /\ n \in Intents'
  BY <1>a DEF NewEntry
<1> HIDE DEF n
<1>1. \A q \in Projections : q # p => Progress(q)' = Progress(q)
  <2> SUFFICES ASSUME NEW q \in Projections, q # p PROVE Progress(q)' = Progress(q)
    OBVIOUS
  <2>1. Copies(q)' = Copies(q) /\ Copies(q) \subseteq Intents
    BY <1>a, <1>b DEF Copies
  <2>2. Confirmed(q)' = Confirmed(q)
    BY <1>a, <2>1 DEF Confirmed
  <2>3. (\E j \in Copies(q) : Live(j))' = (\E j \in Copies(q) : Live(j))
    BY <1>a, <2>1 DEF Live
  <2> QED
    BY <2>1, <2>2, <2>3 DEF Progress
<1>2. Progress(p) \in {"unknown", "refused"}
  BY DEF AppendCopy, Progress
<1>3. \A q : q = p => Progress(q)' = "waiting"
  BY <1>b DEF Progress, Copies, Live
<1> QED
  BY <1>1, <1>2, <1>3

\* The outbox implements DeliveryContract: every step moves one projection along its
\* life, or none.
THEOREM OutboxKeepsContract == Spec => KeepsContract
<1> DEFINE status == [p \in Projections |-> Progress(p)]
<1>1. Init => Contract!Init
  BY DEF Init, Contract!Init, Progress, Copies, Intents
<1>2. IInv /\ [Next]_vars => [Contract!Next]_status
  <2> SUFFICES ASSUME IInv, [Next]_vars PROVE Contract!Next \/ status' = status
    OBVIOUS
  <2>1. ASSUME NEW p \in Projections, NEW s \in Contract!States,
               \A q \in Projections : q # p => Progress(q)' = Progress(q),
               \A q : q = p => Progress(q)' = s,
               s = Progress(p) \/ <<Progress(p), s>> \in Contract!Move
        PROVE  Contract!Next \/ status' = status
    <3>1. status' = [status EXCEPT ![p] = s]
      BY <2>1
    <3>2. status[p] = Progress(p)
      OBVIOUS
    <3>3. CASE s = Progress(p)
      BY <3>1, <3>3
    <3>4. CASE <<Progress(p), s>> \in Contract!Move
      BY <3>1, <3>2, <3>4 DEF Contract!Next, Contract!Advance
    <3> QED
      BY <2>1, <3>3, <3>4
  <2>2. ASSUME NEW i, NEW s \in Statuses, NEW c \in Codes, AmendHead(i, s, c)
        PROVE  Contract!Next \/ status' = status
    BY <2>1, <2>2, AmendProgress DEF Contract!States, Contract!Move
  <2>3. ASSUME NEW p \in Projections, AppendCopy(p) PROVE Contract!Next \/ status' = status
    BY <2>1, <2>3, AppendProgress DEF Contract!States, Contract!Move
  <2>4. ASSUME outbox' = outbox PROVE status' = status
    <3>1. \A p : Progress(p)' = Progress(p)
      BY <2>4 DEF Progress, Copies, Confirmed, Live, Intents
    <3> QED
      BY <3>1
  <2>5. FileStep
    BY FileSteps
  <2> QED
    BY <2>2, <2>3, <2>4, <2>5 DEF FileStep
<1> QED
  BY <1>1, <1>2, InductiveInvariant, PTL DEF Spec, KeepsContract, Contract!Spec
=============================================================================
