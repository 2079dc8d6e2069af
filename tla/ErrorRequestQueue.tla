--------------------------- MODULE ErrorRequestQueue ---------------------------
(***************************************************************************)
(* The queue of error requests of one strategy                             *)
(* (src/src/trade_alerts/error_request_queue.py): a JSONL file to which the*)
(* strategy, the repair robot and the operator's tools append requests and *)
(* their outcomes, each reading the file first under an exclusive lock.    *)
(*                                                                         *)
(* A process may die at any point, also in the middle of a line.  The lock *)
(* goes with it; a torn line stays, and every reader then refuses.         *)
(***************************************************************************)
EXTENDS Naturals, Sequences

CONSTANTS
  Problems,    \* fingerprints of (project, code, evidence)
  Processes,
  Nobody,      \* who holds a free lock
  MaxRecords   \* bound: no operation begins once the file has this many records

ASSUME QueueAssumption == Nobody \notin Processes /\ MaxRecords \in Nat

VARIABLES
  file,  \* the complete records, oldest first
  tail,  \* how the file ends, see Tails
  lock,  \* the holder of the .lock file
  proc   \* proc[p]: the operation p has begun, if any

queueVars == <<file, tail, lock, proc>>

\* The last line is whole, lacks its newline only, or is not JSON.
Tails == {"whole", "bare", "broken"}

\* A request is identified by its position, an outcome names the request it closes.
Record == [kind : {"request"}, problem : Problems] \cup [kind : {"outcome"}, request : Nat]

Proc == [pc : {"idle"}] \cup [pc : {"open", "append_request"}, problem : Problems]
                        \cup [pc : {"close", "append_outcome"}, request : Nat]
Idle == [pc |-> "idle"]

Requests == {r \in DOMAIN file : file[r].kind = "request"}
Closed   == {file[k].request : k \in {n \in DOMAIN file : file[n].kind = "outcome"}}
Outstanding == Requests \ Closed
OutstandingFor(f) == {r \in Outstanding : file[r].problem = f}

-----------------------------------------------------------------------------
Init == /\ file = <<>>
        /\ tail = "whole"
        /\ lock = Nobody
        /\ proc = [p \in Processes |-> Idle]

\* exclusive_log_lock: whoever comes second waits.
Begin(p, op) ==
  /\ proc[p].pc = "idle" /\ lock = Nobody
  /\ Len(file) < MaxRecords
  /\ lock' = p
  /\ proc' = [proc EXCEPT ![p] = op]
  /\ UNCHANGED <<file, tail>>

\* Mutant of BeginOpen: the file is read without taking the lock.
BeginOpenUnlocked(p) ==
  /\ proc[p].pc = "idle" /\ Len(file) < MaxRecords
  /\ \E f \in Problems : proc' = [proc EXCEPT ![p] = [pc |-> "open", problem |-> f]]
  /\ UNCHANGED <<file, tail, lock>>

BeginOpen(p)  == \E f \in Problems : Begin(p, [pc |-> "open", problem |-> f])

BeginClose(p) == \E r \in 1 .. MaxRecords : Begin(p, [pc |-> "close", request |-> r])

\* The operation ends, with a result or an error, and the lock is released.
Leave(p) == /\ proc' = [proc EXCEPT ![p] = Idle]
            /\ lock' = IF lock = p THEN Nobody ELSE lock

Known(f) == OutstandingFor(f) # {}

\* Mutant of LookForOpen: lines that are not JSON are skipped.
LookForOpenSkipping(p) ==
  /\ proc[p].pc = "open"
  /\ IF Known(proc[p].problem)
       THEN Leave(p)
       ELSE proc' = [proc EXCEPT ![p].pc = "append_request"] /\ UNCHANGED lock
  /\ UNCHANGED <<file, tail>>

\* outstanding_error_requests inside open_error_request: the request already open for
\* this problem is the answer, and a torn line is an error.
LookForOpen(p) ==
  /\ proc[p].pc = "open"
  /\ IF tail = "broken" \/ Known(proc[p].problem)
       THEN Leave(p)
       ELSE proc' = [proc EXCEPT ![p].pc = "append_request"] /\ UNCHANGED lock
  /\ UNCHANGED <<file, tail>>

\* append_jsonl: one line behind whatever is there.  Behind a line without its
\* newline it makes one line of the two, which nobody can read.
AppendLine(r) == IF tail = "whole" THEN file' = Append(file, r) /\ tail' = "whole"
                                   ELSE file' = file /\ tail' = "broken"

\* The line of the operation that p is about to append.
Line(p) == IF proc[p].pc = "append_request"
             THEN [kind |-> "request", problem |-> proc[p].problem]
             ELSE [kind |-> "outcome", request |-> proc[p].request]

AppendRequest(p) ==
  /\ proc[p].pc = "append_request"
  /\ AppendLine(Line(p))
  /\ Leave(p)

\* Mutant of MayClose: any request may be closed, a closed one too.
MayCloseAny(r) == r \in Requests

MayClose(r) == r \in Outstanding

\* record_request_outcome: an unknown or closed request, or a torn line, is an error.
LookForClose(p) ==
  /\ proc[p].pc = "close"
  /\ IF tail = "broken" \/ ~MayClose(proc[p].request)
       THEN Leave(p)
       ELSE proc' = [proc EXCEPT ![p].pc = "append_outcome"] /\ UNCHANGED lock
  /\ UNCHANGED <<file, tail>>

AppendOutcome(p) ==
  /\ proc[p].pc = "append_outcome"
  /\ AppendLine(Line(p))
  /\ Leave(p)

\* The process dies.
Die(p) == proc[p].pc # "idle" /\ Leave(p) /\ UNCHANGED <<file, tail>>

\* It dies in the middle of its write and leaves part of the line, or all of it but
\* the newline.
DieWriting(p) ==
  /\ proc[p].pc \in {"append_request", "append_outcome"}
  /\ Leave(p)
  /\ \/ tail' = "broken" /\ UNCHANGED file
     \/ tail = "whole" /\ tail' = "bare" /\ file' = Append(file, Line(p))

Next == \E p \in Processes :
          \/ BeginOpen(p) \/ LookForOpen(p) \/ AppendRequest(p)
          \/ BeginClose(p) \/ LookForClose(p) \/ AppendOutcome(p)
          \/ Die(p) \/ DieWriting(p)

Spec == Init /\ [][Next]_queueVars

-----------------------------------------------------------------------------
TypeOK == /\ file \in Seq(Record)
          /\ tail \in Tails
          /\ lock \in Processes \cup {Nobody}
          /\ proc \in [Processes -> Proc]

\* One problem never has two open requests, however many processes report it at once.
OneOpenRequest == \A r, s \in Outstanding : file[r].problem = file[s].problem => r = s

\* Every outcome closes a request that was recorded before it, and no request is
\* closed twice: the history never says two things about one remedy.
OneOutcomeEach ==
  \A k \in DOMAIN file :
    file[k].kind = "outcome" =>
      /\ file[k].request \in Requests /\ file[k].request < k
      /\ \A l \in DOMAIN file :
           (file[l].kind = "outcome" /\ file[l].request = file[k].request) => l = k

\* Nothing is appended to a queue that cannot be read: the broken line stays the last
\* one, where it can be mended without losing a record.
BrokenIsRefused ==
  \A p \in Processes :
    proc[p].pc \in {"append_request", "append_outcome"} => tail # "broken"

\* A record of the file: a problem is raised, or the problem of a request is settled.
Told(k) == IF file[k].kind = "request" THEN [act |-> "raise", problem |-> file[k].problem]
           ELSE [act |-> "settle", problem |-> file[file[k].request].problem]

\* What callers may rely on: record by record, each problem is raised and settled in
\* turn, whatever processes overlap and die.
Lifecycle == INSTANCE RequestLifecycle WITH history <- [k \in DOMAIN file |-> Told(k)]
KeepsLifecycle == Lifecycle!Spec
=============================================================================
