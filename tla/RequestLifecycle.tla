--------------------------- MODULE RequestLifecycle ---------------------------
(***************************************************************************)
(* What the error request queue promises: an append-only history in which  *)
(* the requests and the outcomes of each problem take turns                *)
(* (src/src/trade_alerts/error_request_queue.py).                          *)
(***************************************************************************)
EXTENDS Naturals, Sequences

CONSTANT Problems

VARIABLE history  \* what was raised and settled, oldest first

Raised(f)  == [act |-> "raise", problem |-> f]
Settled(f) == [act |-> "settle", problem |-> f]

\* The problem was raised and has not been settled since.
Open(f) == \E k \in DOMAIN history :
             /\ history[k] = Raised(f)
             /\ \A l \in k + 1 .. Len(history) : history[l] # Settled(f)

Init == history = <<>>

Raise(f)  == ~Open(f) /\ history' = Append(history, Raised(f))
Settle(f) == Open(f) /\ history' = Append(history, Settled(f))

Next == \E f \in Problems : Raise(f) \/ Settle(f)

Spec == Init /\ [][Next]_history
=============================================================================
