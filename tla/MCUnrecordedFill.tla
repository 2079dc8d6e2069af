--------------------------- MODULE MCUnrecordedFill ---------------------------
(* A trade with its entry and its exit, and two orders nobody recorded.       *)
EXTENDS UnrecordedFill

CONSTANTS e, x, d, y

McTimeline == <<e, d, x, y>>
McSideOf   == [o \in AllOrders |-> IF o \in {e, d} THEN "entry" ELSE "exit"]

Strategy(style, ids, record, marker, estimate, first, second) ==
  [style |-> style, client_ids |-> ids, record |-> record, marker |-> marker, estimate |-> estimate,
   origin |-> [o \in Orders |-> IF o = d THEN first ELSE second]]

McWorlds == {Strategy("trade", TRUE, "opened", FALSE, FALSE, "duplicate", "owned"),
             Strategy("trade", TRUE, "opened", FALSE, TRUE, "duplicate", "foreign"),
             Strategy("trade", TRUE, "opened", TRUE, FALSE, "foreign", "duplicate"),
             Strategy("trade", FALSE, "opened", FALSE, FALSE, "duplicate", "owned"),
             Strategy("trade", TRUE, "adopted", FALSE, FALSE, "duplicate", "owned"),
             Strategy("trade", TRUE, "twin", FALSE, TRUE, "duplicate", "duplicate"),
             Strategy("spot", TRUE, "opened", FALSE, FALSE, "duplicate", "duplicate")}
=============================================================================
