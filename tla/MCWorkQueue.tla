----------------------------- MODULE MCWorkQueue -----------------------------
(* WorkQueue on small instances.  Each cfg takes the items and workers it    *)
(* needs from: a control drain and its worker, the two items of one          *)
(* incident's conversation, and a reconciliation that has a deadline, with   *)
(* two background workers.                                                   *)
EXTENDS WorkQueue, TLC

CONSTANTS b1, b2, c1

MCItems == {"delivery_drain", "channel", "session", "reconcile"}

MCLane == [x \in MCItems \cup {b1, b2, c1} |->
             IF x \in {"delivery_drain", c1} THEN "control" ELSE "background"]

MCKey == [i \in MCItems |-> IF i \in {"channel", "session"} THEN "incident" ELSE NoKey]

MCPriority == [i \in MCItems |->
                 CASE i \in {"delivery_drain", "channel"} -> 30
                   [] i = "session" -> 40
                   [] i = "reconcile" -> 42]

BackgroundWorkers == {b1, b2}
AllWorkers == {b1, b2, c1}

Symmetry == Permutations({b1, b2})
=============================================================================
