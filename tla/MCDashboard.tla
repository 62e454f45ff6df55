----------------------------- MODULE MCDashboard -----------------------------
(* Instances of Dashboard for TLC. *)
EXTENDS Dashboard

Plan(gestures, n) == [may |-> gestures, left |-> n]

Browsing == Plan({"choose", "range", "compare", "retry"}, 3)
Testing  == Plan({"choose", "simulate", "ingest"}, 4)
Managing == Plan({"choose", "create", "rotate", "unlock"}, 5)
Watching == Plan({"choose", "ingest"}, 2)

EveryPlan == {Browsing, Testing, Managing}
(* The first application has events, but none of today. *)
OldEvents == {<<1, "7d">>}

OnlyManaging == {Managing}
OnlyWatching == {Watching}

Locked == {[registered |-> 1, stored |-> {}]}
Both   == {[registered |-> 2, stored |-> {1, 2}]}
Some   == Locked \cup Both
=============================================================================
