----------------------------- MODULE EventLedger -----------------------------
(***************************************************************************)
(* What the ingestion pipeline promises about events, whatever its queues, *)
(* handlers and runs look like.  An event that is accepted for             *)
(* asynchronous delivery is in transit; it leaves transit once, and for    *)
(* good: into the table, into the dead-letter store, or, only as a dropped *)
(* event, nowhere.  The synchronous path writes the table directly.  A     *)
(* client is promised an event only when the ledger already accounts for   *)
(* it.                                                                     *)
(***************************************************************************)
CONSTANT Events

VARIABLES
    transit,   \* accepted for delivery and not settled
    table,     \* rows: the event and the side that wrote it
    dead,      \* dead-lettered
    dropped,   \* lost
    promised   \* events some client was told are accepted

ledger == <<transit, table, dead, dropped, promised>>

InTable(E, side) == [ev : E, by : {side}]
Accounted == transit \cup {x.ev : x \in table} \cup dead \cup dropped
Delivered == {x.ev : x \in {y \in table : y.by = "worker"}} \cup dead \cup dropped

Init ==
    /\ transit = {} /\ table = {} /\ dead = {} /\ dropped = {} /\ promised = {}

(* New events enter transit, once in the lifetime of the ledger. *)
Accept(E) ==
    /\ E \cap (transit \cup Delivered) = {}
    /\ transit' = transit \cup E
    /\ UNCHANGED <<table, dead, dropped, promised>>

(* Events leave transit: S to the table, D to the dead letters, L lost. *)
Settle(S, D, L) ==
    /\ transit' = transit \ (S \cup D \cup L)
    /\ table' = table \cup InTable(S, "worker")
    /\ dead' = dead \cup D
    /\ dropped' = dropped \cup L
    /\ UNCHANGED promised

(* A commit whose outcome the worker does not learn: the rows are there,   *)
(* and the events stay in transit to be settled again.                     *)
StoreInDoubt(S) ==
    /\ table' = table \cup InTable(S, "worker")
    /\ UNCHANGED <<transit, dead, dropped, promised>>

(* The synchronous path stores S; the client is told about P. *)
Answer(S, P) ==
    /\ table' = table \cup InTable(S, "api")
    /\ P \subseteq Accounted \cup S
    /\ promised' = promised \cup P
    /\ UNCHANGED <<transit, dead, dropped>>

Next ==
    \/ \E E \in SUBSET Events : Accept(E)
    \/ \E S \in SUBSET transit : \E D \in SUBSET (transit \ S) :
          \E L \in SUBSET (transit \ (S \cup D)) : Settle(S, D, L)
    \/ \E S \in SUBSET transit : StoreInDoubt(S)
    \/ \E S \in SUBSET Events : \E P \in SUBSET (Accounted \cup S) : Answer(S, P)

Spec == Init /\ [][Next]_ledger

=============================================================================
