------------------------------- MODULE Pipeline -------------------------------
(***************************************************************************)
(* The ingestion pipeline: API requests and worker runs over one Redis and *)
(* one PostgreSQL.                                                         *)
(***************************************************************************)
EXTENDS IngestApi, EventWorker

Init ==
    /\ queue = <<>> /\ idem = {} /\ dlq = {} /\ rows = {}
    /\ pend = [t \in Txns |-> {}]
    /\ pc = [r \in Requests |-> "new"]
    /\ answer = [r \in Requests |-> "none"]
    /\ wpc = [w \in Runs |-> "idle"]
    /\ batch = [w \in Runs |-> <<>>]
    /\ known = [r \in Requests |-> "nothing"]
    /\ blind = {} /\ expired = {} /\ victims = {}

Next ==
    \/ \E r \in Requests : Arrive(r) \/ Serve(r) \/ Vanish(r)
    \/ \E k \in Keys : ExpireMarker(k)
    \/ \E w \in Runs : Run(w) \/ PopError(w) \/ DeadLetterError(w) \/ Kill(w)

Spec == Init /\ [][Next]_vars

(* A request that has arrived is served by the event loop; the cron        *)
(* schedule keeps starting runs and a run keeps going.  Redis may fail     *)
(* again and again but not for ever: an lpop that is tried again and again *)
(* in the end succeeds, hence strong fairness for Pop.  Clients need not   *)
(* send requests, and faults need not happen.                              *)
Fairness ==
    /\ \A r \in Requests : WF_vars(Serve(r))
    /\ \A w \in Runs : WF_vars(Run(w)) /\ SF_vars(Pop(w))

FairSpec == Spec /\ Fairness

-----------------------------------------------------------------------------
InBatches  == UNION {ToSet(batch[w]) : w \in Runs}
InTransit  == ToSet(queue) \cup InBatches
WorkerRows == {x.ev : x \in {y \in rows : y.by = "worker"}}
ApiRows    == {x.ev : x \in {y \in rows : y.by = "api"}}

(* r has answered 202, 201 or 207: the client was told its events are in. *)
Acknowledged(r) == pc[r] = "done" /\ answer[r] \in {"queued", "stored", "multi"}

(* r's events have reached Redis or the table. *)
TookEffect(r) ==
    ToSet(Items[r]) \cap (InTransit \cup Stored \cup dlq \cup victims) # {}

(* The values every variable takes. *)
TypeOK ==
    /\ queue \in Seq(Events)
    /\ idem \in SUBSET Keys
    /\ dlq \in SUBSET Events
    /\ rows \in SUBSET Row
    /\ pend \in [Txns -> SUBSET Events]
    /\ pc \in [Requests -> Steps]
    /\ answer \in [Requests -> Answers]
    /\ wpc \in [Runs -> RunSteps]
    /\ batch \in [Runs -> Seq(Events)]
    /\ known \in [Requests -> {"nothing", "queued", "stored"}]
    /\ blind \in SUBSET Requests
    /\ expired \in SUBSET Keys
    /\ victims \in SUBSET Events

(* No acknowledged event disappears: it is on the queue, held by a run, a  *)
(* row or a dead letter, unless the worker held it, or was receiving it,   *)
(* when a fault dropped that run's batch.  In particular nothing on the    *)
(* API side loses an acknowledged event, whatever Redis and the database   *)
(* do (ingest_event, ingest_batch_events, get_session).                    *)
AcknowledgedIsAccountedFor ==
    \A r \in Requests : Acknowledged(r) =>
        ToSet(Items[r]) \subseteq InTransit \cup Stored \cup dlq \cup victims

(* A 201 is true: the rows are committed when the client reads the answer, *)
(* although the handler returns before the commit (get_session).           *)
StoredAnswerIsCommitted ==
    \A r \in Requests : pc[r] = "done" /\ answer[r] = "stored" =>
        ToSet(Items[r]) \subseteq ApiRows

(* Overlapping runs never share an event, and an event that has reached    *)
(* its end does not come back: queue and batches hold it once, and not     *)
(* beside its dead letter, its loss, or, except while a run whose commit   *)
(* is in doubt dead-letters it, the row a run wrote of it.  The row that a *)
(* handler wrote in its fallback, when its push was in doubt, may stand    *)
(* beside the queued copy (process_queued_events).                         *)
OneCopyInTransit ==
    /\ \A i, j \in DOMAIN queue : queue[i] = queue[j] => i = j
    /\ \A w \in Runs : \A i, j \in DOMAIN batch[w] : batch[w][i] = batch[w][j] => i = j
    /\ \A w \in Runs : ToSet(batch[w]) \cap ToSet(queue) = {}
    /\ \A v, w \in Runs : v # w => ToSet(batch[v]) \cap ToSet(batch[w]) = {}
    /\ InTransit \cap (dlq \cup victims) = {}
    /\ dlq \cap victims = {}
    /\ \A w \in Runs : wpc[w] # "dlq" => ToSet(batch[w]) \cap WorkerRows = {}
    /\ ToSet(queue) \cap WorkerRows = {}

(* No two rows share an application, an idempotency key and an             *)
(* occurred_at, whatever transactions overlap.                             *)
OneRowPerSlot ==
    \A x, y \in rows : SameSlot(x.ev, y.ev) => x = y

(* A retry that arrives after its key was answered adds nothing: never     *)
(* when the key had a row, and, when the first answer was 202 or a replay, *)
(* only if the marker expired or could not be read (ingest_event's two     *)
(* lookups).                                                               *)
RetryAddsNothing ==
    \A r \in Requests : known[r] # "nothing" /\ TookEffect(r) =>
        known[r] = "queued" /\ (Key(r) \in expired \/ r \in blind)

(* The pipeline implements the ledger. *)
Ledger == INSTANCE EventLedger WITH
    transit  <- InTransit,
    table    <- rows,
    dead     <- dlq,
    dropped  <- victims,
    promised <- UNION {ToSet(Items[r]) : r \in {q \in Requests : Acknowledged(q)}}

ImplementsLedger == Ledger!Spec

(* Every event that is queued or popped ends up as a row, a dead letter or *)
(* a loss: nothing stays on the list for ever, and no run holds it for     *)
(* ever (the cron schedule of WorkerSettings).                             *)
TransitEnds == \A e \in Events : e \in InTransit ~> e \notin InTransit

(* Every request that arrives is answered or cancelled: no request waits   *)
(* for ever on the index slot of another transaction.                      *)
RequestsEnd == \A r \in Requests : pc[r] # "new" ~> pc[r] = "done"

-----------------------------------------------------------------------------
(* What the documentation says of the pipeline and the code does not do,   *)
(* checked by a run that expects the violation.                            *)

(* docs/PulseTrack_SRD.md NFR-REL-01: "At-least-once ... kill worker       *)
(* mid-batch, verify no loss".  LPOP removes the events before the commit. *)
KilledWorkerLosesNothing ==
    \A r \in Requests : Acknowledged(r) =>
        ToSet(Items[r]) \subseteq InTransit \cup Stored \cup dlq

=============================================================================
