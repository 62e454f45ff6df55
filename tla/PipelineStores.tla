---------------------------- MODULE PipelineStores ----------------------------
(***************************************************************************)
(* The shared state of PulseTrack's ingestion pipeline: the Redis event    *)
(* list, the Redis idempotency markers, the Redis dead-letter list, the    *)
(* PostgreSQL events table with its open transactions, and the control     *)
(* state of every API request and of every run of the worker's cron job.   *)
(*                                                                         *)
(* IngestApi and EventWorker add the actions; Pipeline composes them.      *)
(***************************************************************************)
EXTENDS Naturals, FiniteSets, SequencesExt

CONSTANTS
    Events,    \* telemetry events, each submitted by one request
    Requests,  \* POST /v1/events and POST /v1/events/batch calls
    Runs,      \* slots for concurrent runs of process_queued_events
    Keys,      \* (application_id, Idempotency-Key) pairs
    NoKey,     \* no Idempotency-Key header
    Batches,   \* the requests that are POST /v1/events/batch
    Items,     \* the validated events of each request, in order
    KeyOf,     \* the idempotency key of each event, or NoKey
    At,        \* the occurred_at of each event
    Poison,    \* events PostgreSQL rejects (a NUL in a text column, an unknown tenant)
    PopLimit,  \* LPOPs per run: 500 in the code
    Faults     \* which of "redis", "db" and "kill" may happen

ASSUME ItemsAssumption ==
    /\ Items \in [Requests -> Seq(Events)]
    /\ \A r \in Requests : Items[r] # <<>>
    /\ \A r \in Requests : \A i, j \in DOMAIN Items[r] :
          Items[r][i] = Items[r][j] => i = j
    /\ \A q, r \in Requests : q # r => ToSet(Items[q]) \cap ToSet(Items[r]) = {}

ASSUME RequestAssumption ==
    /\ Batches \subseteq Requests
    /\ Requests \cap Runs = {}
    /\ \A r \in Requests \ Batches : Len(Items[r]) = 1
    /\ \A r \in Batches : \A e \in ToSet(Items[r]) : KeyOf[e] = NoKey

ASSUME EventAssumption ==
    /\ NoKey \notin Keys
    /\ KeyOf \in [Events -> Keys \cup {NoKey}]
    /\ Poison \subseteq Events
    /\ PopLimit \in Nat \ {0}
    /\ Faults \subseteq {"redis", "db", "kill"}

VARIABLES
    queue,    \* pulsetrack:queue:events
    idem,     \* keys k for which idempotency:{app}:{k} exists
    dlq,      \* the events on pulsetrack:queue:dlq
    rows,     \* committed rows: the event and the side that wrote it
    pend,     \* events each open transaction has flushed but not committed
    pc,       \* where each request's handler is
    answer,   \* what each handler has decided to answer
    wpc,      \* where each run of process_queued_events is
    batch,    \* events_data of each run
    known,    \* history: what had been promised for r's key when r arrived
    blind,    \* history: requests whose idempotency GET raised
    expired,  \* history: keys whose marker has expired
    victims   \* history: events the worker held when a fault dropped them

apiVars    == <<pc, answer, known, blind>>
workerVars == <<wpc, batch, victims>>
redisVars  == <<queue, idem, dlq, expired>>
tableVars  == <<rows, pend>>
vars       == <<apiVars, workerVars, redisVars, tableVars>>

-----------------------------------------------------------------------------
(* Redis and PostgreSQL calls.  A call returns ("ok"), raises without      *)
(* effect ("error"), or takes effect on the server while the caller gets   *)
(* an exception, such as a socket timeout ("doubt").                       *)

RedisOutcomes == {"ok"} \cup (IF "redis" \in Faults THEN {"error", "doubt"} ELSE {})
DbOutcomes    == {"ok"} \cup (IF "db" \in Faults THEN {"error", "doubt"} ELSE {})
Applied(o)    == o # "error"
Raised(o)     == o # "ok"

Row  == [ev : Events, by : {"api", "worker"}]
Txns == Requests \cup Runs

RowsOf(E, side) == [ev : E, by : {side}]
Stored          == {x.ev : x \in rows}

(* Two events that the unique index idx_events_app_idempotency, partial on *)
(* a non-null key and extended with occurred_at, does not let coexist.     *)
SameSlot(e, f) == KeyOf[e] # NoKey /\ KeyOf[e] = KeyOf[f] /\ At[e] = At[f]
Clash(E, F)    == \E e \in E, f \in F : SameSlot(e, f)

(* Plausible bugs: an index that does not make an insert wait for the      *)
(* holder of its slot, and a session that is dropped without a rollback.   *)
FlushWithoutWaiting(t, E) ==
    /\ E \cap Poison = {}
    /\ ~Clash(E, Stored)
    /\ \A e, f \in E : SameSlot(e, f) => e = f
    /\ pend' = [pend EXCEPT ![t] = E]

RollbackForgotten(t) == UNCHANGED <<rows, pend>>

(* session.add_all + flush.  An insert into an index slot that another     *)
(* open transaction holds waits for that transaction to end.  The flush    *)
(* raises when a row is rejected or clashes, or when the database fails.   *)
FlushOk(t, E) ==
    /\ E \cap Poison = {}
    /\ ~Clash(E, Stored)
    /\ \A e, f \in E : SameSlot(e, f) => e = f
    /\ \A u \in Txns \ {t} : ~Clash(E, pend[u])
    /\ pend' = [pend EXCEPT ![t] = E]

FlushRaises(E) ==
    \/ "db" \in Faults
    \/ E \cap Poison # {}
    \/ Clash(E, Stored)
    \/ \E e, f \in E : SameSlot(e, f) /\ e # f

(* session.commit: every flushed row becomes visible at once, or none does. *)
Commit(t, side, o) ==
    /\ rows' = IF Applied(o) THEN rows \cup RowsOf(pend[t], side) ELSE rows
    /\ pend' = [pend EXCEPT ![t] = {}]

(* The transaction ends without a commit. *)
Rollback(t) ==
    /\ pend' = [pend EXCEPT ![t] = {}]
    /\ UNCHANGED rows

=============================================================================
