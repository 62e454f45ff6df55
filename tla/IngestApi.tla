------------------------------- MODULE IngestApi -------------------------------
(***************************************************************************)
(* The ingestion handlers of the API: POST /v1/events (ingest_event) and   *)
(* POST /v1/events/batch (ingest_batch_events), from the point where the   *)
(* caller is authenticated, under its rate limit, and its payload is       *)
(* validated.  Every await of the code is a step of its own, so requests   *)
(* interleave with each other and with the worker at every call to Redis   *)
(* or PostgreSQL.                                                          *)
(***************************************************************************)
EXTENDS PipelineStores

(* ingest_event's steps and the answers the two handlers can give: 200     *)
(* from the Redis marker or from a row, 202, 201, 207 and 500.             *)
Steps   == {"new", "cache", "table", "push", "mark", "fallback", "commit",
            "closing", "done"}
Answers == {"none", "replay_cached", "replay_row", "queued", "stored", "multi", "error"}

Key(r)    == KeyOf[Head(Items[r])]
HasKey(r) == r \notin Batches /\ Key(r) # NoKey
Matches(r) == {x \in rows : KeyOf[x.ev] = Key(r)}

Goto(r, step) == pc' = [pc EXCEPT ![r] = step]
Return(r, a)  == /\ Goto(r, "closing")
                 /\ answer' = [answer EXCEPT ![r] = a]

(* What the system had already answered about r's key when r arrived. *)
Promised(r) ==
    CASE HasKey(r) /\ Matches(r) # {} -> "stored"
      [] HasKey(r) /\ Matches(r) = {} /\ \E q \in Requests :
            /\ pc[q] = "done" /\ answer[q] \in {"queued", "replay_cached"}
            /\ HasKey(q) /\ Key(q) = Key(r) -> "queued"
      [] OTHER -> "nothing"

(* An exception leaves the handler: get_session rolls back, the client     *)
(* gets 500.                                                               *)
Fail(r) ==
    /\ Goto(r, "done")
    /\ answer' = [answer EXCEPT ![r] = "error"]
    /\ Rollback(r)

-----------------------------------------------------------------------------
(* Plausible bugs, each put in the place of the action it names to see     *)
(* that a property notices.                                                *)

(* The except branch of the push answers 202 as if nothing had happened. *)
PushIgnoringErrors(r) ==
    /\ pc[r] = "push"
    /\ \E o \in RedisOutcomes :
          /\ queue' = IF Applied(o) THEN queue \o Items[r] ELSE queue
          /\ Return(r, IF r \in Batches THEN "multi" ELSE "queued")
    /\ UNCHANGED <<idem, dlq, expired, known, blind, workerVars, tableVars>>

(* The marker is filed under the event and not under its key. *)
MarkUnderEvent(r) ==
    /\ pc[r] = "mark"
    /\ idem' = idem \cup {Head(Items[r])}
    /\ Return(r, "queued")
    /\ UNCHANGED <<queue, dlq, expired, known, blind, workerVars, tableVars>>

(* The marker is never set on the 202 path. *)
MarkForgotten(r) ==
    /\ pc[r] = "mark"
    /\ Return(r, "queued")
    /\ UNCHANGED <<idem, queue, dlq, expired, known, blind, workerVars, tableVars>>

(* The answer is sent before the commit. *)
CloseAfterAnswer(r) ==
    /\ pc[r] = "closing"
    /\ \E o \in DbOutcomes : Commit(r, "api", o)
    /\ Goto(r, "done")
    /\ UNCHANGED <<answer, known, blind, workerVars, redisVars>>

-----------------------------------------------------------------------------
Arrive(r) ==
    /\ pc[r] = "new"
    /\ Goto(r, IF HasKey(r) THEN "cache" ELSE "push")
    /\ known' = [known EXCEPT ![r] = Promised(r)]
    /\ UNCHANGED <<answer, blind, workerVars, redisVars, tableVars>>

(* redis.get of the idempotency marker; an exception is swallowed. *)
LookUpMarker(r) ==
    /\ pc[r] = "cache"
    /\ \/ /\ Key(r) \in idem
          /\ Return(r, "replay_cached")
          /\ UNCHANGED blind
       \/ /\ Key(r) \notin idem
          /\ Goto(r, "table")
          /\ UNCHANGED <<answer, blind>>
       \/ /\ "redis" \in Faults
          /\ Goto(r, "table")
          /\ blind' = blind \cup {r}
          /\ UNCHANGED answer
    /\ UNCHANGED <<known, workerVars, redisVars, tableVars>>

(* repo.get_by_idempotency_key: scalar_one_or_none raises on two rows. *)
LookUpRow(r) ==
    /\ pc[r] = "table"
    /\ \/ /\ Matches(r) = {}
          /\ Goto(r, "push")
          /\ UNCHANGED <<answer, tableVars>>
       \/ /\ \E x \in rows : Matches(r) = {x}
          /\ Return(r, "replay_row")
          /\ UNCHANGED tableVars
       \/ /\ \/ "db" \in Faults
             \/ \E x, y \in Matches(r) : x # y
          /\ Fail(r)
    /\ UNCHANGED <<known, blind, workerVars, redisVars>>

(* redis.rpush of the event, or of the whole batch in one variadic call. *)
Push(r) ==
    /\ pc[r] = "push"
    /\ \E o \in RedisOutcomes :
          /\ queue' = IF Applied(o) THEN queue \o Items[r] ELSE queue
          /\ \/ /\ Raised(o)
                /\ Goto(r, "fallback")
                /\ UNCHANGED answer
             \/ /\ ~Raised(o) /\ HasKey(r)
                /\ Goto(r, "mark")
                /\ UNCHANGED answer
             \/ /\ ~Raised(o) /\ ~HasKey(r)
                /\ Return(r, IF r \in Batches THEN "multi" ELSE "queued")
    /\ UNCHANGED <<idem, dlq, expired, known, blind, workerVars, tableVars>>

(* redis.set of the idempotency marker, after the push and in the same try. *)
Mark(r) ==
    /\ pc[r] = "mark"
    /\ \E o \in RedisOutcomes :
          /\ idem' = IF Applied(o) THEN idem \cup {Key(r)} ELSE idem
          /\ \/ /\ Raised(o)
                /\ Goto(r, "fallback")
                /\ UNCHANGED answer
             \/ /\ ~Raised(o)
                /\ Return(r, "queued")
    /\ UNCHANGED <<queue, dlq, expired, known, blind, workerVars, tableVars>>

(* The synchronous write: repo.create, or create_batch, which ingest_batch *)
(* commits itself.  When create_batch raises, the batch handler still      *)
(* returns, but the session's transaction is inactive and get_session's    *)
(* commit raises: both endpoints answer 500.                               *)
Fallback(r) ==
    /\ pc[r] = "fallback"
    /\ \/ /\ FlushOk(r, ToSet(Items[r]))
          /\ IF r \in Batches
             THEN /\ Goto(r, "commit")
                  /\ UNCHANGED answer
             ELSE Return(r, "stored")
          /\ UNCHANGED rows
       \/ /\ FlushRaises(ToSet(Items[r]))
          /\ Fail(r)
    /\ UNCHANGED <<known, blind, workerVars, redisVars>>

(* session.commit inside the batch handler; get_session's own commit then  *)
(* has nothing to do, or, after a failure, raises.                         *)
CommitFallback(r) ==
    /\ pc[r] = "commit"
    /\ \E o \in DbOutcomes :
          /\ Commit(r, "api", o)
          /\ answer' = [answer EXCEPT ![r] = IF Raised(o) THEN "error" ELSE "multi"]
    /\ Goto(r, "done")
    /\ UNCHANGED <<known, blind, workerVars, redisVars>>

(* get_session commits after the handler returns and before the answer is  *)
(* sent, so a failed commit turns the answer into a 500.                   *)
Close(r) ==
    /\ pc[r] = "closing"
    /\ \E o \in DbOutcomes :
          /\ Commit(r, "api", o)
          /\ answer' = [answer EXCEPT ![r] = IF Raised(o) THEN "error" ELSE @]
    /\ Goto(r, "done")
    /\ UNCHANGED <<known, blind, workerVars, redisVars>>

(* The API process dies, or the request is cancelled: no answer, and no    *)
(* rows unless the commit had gone through.                                *)
Vanish(r) ==
    /\ "kill" \in Faults
    /\ pc[r] \notin {"new", "done"}
    /\ Goto(r, "done")
    /\ answer' = [answer EXCEPT ![r] = "none"]
    /\ \/ Rollback(r)
       \/ /\ pc[r] \in {"commit", "closing"}
          /\ Commit(r, "api", "ok")
    /\ UNCHANGED <<known, blind, workerVars, redisVars>>

(* ex=86400 on the marker. *)
ExpireMarker(k) ==
    /\ k \in idem
    /\ idem' = idem \ {k}
    /\ expired' = expired \cup {k}
    /\ UNCHANGED <<queue, dlq, apiVars, workerVars, tableVars>>

Serve(r) ==
    \/ LookUpMarker(r)
    \/ LookUpRow(r)
    \/ Push(r)
    \/ Mark(r)
    \/ Fallback(r)
    \/ CommitFallback(r)
    \/ Close(r)

=============================================================================
