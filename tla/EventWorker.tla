------------------------------ MODULE EventWorker ------------------------------
(***************************************************************************)
(* The ARQ worker: the cron job process_queued_events, started every       *)
(* second whether or not earlier runs have ended, which pops a batch from  *)
(* the Redis list, hands it to process_event_batch_task, and on an         *)
(* exception copies it to the dead-letter list.                            *)
(***************************************************************************)
EXTENDS PipelineStores

RunSteps == {"idle", "popping", "insert", "commit", "dlq"}

RunGoto(w, step) == wpc' = [wpc EXCEPT ![w] = step]

(* The run ends, dropping what it still holds: events_data is a local      *)
(* variable, and LPOP has already removed the events from Redis.           *)
EndRun(w, dropped) ==
    /\ RunGoto(w, "idle")
    /\ batch' = [batch EXCEPT ![w] = <<>>]
    /\ victims' = victims \cup dropped

-----------------------------------------------------------------------------
(* Plausible bugs, each put in the place of the action it names to see     *)
(* that a property notices.                                                *)

(* The run reads the head of the list and leaves it there. *)
PopWithoutRemoving(w) ==
    /\ wpc[w] = "popping"
    /\ queue # <<>> /\ Len(batch[w]) < PopLimit
    /\ batch' = [batch EXCEPT ![w] = Append(@, Head(queue))]
    /\ UNCHANGED <<wpc, queue, victims, idem, dlq, expired, apiVars, tableVars>>

(* The run waits for a full batch. *)
StopPoppingWhenFull(w) ==
    /\ wpc[w] = "popping"
    /\ Len(batch[w]) = PopLimit
    /\ RunGoto(w, "insert")
    /\ UNCHANGED <<batch, victims, apiVars, redisVars, tableVars>>

(* An exception of the commit is logged and forgotten. *)
CommitBatchIgnoringErrors(w) ==
    /\ wpc[w] = "commit"
    /\ \E o \in DbOutcomes : Commit(w, "worker", o)
    /\ EndRun(w, {})
    /\ UNCHANGED <<apiVars, redisVars>>

(* The loop over the failed batch stops one item early. *)
DeadLetterAllButLast(w) ==
    /\ wpc[w] = "dlq"
    /\ IF Len(batch[w]) = 1
       THEN /\ EndRun(w, {})
            /\ UNCHANGED dlq
       ELSE /\ dlq' = dlq \cup {Head(batch[w])}
            /\ batch' = [batch EXCEPT ![w] = Tail(@)]
            /\ UNCHANGED <<wpc, victims>>
    /\ UNCHANGED <<queue, idem, expired, apiVars, tableVars>>

-----------------------------------------------------------------------------
Tick(w) ==
    /\ wpc[w] = "idle"
    /\ RunGoto(w, "popping")
    /\ UNCHANGED <<batch, victims, apiVars, redisVars, tableVars>>

Pop(w) ==
    /\ wpc[w] = "popping"
    /\ queue # <<>> /\ Len(batch[w]) < PopLimit
    /\ batch' = [batch EXCEPT ![w] = Append(@, Head(queue))]
    /\ queue' = Tail(queue)
    /\ UNCHANGED <<wpc, victims, idem, dlq, expired, apiVars, tableVars>>

(* The list is empty or the limit is reached; an empty batch ends the run. *)
StopPopping(w) ==
    /\ wpc[w] = "popping"
    /\ queue = <<>> \/ Len(batch[w]) = PopLimit
    /\ RunGoto(w, IF batch[w] = <<>> THEN "idle" ELSE "insert")
    /\ UNCHANGED <<batch, victims, apiVars, redisVars, tableVars>>

(* lpop raises: the loop is outside the try, so what was popped is gone,   *)
(* with the head of the list when the server had already removed it.       *)
PopError(w) ==
    /\ wpc[w] = "popping"
    /\ Len(batch[w]) < PopLimit
    /\ \E o \in RedisOutcomes :
          /\ Raised(o)
          /\ \/ /\ Applied(o) /\ queue # <<>>
                /\ EndRun(w, ToSet(batch[w]) \cup {Head(queue)})
                /\ queue' = Tail(queue)
             \/ /\ ~Applied(o) \/ queue = <<>>
                /\ EndRun(w, ToSet(batch[w]))
                /\ UNCHANGED queue
    /\ UNCHANGED <<idem, dlq, expired, apiVars, tableVars>>

Insert(w) ==
    /\ wpc[w] = "insert"
    /\ \/ /\ FlushOk(w, ToSet(batch[w]))
          /\ RunGoto(w, "commit")
          /\ UNCHANGED rows
       \/ /\ FlushRaises(ToSet(batch[w]))
          /\ RunGoto(w, "dlq")
          /\ Rollback(w)
    /\ UNCHANGED <<batch, victims, apiVars, redisVars>>

CommitBatch(w) ==
    /\ wpc[w] = "commit"
    /\ \E o \in DbOutcomes :
          /\ Commit(w, "worker", o)
          /\ \/ /\ Raised(o)
                /\ RunGoto(w, "dlq")
                /\ UNCHANGED <<batch, victims>>
             \/ /\ ~Raised(o)
                /\ EndRun(w, {})
    /\ UNCHANGED <<apiVars, redisVars>>

(* One rpush per item of the failed batch; the first exception ends the    *)
(* loop and the run.                                                       *)
DeadLetter(w) ==
    /\ wpc[w] = "dlq"
    /\ dlq' = dlq \cup {Head(batch[w])}
    /\ batch' = [batch EXCEPT ![w] = Tail(@)]
    /\ RunGoto(w, IF Len(batch[w]) = 1 THEN "idle" ELSE "dlq")
    /\ UNCHANGED <<victims, queue, idem, expired, apiVars, tableVars>>

DeadLetterError(w) ==
    /\ wpc[w] = "dlq"
    /\ \E o \in RedisOutcomes :
          /\ Raised(o)
          /\ \/ /\ Applied(o)
                /\ dlq' = dlq \cup {Head(batch[w])}
                /\ EndRun(w, ToSet(Tail(batch[w])))
             \/ /\ ~Applied(o)
                /\ EndRun(w, ToSet(batch[w]))
                /\ UNCHANGED dlq
    /\ UNCHANGED <<queue, idem, expired, apiVars, tableVars>>

(* The worker process dies, or ARQ cancels the job on its timeout or on    *)
(* shutdown: CancelledError passes the except Exception.                   *)
Kill(w) ==
    /\ "kill" \in Faults
    /\ wpc[w] # "idle"
    /\ EndRun(w, ToSet(batch[w]))
    /\ Rollback(w)
    /\ UNCHANGED <<apiVars, redisVars>>

Run(w) ==
    \/ Tick(w)
    \/ Pop(w)
    \/ StopPopping(w)
    \/ Insert(w)
    \/ CommitBatch(w)
    \/ DeadLetter(w)

=============================================================================
