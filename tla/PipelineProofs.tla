---------------------------- MODULE PipelineProofs ----------------------------
(***************************************************************************)
(* Theorems about Pipeline for any events, requests, runs, keys and        *)
(* faults.                                                                 *)
(***************************************************************************)
EXTENDS Pipeline, SequenceLemmas

(* Only a request with a key looks up or sets a marker. *)
KeyedSteps ==
    \A r \in Requests : pc[r] \in {"cache", "table", "mark"} => HasKey(r)

(* A run that has left the popping loop holds at least one event. *)
RunsHoldEvents ==
    \A w \in Runs : wpc[w] \in {"insert", "commit", "dlq"} => batch[w] # <<>>

TypeInv == TypeOK /\ KeyedSteps /\ RunsHoldEvents

-----------------------------------------------------------------------------
(* Type correctness. *)

(* The events of a request are events. *)
LEMMA ItemsAreEvents ==
    ASSUME NEW r \in Requests
    PROVE  /\ Items[r] \in Seq(Events)
           /\ ToSet(Items[r]) \subseteq Events
           /\ Head(Items[r]) \in Events
           /\ HasKey(r) => Key(r) \in Keys
<1>1. Items[r] \in Seq(Events) /\ Items[r] # <<>>
  BY ItemsAssumption
<1>2. Head(Items[r]) \in Events
  BY <1>1, ElementsOfTail
<1>3. ToSet(Items[r]) \subseteq Events
  BY <1>1, ElementsAreValues
<1>4. HasKey(r) => Key(r) \in Keys
  BY <1>2, EventAssumption DEF HasKey, Key
<1>5. QED
  BY <1>1, <1>2, <1>3, <1>4

(* What the calls to the database do to the table and its transactions. *)
LEMMA TableTypes ==
    ASSUME TypeOK, NEW t \in Txns, NEW E \in SUBSET Events,
           NEW side \in {"api", "worker"}, NEW o
    PROVE  /\ FlushOk(t, E) => pend' \in [Txns -> SUBSET Events]
           /\ Rollback(t) => pend' \in [Txns -> SUBSET Events] /\ rows' \in SUBSET Row
           /\ Commit(t, side, o) =>
                 pend' \in [Txns -> SUBSET Events] /\ rows' \in SUBSET Row
<1>1. RowsOf(pend[t], side) \subseteq Row
  BY DEF TypeOK, RowsOf, Row
<1>2. QED
  BY <1>1 DEF TypeOK, FlushOk, Rollback, Commit

(* The initial state is well typed. *)
LEMMA InitTypes == Init => TypeInv
  BY DEF Init, TypeInv, TypeOK, KeyedSteps, RunsHoldEvents, Steps, Answers, RunSteps, Row

(* A step of a request's handler keeps the types. *)
LEMMA RequestTypes ==
    ASSUME TypeInv, NEW r \in Requests, Arrive(r) \/ Serve(r) \/ Vanish(r)
    PROVE  TypeInv'
<1> USE DEF TypeInv, TypeOK, KeyedSteps, Steps, Answers
<1> DEFINE E == ToSet(Items[r])
<1>0. /\ Items[r] \in Seq(Events) /\ E \in SUBSET Events
      /\ HasKey(r) => Key(r) \in Keys
      /\ r \in Txns
  BY ItemsAreEvents DEF Txns
<1>1. /\ FlushOk(r, E) => pend' \in [Txns -> SUBSET Events]
      /\ Rollback(r) => pend' \in [Txns -> SUBSET Events] /\ rows' \in SUBSET Row
      /\ \A o : Commit(r, "api", o) => pend' \in [Txns -> SUBSET Events] /\ rows' \in SUBSET Row
  BY <1>0, TableTypes
<1>u. UNCHANGED workerVars => RunsHoldEvents'
  BY DEF workerVars, RunsHoldEvents
<1>h. HasKey(r) = HasKey(r)'
  BY DEF HasKey, Key
<1>2. CASE Arrive(r)
  <2>1. Promised(r) \in {"nothing", "queued", "stored"}
    BY DEF Promised
  <2>2. QED
    BY <1>2, <1>u, <2>1 DEF Arrive, Goto, workerVars, redisVars, tableVars, HasKey, Key
<1>3. CASE LookUpMarker(r)
  BY <1>3, <1>u DEF LookUpMarker, Goto, Return, workerVars, redisVars, tableVars, HasKey, Key
<1>4. CASE LookUpRow(r)
  BY <1>4, <1>u, <1>1 DEF LookUpRow, Goto, Return, Fail, Rollback,
     workerVars, redisVars, tableVars, HasKey, Key
<1>5. CASE Push(r)
  <2>1. queue' \in Seq(Events)
    BY <1>5, <1>0, ElementsOfConcat DEF Push
  <2>2. QED
    BY <1>5, <1>u, <2>1 DEF Push, Goto, Return, workerVars, tableVars, HasKey, Key
<1>6. CASE Mark(r)
  <2>1. idem' \in SUBSET Keys
    BY <1>6, <1>0 DEF Mark
  <2>2. QED
    BY <1>6, <1>u, <2>1 DEF Mark, Goto, Return, workerVars, tableVars, HasKey, Key
<1>7. CASE Fallback(r)
  BY <1>7, <1>u, <1>1 DEF Fallback, Goto, Return, Fail, FlushOk, Rollback,
     workerVars, redisVars, HasKey, Key
<1>8. CASE Close(r)
  BY <1>8, <1>u, <1>1 DEF Close, Goto, workerVars, redisVars, HasKey, Key
<1>9. CASE CommitFallback(r)
  BY <1>9, <1>u, <1>1 DEF CommitFallback, Goto, workerVars, redisVars, HasKey, Key
<1>10. CASE Vanish(r)
  BY <1>10, <1>u, <1>1 DEF Vanish, Goto, workerVars, redisVars, HasKey, Key
<1>11. QED
  BY <1>2, <1>3, <1>4, <1>5, <1>6, <1>7, <1>8, <1>9, <1>10 DEF Serve

(* A step of a worker run keeps the types. *)
LEMMA RunTypes ==
    ASSUME TypeInv, NEW w \in Runs,
           Run(w) \/ PopError(w) \/ DeadLetterError(w) \/ Kill(w)
    PROVE  TypeInv'
<1> USE DEF TypeInv, TypeOK, RunsHoldEvents, RunSteps
<1> DEFINE B == ToSet(batch[w])
<1>0. /\ batch[w] \in Seq(Events) /\ B \in SUBSET Events /\ w \in Txns
      /\ batch[w] # <<>> => /\ Head(batch[w]) \in Events
                            /\ Tail(batch[w]) \in Seq(Events)
                            /\ ToSet(Tail(batch[w])) \in SUBSET Events
      /\ queue # <<>> => /\ Head(queue) \in Events
                         /\ Tail(queue) \in Seq(Events)
                         /\ Append(batch[w], Head(queue)) \in Seq(Events)
      /\ <<>> \in Seq(Events)
  BY ElementsOfTail, ElementsAreValues, ElementsOfAppend DEF Txns
<1>1. /\ FlushOk(w, B) => pend' \in [Txns -> SUBSET Events]
      /\ Rollback(w) => pend' \in [Txns -> SUBSET Events] /\ rows' \in SUBSET Row
      /\ \A o : Commit(w, "worker", o) => pend' \in [Txns -> SUBSET Events] /\ rows' \in SUBSET Row
  BY <1>0, TableTypes
<1>u. UNCHANGED apiVars => KeyedSteps'
  BY DEF apiVars, KeyedSteps, HasKey, Key
<1>e. ASSUME NEW D \in SUBSET Events, EndRun(w, D)
      PROVE  /\ wpc' \in [Runs -> RunSteps] /\ batch' \in [Runs -> Seq(Events)]
             /\ victims' \in SUBSET Events /\ RunsHoldEvents'
  BY <1>e, <1>0 DEF EndRun, RunGoto
<1>2. CASE Tick(w)
  BY <1>2, <1>u DEF Tick, RunGoto, apiVars, redisVars, tableVars
<1>3. CASE Pop(w)
  <2>1. queue' \in Seq(Events) /\ batch' \in [Runs -> Seq(Events)]
    BY <1>3, <1>0 DEF Pop
  <2>2. RunsHoldEvents'
    BY <1>3 DEF Pop
  <2>3. QED
    BY <1>3, <1>u, <2>1, <2>2 DEF Pop, apiVars, tableVars
<1>4. CASE StopPopping(w)
  BY <1>4, <1>u DEF StopPopping, RunGoto, apiVars, redisVars, tableVars
<1>5. CASE Insert(w)
  BY <1>5, <1>u, <1>1 DEF Insert, RunGoto, Rollback, apiVars, redisVars
<1>6. CASE CommitBatch(w)
  <2>1. PICK o \in DbOutcomes :
           /\ Commit(w, "worker", o)
           /\ \/ Raised(o) /\ RunGoto(w, "dlq") /\ UNCHANGED <<batch, victims>>
              \/ ~Raised(o) /\ EndRun(w, {})
    BY <1>6 DEF CommitBatch
  <2>2. /\ wpc' \in [Runs -> RunSteps] /\ batch' \in [Runs -> Seq(Events)]
        /\ victims' \in SUBSET Events /\ RunsHoldEvents'
    <3>1. CASE EndRun(w, {})
      BY <3>1, <1>e
    <3>2. CASE RunGoto(w, "dlq") /\ UNCHANGED <<batch, victims>>
      BY <3>2, <1>6 DEF RunGoto, CommitBatch
    <3>3. QED
      BY <2>1, <3>1, <3>2
  <2>3. QED
    BY <1>6, <1>u, <1>1, <2>1, <2>2 DEF CommitBatch, apiVars, redisVars
<1>7. CASE DeadLetter(w)
  <2>1. batch[w] # <<>>
    BY <1>7 DEF DeadLetter
  <2>2. Len(batch[w]) # 1 => Tail(batch[w]) # <<>>
    BY <1>0, <2>1, TailIsEmpty
  <2>3. batch' \in [Runs -> Seq(Events)] /\ dlq' \in SUBSET Events
    BY <1>7, <1>0, <2>1 DEF DeadLetter
  <2>4. RunsHoldEvents'
    BY <1>7, <2>2 DEF DeadLetter, RunGoto
  <2>5. QED
    BY <1>7, <1>u, <2>3, <2>4 DEF DeadLetter, RunGoto, apiVars, tableVars
<1>8. CASE PopError(w)
  <2>1. PICK D \in SUBSET Events : EndRun(w, D) /\ queue' \in Seq(Events)
    BY <1>8, <1>0 DEF PopError
  <2>2. QED
    BY <1>8, <1>u, <1>e, <2>1 DEF PopError, apiVars, tableVars
<1>9. CASE DeadLetterError(w)
  <2>1. PICK D \in SUBSET Events : EndRun(w, D) /\ dlq' \in SUBSET Events
    BY <1>9, <1>0 DEF DeadLetterError
  <2>2. QED
    BY <1>9, <1>u, <1>e, <2>1 DEF DeadLetterError, apiVars, tableVars
<1>10. CASE Kill(w)
  BY <1>10, <1>u, <1>0, <1>1, <1>e DEF Kill, Rollback, apiVars, redisVars
<1>11. QED
  BY <1>2, <1>3, <1>4, <1>5, <1>6, <1>7, <1>8, <1>9, <1>10 DEF Run

(* Every step of the pipeline keeps the types. *)
LEMMA NextTypes == TypeInv /\ [Next]_vars => TypeInv'
<1> SUFFICES ASSUME TypeInv, [Next]_vars PROVE TypeInv'
  OBVIOUS
<1>1. CASE \E r \in Requests : Arrive(r) \/ Serve(r) \/ Vanish(r)
  BY <1>1, RequestTypes
<1>2. CASE \E k \in Keys : ExpireMarker(k)
  BY <1>2 DEF ExpireMarker, TypeInv, TypeOK, KeyedSteps, RunsHoldEvents, HasKey, Key,
     apiVars, workerVars, tableVars
<1>3. CASE \E w \in Runs : Run(w) \/ PopError(w) \/ DeadLetterError(w) \/ Kill(w)
  BY <1>3, RunTypes
<1>4. CASE UNCHANGED vars
  BY <1>4 DEF vars, apiVars, workerVars, redisVars, tableVars, TypeInv, TypeOK,
     KeyedSteps, RunsHoldEvents, HasKey, Key
<1>5. QED
  BY <1>1, <1>2, <1>3, <1>4 DEF Next

(* The type invariant holds in every reachable state. *)
LEMMA TypeInvariance == Spec => []TypeInv
  BY InitTypes, NextTypes, PTL DEF Spec

(* Every reachable state of the pipeline is well typed. *)
THEOREM TypeCorrect == Spec => []TypeOK
<1>1. TypeInv => TypeOK
  BY DEF TypeInv
<1>2. QED
  BY <1>1, TypeInvariance, PTL

-----------------------------------------------------------------------------
(* No acknowledged event is lost, and a 201 is true.                       *)
(*                                                                         *)
(* The argument: no step of anybody shrinks the set of accounted events    *)
(* (AccountedGrows); a request on its way to a positive answer has already *)
(* put its events there, or in its own open transaction, which the commit  *)
(* that precedes the answer turns into rows.                               *)

Accounted == InTransit \cup Stored \cup dlq \cup victims

(* Before the marker is set the event has been pushed. *)
MarkedIsAccounted ==
    \A r \in Requests : pc[r] = "mark" => ToSet(Items[r]) \subseteq Accounted

(* Before a positive answer is sent the events are pushed or flushed. *)
AnswerIsBacked ==
    \A r \in Requests :
        pc[r] = "closing" /\ answer[r] \in {"queued", "stored", "multi"} =>
            ToSet(Items[r]) \subseteq Accounted \cup pend[r]

(* A request that commits a fallback write has its events in its          *)
(* transaction.                                                            *)
StoredIsFlushed ==
    \A r \in Requests : (pc[r] = "closing" /\ answer[r] = "stored") \/ pc[r] = "commit" =>
        pend[r] = ToSet(Items[r])

(* A run about to commit has its whole batch in its transaction. *)
CommitHoldsBatch ==
    \A w \in Runs : wpc[w] = "commit" => pend[w] = ToSet(batch[w])

AccountInv ==
    /\ MarkedIsAccounted
    /\ AnswerIsBacked
    /\ StoredIsFlushed
    /\ CommitHoldsBatch
    /\ AcknowledgedIsAccountedFor
    /\ StoredAnswerIsCommitted

(* A commit makes the flushed events rows, and no step deletes a row. *)
LEMMA CommitStores ==
    ASSUME TypeOK, NEW t \in Txns, NEW side \in {"api", "worker"}, NEW o, Commit(t, side, o)
    PROVE  /\ rows \subseteq rows'
           /\ Stored \subseteq Stored'
           /\ ~Raised(o) => /\ pend[t] \subseteq Stored'
                            /\ side = "api" => pend[t] \subseteq ApiRows'
<1>1. rows \subseteq rows'
  BY DEF Commit
<1>2. Stored \subseteq Stored'
  BY <1>1 DEF Stored
<1>3. ASSUME ~Raised(o), NEW e \in pend[t]
      PROVE  [ev |-> e, by |-> side] \in rows'
  BY <1>3 DEF Commit, Raised, Applied, RowsOf
<1>4. ASSUME ~Raised(o), NEW e \in pend[t]
      PROVE  e \in Stored' /\ (side = "api" => e \in ApiRows')
  <2>1. PICK x \in rows' : x = [ev |-> e, by |-> side]
    BY <1>3, <1>4
  <2>2. x.ev = e /\ x.by = side
    BY <2>1
  <2>3. QED
    BY <2>2 DEF Stored, ApiRows
<1>5. QED
  BY <1>1, <1>2, <1>4

(* What is in a batch is in transit. *)
LEMMA InBatchesByRun ==
    \A e : e \in InBatches <=> \E w \in Runs : e \in ToSet(batch[w])
  BY DEF InBatches

(* A step of a request leaves every accounted event accounted for. *)
LEMMA RequestKeepsAccounted ==
    ASSUME TypeInv, NEW r \in Requests, Arrive(r) \/ Serve(r) \/ Vanish(r)
    PROVE  /\ Accounted \subseteq Accounted'
           /\ rows \subseteq rows'
           /\ UNCHANGED <<wpc, batch>>
<1>1. batch' = batch /\ wpc' = wpc /\ victims' = victims /\ dlq' = dlq
  BY DEF Arrive, Serve, LookUpMarker, LookUpRow, Push, Mark, Fallback, CommitFallback, Close, Vanish,
     workerVars, redisVars
<1>2. ToSet(queue) \subseteq ToSet(queue')
  <2>1. CASE Push(r)
    <3>1. queue \in Seq(Events) /\ Items[r] \in Seq(Events)
      BY ItemsAreEvents DEF TypeInv, TypeOK
    <3>2. queue' = queue \/ queue' = queue \o Items[r]
      BY <2>1 DEF Push
    <3>3. ToSet(queue \o Items[r]) = ToSet(queue) \cup ToSet(Items[r])
      BY <3>1, ElementsOfConcat
    <3>4. QED
      BY <3>2, <3>3
  <2>2. CASE ~Push(r)
    <3>1. queue' = queue
      BY <2>2 DEF Arrive, Serve, LookUpMarker, LookUpRow, Mark, Fallback, CommitFallback, Close, Vanish,
         redisVars
    <3>2. QED
      BY <3>1
  <2>3. QED
    BY <2>1, <2>2
<1>3. rows \subseteq rows'
  BY DEF Arrive, Serve, LookUpMarker, LookUpRow, Push, Mark, Fallback, CommitFallback, Close, Vanish,
     Fail, Rollback, Commit, tableVars
<1>4. Stored \subseteq Stored'
  BY <1>3 DEF Stored
<1>5. InBatches' = InBatches
  BY <1>1 DEF InBatches
<1>6. QED
  BY <1>1, <1>2, <1>3, <1>4, <1>5 DEF Accounted, InTransit

(* Nor does a step of a run lose one, unless it records the loss. *)
LEMMA RunKeepsAccounted ==
    ASSUME TypeInv, CommitHoldsBatch, NEW w \in Runs,
           Run(w) \/ PopError(w) \/ DeadLetterError(w) \/ Kill(w)
    PROVE  /\ Accounted \subseteq Accounted'
           /\ rows \subseteq rows'
<1> USE DEF TypeInv, TypeOK
<1>0. /\ batch \in [Runs -> Seq(Events)] /\ batch[w] \in Seq(Events)
      /\ queue \in Seq(Events) /\ w \in Txns
  BY DEF Txns
<1>1. rows \subseteq rows'
  BY DEF Run, Tick, Pop, StopPopping, Insert, CommitBatch, DeadLetter, PopError,
     DeadLetterError, Kill, Rollback, Commit, tableVars
<1>2. Stored \subseteq Stored'
  BY <1>1 DEF Stored
<1>3. dlq \subseteq dlq' /\ victims \subseteq victims'
  BY DEF Run, Tick, Pop, StopPopping, Insert, CommitBatch, DeadLetter, PopError,
     DeadLetterError, Kill, EndRun, redisVars
<1>4. \A v \in Runs : v # w => batch'[v] = batch[v]
  BY DEF Run, Tick, Pop, StopPopping, Insert, CommitBatch, DeadLetter, PopError,
     DeadLetterError, Kill, EndRun
<1>5. ToSet(batch[w]) \subseteq Accounted'
  <2>1. CASE ToSet(batch[w]) \subseteq ToSet(batch'[w])
    BY <2>1, InBatchesByRun DEF Accounted, InTransit, InBatches
  <2>2. CASE Pop(w)
    <3>1. Head(queue) \in Events /\ batch'[w] = Append(batch[w], Head(queue))
      BY <1>0, <2>2, ElementsOfTail DEF Pop
    <3>2. ToSet(batch[w]) \subseteq ToSet(batch'[w])
      BY <1>0, <3>1, ElementsOfAppend
    <3>3. QED
      BY <3>2, <2>1
  <2>3. CASE Tick(w) \/ StopPopping(w) \/ Insert(w)
    BY <2>1, <2>3 DEF Tick, StopPopping, Insert
  <2>4. CASE CommitBatch(w)
    <3>1. PICK o \in DbOutcomes :
             /\ Commit(w, "worker", o)
             /\ \/ Raised(o) /\ UNCHANGED batch
                \/ ~Raised(o)
      BY <2>4 DEF CommitBatch
    <3>2. CASE UNCHANGED batch
      BY <2>1, <3>2
    <3>3. CASE ~Raised(o)
      <4>1. pend[w] \subseteq Stored'
        BY <1>0, <3>1, <3>3, CommitStores
      <4>2. pend[w] = ToSet(batch[w])
        BY <2>4 DEF CommitHoldsBatch, CommitBatch
      <4>3. QED
        BY <4>1, <4>2 DEF Accounted
    <3>4. QED
      BY <3>1, <3>2, <3>3
  <2>5. CASE DeadLetter(w)
    <3>1. batch[w] # <<>>
      BY <2>5 DEF DeadLetter, RunsHoldEvents
    <3>2. ToSet(batch[w]) = {Head(batch[w])} \cup ToSet(Tail(batch[w]))
      BY <1>0, <3>1, ElementsOfTail
    <3>3. Head(batch[w]) \in dlq' /\ batch'[w] = Tail(batch[w])
      BY <1>0, <2>5 DEF DeadLetter
    <3>4. QED
      BY <3>2, <3>3, InBatchesByRun DEF Accounted, InTransit, InBatches
  <2>6. CASE PopError(w)
    <3>1. ToSet(batch[w]) \subseteq victims'
      BY <2>6 DEF PopError, EndRun
    <3>2. QED
      BY <3>1 DEF Accounted
  <2>7. CASE DeadLetterError(w)
    <3>1. batch[w] # <<>>
      BY <2>7 DEF DeadLetterError, RunsHoldEvents
    <3>2. ToSet(batch[w]) = {Head(batch[w])} \cup ToSet(Tail(batch[w]))
      BY <1>0, <3>1, ElementsOfTail
    <3>3. ToSet(batch[w]) \subseteq victims' \cup dlq'
      BY <2>7, <3>2 DEF DeadLetterError, EndRun
    <3>4. QED
      BY <3>3 DEF Accounted
  <2>8. CASE Kill(w)
    <3>1. ToSet(batch[w]) \subseteq victims'
      BY <2>8 DEF Kill, EndRun
    <3>2. QED
      BY <3>1 DEF Accounted
  <2>9. QED
    BY <2>2, <2>3, <2>4, <2>5, <2>6, <2>7, <2>8 DEF Run
<1>6. ToSet(queue) \subseteq Accounted'
  <2>1. CASE UNCHANGED queue
    BY <2>1 DEF Accounted, InTransit
  <2>2. CASE queue # <<>> /\ queue' = Tail(queue) /\ Head(queue) \in Accounted'
    <3>1. ToSet(queue) = {Head(queue)} \cup ToSet(queue')
      BY <1>0, <2>2, ElementsOfTail
    <3>2. QED
      BY <2>2, <3>1 DEF Accounted, InTransit
  <2>3. CASE Pop(w)
    <3>1. queue # <<>> /\ queue' = Tail(queue) /\ Head(queue) \in Events
          /\ batch'[w] = Append(batch[w], Head(queue))
      BY <1>0, <2>3, ElementsOfTail DEF Pop
    <3>2. Head(queue) \in ToSet(batch'[w])
      BY <1>0, <3>1, ElementsOfAppend
    <3>3. Head(queue) \in Accounted'
      BY <3>2, InBatchesByRun DEF Accounted, InTransit, InBatches
    <3>4. QED
      BY <2>2, <3>1, <3>3
  <2>4. CASE PopError(w)
    <3>1. \/ UNCHANGED queue
          \/ queue # <<>> /\ queue' = Tail(queue) /\ Head(queue) \in victims'
      BY <2>4 DEF PopError, EndRun
    <3>2. QED
      BY <2>1, <2>2, <3>1 DEF Accounted
  <2>5. CASE ~Pop(w) /\ ~PopError(w)
    <3>1. UNCHANGED queue
      BY <2>5 DEF Run, Tick, StopPopping, Insert, CommitBatch, DeadLetter,
         DeadLetterError, Kill, redisVars
    <3>2. QED
      BY <2>1, <3>1
  <2>6. QED
    BY <2>3, <2>4, <2>5
<1>7. InBatches \subseteq Accounted'
  <2>1. ASSUME NEW v \in Runs, v # w PROVE ToSet(batch[v]) \subseteq Accounted'
    BY <1>4, <2>1, InBatchesByRun DEF Accounted, InTransit, InBatches
  <2>2. QED
    BY <2>1, <1>5, InBatchesByRun
<1>8. QED
  BY <1>1, <1>2, <1>3, <1>6, <1>7 DEF Accounted, InTransit

(* A step of a request changes nothing of another request's, or a run's. *)
LEMMA RequestFrame ==
    ASSUME TypeInv, NEW r \in Requests, Arrive(r) \/ Serve(r) \/ Vanish(r)
    PROVE  /\ \A q \in Requests : q # r =>
                 pc'[q] = pc[q] /\ answer'[q] = answer[q] /\ pend'[q] = pend[q]
           /\ \A w \in Runs : pend'[w] = pend[w]
<1> USE DEF TypeInv, TypeOK, Txns
<1>1. \A w \in Runs : w # r
  BY RequestAssumption
<1>2. \A q \in Requests : q # r => pc'[q] = pc[q] /\ answer'[q] = answer[q]
  BY DEF Arrive, Serve, LookUpMarker, LookUpRow, Push, Mark, Fallback, CommitFallback, Close, Vanish,
     Fail, Goto, Return
<1>3. \A t \in Txns : t # r => pend'[t] = pend[t]
  BY DEF Arrive, Serve, LookUpMarker, LookUpRow, Push, Mark, Fallback, CommitFallback, Close, Vanish,
     Fail, FlushOk, Commit, Rollback, tableVars
<1>4. QED
  BY <1>1, <1>2, <1>3

(* A step of a run changes nothing of a request's, or of another run's. *)
LEMMA RunFrame ==
    ASSUME TypeInv, NEW w \in Runs,
           Run(w) \/ PopError(w) \/ DeadLetterError(w) \/ Kill(w)
    PROVE  /\ pc' = pc /\ answer' = answer
           /\ \A t \in Txns : t # w => pend'[t] = pend[t]
           /\ \A v \in Runs : v # w => wpc'[v] = wpc[v] /\ batch'[v] = batch[v]
<1> USE DEF TypeInv, TypeOK
<1>1. pc' = pc /\ answer' = answer
  BY DEF Run, Tick, Pop, StopPopping, Insert, CommitBatch, DeadLetter, PopError,
     DeadLetterError, Kill, apiVars
<1>2. \A t \in Txns : t # w => pend'[t] = pend[t]
  BY DEF Run, Tick, Pop, StopPopping, Insert, CommitBatch, DeadLetter, PopError,
     DeadLetterError, Kill, FlushOk, Rollback, Commit, tableVars
<1>3. \A v \in Runs : v # w => wpc'[v] = wpc[v] /\ batch'[v] = batch[v]
  BY DEF Run, Tick, Pop, StopPopping, Insert, CommitBatch, DeadLetter, PopError,
     DeadLetterError, Kill, EndRun, RunGoto
<1>4. QED
  BY <1>1, <1>2, <1>3

(* The request that takes the step keeps its own part of the invariant. *)
LEMMA RequestKeepsOwnAccount ==
    ASSUME TypeInv, AccountInv, NEW r \in Requests, Arrive(r) \/ Serve(r) \/ Vanish(r)
    PROVE  /\ pc'[r] = "mark" => ToSet(Items[r]) \subseteq Accounted'
           /\ pc'[r] = "closing" /\ answer'[r] \in {"queued", "stored", "multi"} =>
                 ToSet(Items[r]) \subseteq Accounted' \cup pend'[r]
           /\ (pc'[r] = "closing" /\ answer'[r] = "stored") \/ pc'[r] = "commit" =>
                 pend'[r] = ToSet(Items[r])
           /\ pc'[r] = "done" /\ answer'[r] \in {"queued", "stored", "multi"} =>
                 ToSet(Items[r]) \subseteq Accounted'
           /\ pc'[r] = "done" /\ answer'[r] = "stored" => ToSet(Items[r]) \subseteq ApiRows'
<1> DEFINE E == ToSet(Items[r])
<1> USE DEF TypeInv, TypeOK
<1>0. Accounted \subseteq Accounted' /\ r \in Txns
  BY RequestKeepsAccounted DEF Txns
<1>1. CASE Arrive(r)
  BY <1>1 DEF Arrive, Goto
<1>2. CASE LookUpMarker(r)
  BY <1>2 DEF LookUpMarker, Goto, Return
<1>3. CASE LookUpRow(r)
  BY <1>3 DEF LookUpRow, Goto, Return, Fail
<1>4. CASE Push(r)
  <2>1. PICK o \in RedisOutcomes :
           /\ queue' = IF Applied(o) THEN queue \o Items[r] ELSE queue
           /\ \/ Raised(o) /\ Goto(r, "fallback")
              \/ ~Raised(o) /\ Goto(r, "mark")
              \/ ~Raised(o) /\ Return(r, IF r \in Batches THEN "multi" ELSE "queued")
    BY <1>4 DEF Push
  <2>2. CASE Raised(o)
    <3>1. pc'[r] = "fallback"
      BY <2>1, <2>2 DEF Goto
    <3>2. QED
      BY <3>1
  <2>3. CASE ~Raised(o)
    <3>1. queue' = queue \o Items[r]
      BY <2>1, <2>3 DEF Raised, Applied
    <3>2. queue \in Seq(Events) /\ Items[r] \in Seq(Events)
      BY ItemsAreEvents
    <3>3. ToSet(queue \o Items[r]) = ToSet(queue) \cup E
      BY <3>2, ElementsOfConcat
    <3>4. E \subseteq Accounted'
      BY <3>1, <3>3 DEF Accounted, InTransit
    <3>5. pc'[r] = "mark" \/ (pc'[r] = "closing" /\ answer'[r] \in {"multi", "queued"})
      BY <2>1, <2>3 DEF Goto, Return
    <3>6. QED
      BY <3>4, <3>5
  <2>4. QED
    BY <2>2, <2>3
<1>5. CASE Mark(r)
  <2>1. E \subseteq Accounted'
    BY <1>0, <1>5 DEF Mark, AccountInv, MarkedIsAccounted
  <2>2. pc'[r] = "fallback" \/ (pc'[r] = "closing" /\ answer'[r] = "queued")
    BY <1>5 DEF Mark, Goto, Return
  <2>3. QED
    BY <2>1, <2>2
<1>6. CASE Fallback(r)
  <2>1. CASE FlushOk(r, E) /\ (Goto(r, "commit") \/ Return(r, "stored"))
    <3>1. pend'[r] = E /\ pc'[r] \in {"commit", "closing"}
      BY <1>0, <2>1 DEF FlushOk, Return, Goto
    <3>2. QED
      BY <3>1
  <2>2. CASE Fail(r)
    BY <2>2 DEF Fail, Goto
  <2>3. QED
    BY <1>6, <2>1, <2>2 DEF Fallback
<1>7. CASE Close(r)
  <2>1. PICK o \in DbOutcomes :
           /\ Commit(r, "api", o)
           /\ answer' = [answer EXCEPT ![r] = IF Raised(o) THEN "error" ELSE @]
    BY <1>7 DEF Close
  <2>2. pc[r] = "closing" /\ pc'[r] = "done"
    BY <1>7 DEF Close, Goto
  <2>3. CASE Raised(o)
    <3>1. answer'[r] = "error"
      BY <2>1, <2>3
    <3>2. QED
      BY <2>2, <3>1
  <2>4. CASE ~Raised(o)
    <3>1. answer'[r] = answer[r]
      BY <2>1, <2>4
    <3>2. pend[r] \subseteq Stored' /\ pend[r] \subseteq ApiRows'
      BY <1>0, <2>1, <2>4, CommitStores
    <3>3. answer[r] \in {"queued", "stored", "multi"} => E \subseteq Accounted'
      BY <1>0, <2>2, <3>2 DEF AccountInv, AnswerIsBacked, Accounted
    <3>4. answer[r] = "stored" => E \subseteq ApiRows'
      BY <2>2, <3>2 DEF AccountInv, StoredIsFlushed
    <3>5. QED
      BY <2>2, <3>1, <3>3, <3>4
  <2>5. QED
    BY <2>3, <2>4
<1>8. CASE CommitFallback(r)
  <2>1. PICK o \in DbOutcomes :
           /\ Commit(r, "api", o)
           /\ answer' = [answer EXCEPT ![r] = IF Raised(o) THEN "error" ELSE "multi"]
    BY <1>8 DEF CommitFallback
  <2>2. pc[r] = "commit" /\ pc'[r] = "done"
    BY <1>8 DEF CommitFallback, Goto
  <2>3. CASE Raised(o)
    <3>1. answer'[r] = "error"
      BY <2>1, <2>3
    <3>2. QED
      BY <2>2, <3>1
  <2>4. CASE ~Raised(o)
    <3>1. answer'[r] = "multi"
      BY <2>1, <2>4
    <3>2. E \subseteq Stored'
      BY <1>0, <2>1, <2>2, <2>4, CommitStores DEF AccountInv, StoredIsFlushed
    <3>3. QED
      BY <2>2, <3>1, <3>2 DEF Accounted
  <2>5. QED
    BY <2>3, <2>4
<1>9. CASE Vanish(r)
  BY <1>9 DEF Vanish, Goto
<1>10. QED
  BY <1>1, <1>2, <1>3, <1>4, <1>5, <1>6, <1>7, <1>8, <1>9 DEF Serve

(* The parts of the invariant that belong to one request hold after a step *)
(* that leaves the request alone.                                          *)
LEMMA OthersKeepAccount ==
    ASSUME AccountInv, NEW q \in Requests,
           pc'[q] = pc[q], answer'[q] = answer[q], pend'[q] = pend[q],
           Accounted \subseteq Accounted', rows \subseteq rows'
    PROVE  /\ pc'[q] = "mark" => ToSet(Items[q]) \subseteq Accounted'
           /\ pc'[q] = "closing" /\ answer'[q] \in {"queued", "stored", "multi"} =>
                 ToSet(Items[q]) \subseteq Accounted' \cup pend'[q]
           /\ (pc'[q] = "closing" /\ answer'[q] = "stored") \/ pc'[q] = "commit" =>
                 pend'[q] = ToSet(Items[q])
           /\ pc'[q] = "done" /\ answer'[q] \in {"queued", "stored", "multi"} =>
                 ToSet(Items[q]) \subseteq Accounted'
           /\ pc'[q] = "done" /\ answer'[q] = "stored" => ToSet(Items[q]) \subseteq ApiRows'
<1>1. ApiRows \subseteq ApiRows'
  BY DEF ApiRows
<1>2. QED
  BY <1>1 DEF AccountInv, MarkedIsAccounted, AnswerIsBacked, StoredIsFlushed,
     AcknowledgedIsAccountedFor, StoredAnswerIsCommitted, Acknowledged, Accounted

(* Nothing is acknowledged initially. *)
LEMMA InitAccount == Init => AccountInv
  BY DEF Init, AccountInv, MarkedIsAccounted, AnswerIsBacked, StoredIsFlushed,
     CommitHoldsBatch, AcknowledgedIsAccountedFor, StoredAnswerIsCommitted, Acknowledged

(* A step of a request keeps the accounting invariant. *)
LEMMA RequestKeepsAccount ==
    ASSUME TypeInv, AccountInv, NEW r \in Requests, Arrive(r) \/ Serve(r) \/ Vanish(r)
    PROVE  AccountInv'
<1>1. \A q \in Requests :
         /\ pc'[q] = "mark" => ToSet(Items[q]) \subseteq Accounted'
         /\ pc'[q] = "closing" /\ answer'[q] \in {"queued", "stored", "multi"} =>
               ToSet(Items[q]) \subseteq Accounted' \cup pend'[q]
         /\ (pc'[q] = "closing" /\ answer'[q] = "stored") \/ pc'[q] = "commit" =>
               pend'[q] = ToSet(Items[q])
         /\ pc'[q] = "done" /\ answer'[q] \in {"queued", "stored", "multi"} =>
               ToSet(Items[q]) \subseteq Accounted'
         /\ pc'[q] = "done" /\ answer'[q] = "stored" => ToSet(Items[q]) \subseteq ApiRows'
  <2>1. ASSUME NEW q \in Requests, q # r
        PROVE  /\ pc'[q] = pc[q] /\ answer'[q] = answer[q] /\ pend'[q] = pend[q]
               /\ Accounted \subseteq Accounted' /\ rows \subseteq rows'
    BY <2>1, RequestFrame, RequestKeepsAccounted
  <2>2. QED
    BY <2>1, OthersKeepAccount, RequestKeepsOwnAccount
<1>2. CommitHoldsBatch'
  BY RequestFrame, RequestKeepsAccounted DEF AccountInv, CommitHoldsBatch
<1>3. QED
  BY <1>1, <1>2 DEF AccountInv, MarkedIsAccounted, AnswerIsBacked, StoredIsFlushed,
     AcknowledgedIsAccountedFor, StoredAnswerIsCommitted, Acknowledged, Accounted

(* A step of a worker run keeps the accounting invariant. *)
LEMMA RunKeepsAccount ==
    ASSUME TypeInv, AccountInv, NEW w \in Runs,
           Run(w) \/ PopError(w) \/ DeadLetterError(w) \/ Kill(w)
    PROVE  AccountInv'
<1>0. CommitHoldsBatch
  BY DEF AccountInv
<1>1. \A q \in Requests :
         /\ pc'[q] = pc[q] /\ answer'[q] = answer[q] /\ pend'[q] = pend[q]
         /\ Accounted \subseteq Accounted' /\ rows \subseteq rows'
  <2>1. \A q \in Requests : q # w /\ q \in Txns
    BY RequestAssumption DEF Txns
  <2>2. QED
    BY <1>0, <2>1, RunFrame, RunKeepsAccounted
<1>2. CommitHoldsBatch'
  <2>1. \A v \in Runs : v # w => pend'[v] = pend[v] /\ wpc'[v] = wpc[v] /\ batch'[v] = batch[v]
    BY RunFrame DEF Txns
  <2>2. wpc'[w] = "commit" => pend'[w] = ToSet(batch'[w])
    <3> USE DEF TypeInv, TypeOK
    <3>1. CASE Insert(w)
      BY <3>1 DEF Insert, FlushOk, RunGoto, Txns
    <3>2. CASE Pop(w)
      BY <3>2 DEF Pop
    <3>3. CASE Tick(w) \/ StopPopping(w) \/ CommitBatch(w) \/ DeadLetter(w)
               \/ PopError(w) \/ DeadLetterError(w) \/ Kill(w)
      <4>1. wpc'[w] # "commit"
        BY <3>3 DEF Tick, StopPopping, CommitBatch, DeadLetter, PopError, DeadLetterError,
           Kill, EndRun, RunGoto
      <4>2. QED
        BY <4>1
    <3>4. QED
      BY <3>1, <3>2, <3>3 DEF Run
  <2>3. QED
    BY <1>0, <2>1, <2>2 DEF CommitHoldsBatch
<1>3. \A q \in Requests :
         /\ pc'[q] = "mark" => ToSet(Items[q]) \subseteq Accounted'
         /\ pc'[q] = "closing" /\ answer'[q] \in {"queued", "stored", "multi"} =>
               ToSet(Items[q]) \subseteq Accounted' \cup pend'[q]
         /\ (pc'[q] = "closing" /\ answer'[q] = "stored") \/ pc'[q] = "commit" =>
               pend'[q] = ToSet(Items[q])
         /\ pc'[q] = "done" /\ answer'[q] \in {"queued", "stored", "multi"} =>
               ToSet(Items[q]) \subseteq Accounted'
         /\ pc'[q] = "done" /\ answer'[q] = "stored" => ToSet(Items[q]) \subseteq ApiRows'
  BY <1>1, OthersKeepAccount
<1>4. QED
  BY <1>2, <1>3 DEF AccountInv, MarkedIsAccounted, AnswerIsBacked, StoredIsFlushed,
     AcknowledgedIsAccountedFor, StoredAnswerIsCommitted, Acknowledged, Accounted

(* Every step of the pipeline keeps the accounting invariant. *)
LEMMA NextAccount == TypeInv /\ AccountInv /\ [Next]_vars => AccountInv'
<1> SUFFICES ASSUME TypeInv, AccountInv, [Next]_vars PROVE AccountInv'
  OBVIOUS
<1>1. CASE \E r \in Requests : Arrive(r) \/ Serve(r) \/ Vanish(r)
  BY <1>1, RequestKeepsAccount
<1>2. CASE \E w \in Runs : Run(w) \/ PopError(w) \/ DeadLetterError(w) \/ Kill(w)
  BY <1>2, RunKeepsAccount
<1>3. CASE (\E k \in Keys : ExpireMarker(k)) \/ UNCHANGED vars
  <2>1. UNCHANGED <<pc, answer, pend, rows, queue, dlq, victims, wpc, batch>>
    BY <1>3 DEF ExpireMarker, vars, apiVars, workerVars, redisVars, tableVars
  <2>2. QED
    BY <2>1 DEF AccountInv, MarkedIsAccounted, AnswerIsBacked, StoredIsFlushed,
       CommitHoldsBatch, AcknowledgedIsAccountedFor, StoredAnswerIsCommitted, Acknowledged,
       Accounted, InTransit, InBatches, Stored, ApiRows
<1>4. QED
  BY <1>1, <1>2, <1>3 DEF Next

(* The accounting invariant holds in every reachable state. *)
LEMMA AccountInvariance == Spec => []AccountInv
  BY InitAccount, NextAccount, TypeInvariance, PTL DEF Spec

(* An acknowledged event is on the queue, in a run's hands, a row, a dead  *)
(* letter, or among the events a fault took from a run: nothing else loses *)
(* it, however many requests and runs overlap and whatever Redis and the   *)
(* database do.                                                            *)
THEOREM NoAcknowledgedEventVanishes == Spec => []AcknowledgedIsAccountedFor
<1>1. AccountInv => AcknowledgedIsAccountedFor
  BY DEF AccountInv
<1>2. QED
  BY <1>1, AccountInvariance, PTL

(* A client that reads 201 reads it after the commit of its row. *)
THEOREM StoredAnswersAreTrue == Spec => []StoredAnswerIsCommitted
<1>1. AccountInv => StoredAnswerIsCommitted
  BY DEF AccountInv
<1>2. QED
  BY <1>1, AccountInvariance, PTL

-----------------------------------------------------------------------------
(* The unique index: committed rows and flushed rows never contend.        *)

(* Neither inside a transaction, nor between open transactions, nor        *)
(* between an open transaction and the table do two rows share a slot.     *)
SlotInv ==
    /\ \A t \in Txns : \A e, f \in pend[t] : SameSlot(e, f) => e = f
    /\ \A t, u \in Txns : t # u => ~Clash(pend[t], pend[u])
    /\ \A t \in Txns : ~Clash(pend[t], Stored)
    /\ OneRowPerSlot

(* Sharing a slot of the unique index is symmetric. *)
LEMMA SameSlotIsSymmetric == \A e, f : SameSlot(e, f) => SameSlot(f, e)
  BY DEF SameSlot

(* A flush claims free slots only. *)
LEMMA FlushKeepsSlots ==
    ASSUME TypeOK, SlotInv, NEW t \in Txns, NEW E \in SUBSET Events,
           FlushOk(t, E), UNCHANGED rows
    PROVE  SlotInv'
<1>1. pend'[t] = E /\ \A u \in Txns : u # t => pend'[u] = pend[u]
  BY DEF TypeOK, FlushOk
<1>2. Stored' = Stored /\ OneRowPerSlot'
  BY DEF Stored, SlotInv, OneRowPerSlot, SameSlot
<1>3. \A u \in Txns : u # t => ~Clash(E, pend[u]) /\ ~Clash(pend[u], E)
  BY SameSlotIsSymmetric DEF FlushOk, Clash
<1>4. \A u, v \in Txns : u # v => ~Clash(pend'[u], pend'[v])
  BY <1>1, <1>3 DEF SlotInv
<1>5. \A u \in Txns : ~Clash(pend'[u], Stored')
  BY <1>1, <1>2 DEF SlotInv, FlushOk
<1>6. \A u \in Txns : \A e, f \in pend'[u] : SameSlot(e, f) => e = f
  BY <1>1 DEF SlotInv, FlushOk
<1>7. QED
  BY <1>2, <1>4, <1>5, <1>6 DEF SlotInv, Clash, SameSlot

(* A rollback frees slots. *)
LEMMA RollbackKeepsSlots ==
    ASSUME TypeOK, SlotInv, NEW t \in Txns, Rollback(t)
    PROVE  SlotInv'
<1>1. pend'[t] = {} /\ \A u \in Txns : u # t => pend'[u] = pend[u]
  BY DEF TypeOK, Rollback
<1>2. Stored' = Stored /\ rows' = rows
  BY DEF Stored, Rollback
<1>3. QED
  BY <1>1, <1>2 DEF SlotInv, OneRowPerSlot, Clash, SameSlot

(* A commit moves a transaction's slots to the table. *)
LEMMA CommitKeepsSlots ==
    ASSUME TypeOK, SlotInv, NEW t \in Txns, NEW side \in {"api", "worker"}, NEW o,
           Commit(t, side, o)
    PROVE  SlotInv'
<1>1. pend'[t] = {} /\ \A u \in Txns : u # t => pend'[u] = pend[u]
  BY DEF TypeOK, Commit
<1>2. CASE ~Applied(o)
  <2>1. Stored' = Stored /\ rows' = rows
    BY <1>2 DEF Stored, Commit
  <2>2. QED
    BY <1>1, <2>1 DEF SlotInv, OneRowPerSlot, Clash, SameSlot
<1>3. CASE Applied(o)
  <2>1. rows' = rows \cup RowsOf(pend[t], side)
    BY <1>3 DEF Commit
  <2>2. \A x \in rows' : x \in rows \/ (x.ev \in pend[t] /\ x.by = side /\ x = [ev |-> x.ev, by |-> x.by])
    BY <2>1 DEF RowsOf
  <2>3. \A x \in rows : x.ev \in Stored
    BY DEF Stored
  <2>4. \A e \in Stored' : e \in Stored \/ e \in pend[t]
    BY <2>2, <2>3 DEF Stored
  <2>5. \A u \in Txns : ~Clash(pend'[u], Stored')
    BY <1>1, <2>4 DEF SlotInv, Clash
  <2>6. OneRowPerSlot'
    <3> SUFFICES ASSUME NEW x \in rows', NEW y \in rows', SameSlot(x.ev, y.ev)
                 PROVE  x = y
      BY DEF OneRowPerSlot, SameSlot
    <3>1. CASE x \in rows /\ y \in rows
      BY <3>1 DEF SlotInv, OneRowPerSlot
    <3>2. CASE x \in rows /\ y \notin rows
      BY <3>2, <2>2, <2>3, SameSlotIsSymmetric DEF SlotInv, Clash
    <3>3. CASE x \notin rows /\ y \in rows
      BY <3>3, <2>2, <2>3 DEF SlotInv, Clash
    <3>4. CASE x \notin rows /\ y \notin rows
      <4>1. x.ev = y.ev /\ x.by = y.by
        BY <3>4, <2>2 DEF SlotInv
      <4>2. x = [ev |-> x.ev, by |-> x.by] /\ y = [ev |-> y.ev, by |-> y.by]
        BY <3>4, <2>2
      <4>3. QED
        BY <4>1, <4>2
    <3>5. QED
      BY <3>1, <3>2, <3>3, <3>4
  <2>7. \A u, v \in Txns : u # v => ~Clash(pend'[u], pend'[v])
    BY <1>1 DEF SlotInv, Clash
  <2>8. \A u \in Txns : \A e, f \in pend'[u] : SameSlot(e, f) => e = f
    BY <1>1 DEF SlotInv
  <2>9. QED
    BY <2>5, <2>6, <2>7, <2>8 DEF SlotInv, Clash, SameSlot
<1>4. QED
  BY <1>2, <1>3

(* The empty table has no two rows in one slot. *)
LEMMA InitSlots == Init => SlotInv
  BY DEF Init, SlotInv, Clash, OneRowPerSlot, Txns

(* Every step of the pipeline keeps the slots of the unique index apart. *)
LEMMA NextSlots == TypeInv /\ SlotInv /\ [Next]_vars => SlotInv'
<1> SUFFICES ASSUME TypeInv, SlotInv, [Next]_vars PROVE SlotInv'
  OBVIOUS
<1> USE DEF TypeInv
<1>u. ASSUME UNCHANGED tableVars PROVE SlotInv'
  BY <1>u DEF tableVars, SlotInv, OneRowPerSlot, Clash, SameSlot, Stored
<1>1. ASSUME NEW r \in Requests, Arrive(r) \/ Serve(r) \/ Vanish(r) PROVE SlotInv'
  <2>0. r \in Txns /\ ToSet(Items[r]) \in SUBSET Events
    BY ItemsAreEvents DEF Txns
  <2>1. CASE Arrive(r) \/ LookUpMarker(r) \/ Push(r) \/ Mark(r)
    BY <2>1, <1>u DEF Arrive, LookUpMarker, Push, Mark
  <2>2. CASE LookUpRow(r)
    BY <2>0, <2>2, <1>u, RollbackKeepsSlots DEF LookUpRow, Fail
  <2>3. CASE Fallback(r)
    BY <2>0, <2>3, FlushKeepsSlots, RollbackKeepsSlots DEF Fallback, Fail
  <2>4. CASE Close(r)
    BY <2>0, <2>4, CommitKeepsSlots DEF Close
  <2>5. CASE CommitFallback(r)
    BY <2>0, <2>5, CommitKeepsSlots DEF CommitFallback
  <2>6. CASE Vanish(r)
    BY <2>0, <2>6, RollbackKeepsSlots, CommitKeepsSlots DEF Vanish
  <2>7. QED
    BY <1>1, <2>1, <2>2, <2>3, <2>4, <2>5, <2>6 DEF Serve
<1>2. ASSUME NEW w \in Runs, Run(w) \/ PopError(w) \/ DeadLetterError(w) \/ Kill(w)
      PROVE  SlotInv'
  <2>0. w \in Txns /\ ToSet(batch[w]) \in SUBSET Events
    BY ElementsAreValues DEF Txns, TypeOK
  <2>1. CASE Tick(w) \/ Pop(w) \/ StopPopping(w) \/ DeadLetter(w) \/ PopError(w) \/ DeadLetterError(w)
    BY <2>1, <1>u DEF Tick, Pop, StopPopping, DeadLetter, PopError, DeadLetterError
  <2>2. CASE Insert(w)
    BY <2>0, <2>2, FlushKeepsSlots, RollbackKeepsSlots DEF Insert
  <2>3. CASE CommitBatch(w)
    BY <2>0, <2>3, CommitKeepsSlots DEF CommitBatch
  <2>4. CASE Kill(w)
    BY <2>0, <2>4, RollbackKeepsSlots DEF Kill
  <2>5. QED
    BY <1>2, <2>1, <2>2, <2>3, <2>4 DEF Run
<1>3. CASE (\E k \in Keys : ExpireMarker(k)) \/ UNCHANGED vars
  BY <1>3, <1>u DEF ExpireMarker, vars
<1>4. QED
  BY <1>1, <1>2, <1>3 DEF Next

(* However transactions overlap, the table never holds two rows with one   *)
(* application, idempotency key and occurred_at.                           *)
THEOREM UniqueSlots == Spec => []OneRowPerSlot
<1>1. SlotInv => OneRowPerSlot
  BY DEF SlotInv
<1>2. Spec => []SlotInv
  BY InitSlots, NextSlots, TypeInvariance, PTL DEF Spec
<1>3. QED
  BY <1>1, <1>2, PTL

=============================================================================
