---------------------------- MODULE DeliveryProofs ----------------------------
(***************************************************************************)
(* Theorems about where the events of Pipeline are: each in one place at a *)
(* time, none added by a retry that was already answered, and all of it a  *)
(* behaviour of EventLedger.  For any events, requests, runs, keys and     *)
(* faults.                                                                 *)
(***************************************************************************)
EXTENDS PipelineProofs

(* Until its push a request has left no trace: neither in Redis, nor in    *)
(* the hands of a run, nor in the table.                                   *)
Untouched ==
    \A r \in Requests : pc[r] \in {"new", "cache", "table", "push"} =>
        ~TookEffect(r) /\ pend[r] = {}

(* A request's transaction holds events of that request only.              *)
OwnEventsOnly == \A r \in Requests : pend[r] \subseteq ToSet(Items[r])

EffectInv == Untouched /\ OwnEventsOnly

(* A marker was set for every key that was answered 202, or replayed.      *)
AnsweredKeysAreMarked ==
    \A q \in Requests :
        /\ pc[q] \in {"closing", "done"} /\ answer[q] \in {"queued", "replay_cached"}
        /\ HasKey(q)
        => Key(q) \in idem \cup expired

(* What was promised for r's key when r arrived is still there to be seen: *)
(* the row, or the marker unless it expired.                               *)
PromisesLast ==
    \A r \in Requests :
        /\ pc[r] = "new" => known[r] = "nothing"
        /\ known[r] # "nothing" => HasKey(r)
        /\ known[r] = "stored" => Matches(r) # {}
        /\ known[r] = "queued" => Key(r) \in idem \cup expired

Excused(r) == known[r] = "queued" /\ (Key(r) \in expired \/ r \in blind)

(* A retry gets past the two lookups only with an excuse.                  *)
RetriesAreStopped ==
    \A r \in Requests : known[r] # "nothing" =>
        /\ pc[r] = "table" /\ known[r] = "queued" => Excused(r)
        /\ \/ TookEffect(r) \/ pend[r] # {}
           \/ pc[r] \in {"push", "mark", "fallback", "commit"}
           => Excused(r)

RetryInv == AnsweredKeysAreMarked /\ PromisesLast /\ RetriesAreStopped

-----------------------------------------------------------------------------
(* What a step can do to events. *)

(* A request puts its own events on the list, by its push, or into the     *)
(* table, by its commit, and nothing else anywhere.                        *)
LEMMA RequestMoves ==
    ASSUME TypeInv, NEW r \in Requests, Arrive(r) \/ Serve(r) \/ Vanish(r)
    PROVE  /\ UNCHANGED <<wpc, batch, dlq, victims>>
           /\ \/ queue' = queue
              \/ pc[r] = "push" /\ queue' = queue \o Items[r]
           /\ \/ rows' = rows
              \/ pc[r] \in {"commit", "closing"} /\ rows' = rows \cup RowsOf(pend[r], "api")
           /\ \/ pend'[r] \in {pend[r], {}}
              \/ pc[r] = "fallback" /\ pend'[r] = ToSet(Items[r])
           /\ idem \cup expired \subseteq idem' \cup expired' /\ expired' = expired
           /\ blind \subseteq blind'
           /\ \A q \in Requests : q # r => known'[q] = known[q]
           /\ pc[r] # "new" => known'[r] = known[r]
           /\ pc[r] # "done" /\ pc'[r] # "new"
<1> USE DEF TypeInv, TypeOK
<1>0. r \in Txns
  BY DEF Txns
<1>1. UNCHANGED <<wpc, batch, dlq, victims>>
  BY DEF Arrive, Serve, LookUpMarker, LookUpRow, Push, Mark, Fallback, CommitFallback, Close, Vanish,
     workerVars, redisVars
<1>2. queue' = queue \/ (pc[r] = "push" /\ queue' = queue \o Items[r])
  BY DEF Arrive, Serve, LookUpMarker, LookUpRow, Push, Mark, Fallback, CommitFallback, Close, Vanish,
     redisVars
<1>3. rows' = rows \/ (pc[r] \in {"commit", "closing"} /\ rows' = rows \cup RowsOf(pend[r], "api"))
  BY DEF Arrive, Serve, LookUpMarker, LookUpRow, Push, Mark, Fallback, CommitFallback, Close, Vanish,
     Fail, Rollback, Commit, tableVars
<1>4. pend'[r] \in {pend[r], {}} \/ (pc[r] = "fallback" /\ pend'[r] = ToSet(Items[r]))
  BY <1>0 DEF Arrive, Serve, LookUpMarker, LookUpRow, Push, Mark, Fallback, CommitFallback, Close,
     Vanish, Fail, FlushOk, Rollback, Commit, tableVars
<1>5. idem \cup expired \subseteq idem' \cup expired' /\ expired' = expired
  BY DEF Arrive, Serve, LookUpMarker, LookUpRow, Push, Mark, Fallback, CommitFallback, Close, Vanish,
     redisVars
<1>6. /\ blind \subseteq blind'
      /\ \A q \in Requests : q # r => known'[q] = known[q]
      /\ pc[r] # "new" => known'[r] = known[r]
  BY DEF Arrive, Serve, LookUpMarker, LookUpRow, Push, Mark, Fallback, CommitFallback, Close, Vanish
<1>7. pc[r] # "done" /\ pc'[r] # "new"
  BY DEF Arrive, Serve, LookUpMarker, LookUpRow, Push, Mark, Fallback, CommitFallback, Close, Vanish,
     Goto, Return, Fail
<1>8. QED
  BY <1>1, <1>2, <1>3, <1>4, <1>5, <1>6, <1>7

(* What becomes of an event that a run holds or receives.                  *)
Pops(w) ==
    /\ wpc[w] = "popping" /\ queue # <<>>
    /\ queue' = Tail(queue) /\ batch' = [batch EXCEPT ![w] = Append(@, Head(queue))]
    /\ UNCHANGED <<wpc, dlq, victims, rows>>

Idles(w) ==
    /\ wpc[w] # "dlq"
    /\ UNCHANGED <<queue, batch, dlq, victims, rows>>

Stores(w) ==
    /\ wpc[w] = "commit"
    /\ rows' = rows \cup RowsOf(ToSet(batch[w]), "worker")
    /\ \/ wpc'[w] = "dlq" /\ UNCHANGED batch
       \/ batch' = [batch EXCEPT ![w] = <<>>]
    /\ UNCHANGED <<queue, dlq, victims>>

Loses(w) ==
    /\ batch' = [batch EXCEPT ![w] = <<>>]
    /\ \/ /\ queue # <<>> /\ queue' = Tail(queue)
          /\ victims' = victims \cup ToSet(batch[w]) \cup {Head(queue)}
       \/ /\ UNCHANGED queue
          /\ victims' = victims \cup ToSet(batch[w])
    /\ UNCHANGED <<dlq, rows>>

Buries(w) ==
    /\ wpc[w] = "dlq" /\ batch[w] # <<>>
    /\ dlq' = dlq \cup {Head(batch[w])}
    /\ \/ /\ batch' = [batch EXCEPT ![w] = Tail(@)]
          /\ wpc'[w] = "dlq" \/ Tail(batch[w]) = <<>>
          /\ UNCHANGED victims
       \/ /\ batch' = [batch EXCEPT ![w] = <<>>]
          /\ victims' = victims \cup ToSet(Tail(batch[w]))
    /\ UNCHANGED <<queue, rows>>

(* A step of a run pops, idles, stores its batch, loses it or buries it,   *)
(* and touches no request and no marker.                                   *)
LEMMA RunMoves ==
    ASSUME TypeInv, CommitHoldsBatch, NEW w \in Runs,
           Run(w) \/ PopError(w) \/ DeadLetterError(w) \/ Kill(w)
    PROVE  /\ Pops(w) \/ Idles(w) \/ Stores(w) \/ Loses(w) \/ Buries(w)
           /\ UNCHANGED <<idem, expired, pc, answer, known, blind>>
<1> USE DEF TypeInv, TypeOK
<1>0. w \in Txns
  BY DEF Txns
<1>1. UNCHANGED <<idem, expired, pc, answer, known, blind>>
  BY DEF Run, Tick, Pop, StopPopping, Insert, CommitBatch, DeadLetter, PopError,
     DeadLetterError, Kill, apiVars, redisVars
<1>2. CASE Tick(w) \/ StopPopping(w)
  <2>1. Idles(w)
    BY <1>2 DEF Tick, StopPopping, Idles, redisVars, tableVars
  <2>2. QED
    BY <1>1, <2>1
<1>3. CASE Insert(w)
  <2>1. Idles(w)
    BY <1>3 DEF Insert, Rollback, Idles, redisVars
  <2>2. QED
    BY <1>1, <2>1
<1>4. CASE Pop(w)
  <2>1. Pops(w)
    BY <1>4 DEF Pop, Pops, tableVars
  <2>2. QED
    BY <1>1, <2>1
<1>5. CASE CommitBatch(w)
  <2>1. wpc[w] = "commit" /\ pend[w] = ToSet(batch[w]) /\ UNCHANGED <<queue, dlq>>
    BY <1>5 DEF CommitBatch, CommitHoldsBatch, redisVars
  <2>2. PICK o \in DbOutcomes :
           /\ rows' = IF Applied(o) THEN rows \cup RowsOf(ToSet(batch[w]), "worker") ELSE rows
           /\ \/ Raised(o) /\ wpc'[w] = "dlq" /\ UNCHANGED <<batch, victims>>
              \/ ~Raised(o) /\ batch' = [batch EXCEPT ![w] = <<>>] /\ victims' = victims
    BY <1>5, <2>1 DEF CommitBatch, Commit, EndRun, RunGoto
  <2>3. CASE Applied(o)
    BY <1>1, <2>1, <2>2, <2>3 DEF Stores
  <2>4. CASE ~Applied(o)
    BY <1>1, <2>1, <2>2, <2>4 DEF Idles, Applied, Raised
  <2>5. QED
    BY <2>3, <2>4
<1>6. CASE DeadLetter(w)
  <2>1. batch[w] # <<>> /\ batch[w] \in Seq(Events)
    BY <1>6 DEF DeadLetter, RunsHoldEvents
  <2>2. Len(batch[w]) = 1 => Tail(batch[w]) = <<>>
    BY <2>1, TailOfOne
  <2>3. Buries(w)
    BY <1>6, <2>1, <2>2 DEF DeadLetter, RunGoto, Buries, tableVars
  <2>4. QED
    BY <1>1, <2>3
<1>7. CASE PopError(w)
  <2>1. Loses(w)
    BY <1>7 DEF PopError, EndRun, Loses, tableVars
  <2>2. QED
    BY <1>1, <2>1
<1>8. CASE DeadLetterError(w)
  <2>1. batch[w] # <<>>
    BY <1>8 DEF DeadLetterError, RunsHoldEvents
  <2>2. Loses(w) \/ Buries(w)
    BY <1>8, <2>1 DEF DeadLetterError, EndRun, Loses, Buries, tableVars
  <2>3. QED
    BY <1>1, <2>2
<1>9. CASE Kill(w)
  <2>1. Loses(w)
    BY <1>9 DEF Kill, EndRun, Rollback, Loses, redisVars
  <2>2. QED
    BY <1>1, <2>1
<1>10. QED
  BY <1>2, <1>3, <1>4, <1>5, <1>6, <1>7, <1>8, <1>9 DEF Run

(* New rows, by the events they hold.                                      *)
LEMMA RowsAdded ==
    ASSUME NEW E, NEW side, rows' = rows \cup RowsOf(E, side)
    PROVE  /\ Stored' = Stored \cup E
           /\ side = "worker" => WorkerRows' = WorkerRows \cup E
           /\ side = "api" => WorkerRows' = WorkerRows
<1>1. \A x \in RowsOf(E, side) : x.ev \in E /\ x.by = side
  BY DEF RowsOf
<1>2. \A e \in E : [ev |-> e, by |-> side] \in RowsOf(E, side)
  BY DEF RowsOf
<1>3. \A e \in E : \E x \in rows' : x.ev = e /\ x.by = side
  <2> TAKE e \in E
  <2>1. [ev |-> e, by |-> side] \in rows'
    BY <1>2
  <2>2. QED
    BY <2>1
<1>4. \A x \in rows' : x \in rows \/ (x.ev \in E /\ x.by = side)
  BY <1>1
<1>5. Stored' = Stored \cup E
  BY <1>3, <1>4 DEF Stored
<1>6. \A e : e \in WorkerRows <=> \E x \in rows : x.by = "worker" /\ x.ev = e
  BY DEF WorkerRows
<1>7. \A e : e \in WorkerRows' <=> \E x \in rows' : x.by = "worker" /\ x.ev = e
  BY DEF WorkerRows
<1>8. rows \subseteq rows'
  OBVIOUS
<1>9. side = "worker" => WorkerRows' = WorkerRows \cup E
  BY <1>3, <1>4, <1>6, <1>7, <1>8
<1>10. side = "api" => WorkerRows' = WorkerRows
  BY <1>4, <1>6, <1>7, <1>8
<1>11. QED
  BY <1>5, <1>9, <1>10

(* A step that adds no row stores nothing.                                 *)
LEMMA RowsUnchanged == rows' = rows => Stored' = Stored /\ WorkerRows' = WorkerRows
  BY DEF Stored, WorkerRows

(* The worker's rows are among the stored events.                          *)
LEMMA WorkerRowsAreStored == WorkerRows \subseteq Stored
  BY DEF WorkerRows, Stored

(* Only what r has flushed, or is about to push, becomes accounted for by  *)
(* a step of r.                                                            *)
LEMMA RequestAddsOwn ==
    ASSUME TypeInv, OwnEventsOnly, NEW r \in Requests, Arrive(r) \/ Serve(r) \/ Vanish(r)
    PROVE  /\ Accounted' \subseteq Accounted \cup ToSet(Items[r])
           /\ pc[r] \notin {"push", "commit", "closing"} => Accounted' = Accounted
           /\ pc[r] \in {"commit", "closing"} => Accounted' \subseteq Accounted \cup pend[r]
<1>1. InBatches' = InBatches /\ dlq' = dlq /\ victims' = victims
  BY RequestMoves DEF InBatches
<1>2. /\ ToSet(queue') \subseteq ToSet(queue) \cup ToSet(Items[r])
      /\ pc[r] # "push" => queue' = queue
  <2>1. queue \in Seq(Events) /\ Items[r] \in Seq(Events)
    BY ItemsAreEvents DEF TypeInv, TypeOK
  <2>2. ToSet(queue \o Items[r]) = ToSet(queue) \cup ToSet(Items[r])
    BY <2>1, ElementsOfConcat
  <2>3. QED
    BY <2>2, RequestMoves
<1>3. /\ Stored' \subseteq Stored \cup pend[r]
      /\ pc[r] \notin {"commit", "closing"} => Stored' = Stored
  BY RequestMoves, RowsAdded, RowsUnchanged
<1>4. pend[r] \subseteq ToSet(Items[r])
  BY DEF OwnEventsOnly
<1>5. QED
  BY <1>1, <1>2, <1>3, <1>4 DEF Accounted, InTransit

(* A run's batch before and after a move, beside the batches of the rest.  *)
Others(w) == UNION {ToSet(batch[v]) : v \in Runs \ {w}}

(* The batches split into those of the other runs, which a step of w       *)
(* leaves alone, and that of w.                                            *)
LEMMA BatchesOfOthers ==
    ASSUME TypeInv, NEW w \in Runs, \A v \in Runs : v # w => batch'[v] = batch[v]
    PROVE  /\ InBatches = Others(w) \cup ToSet(batch[w])
           /\ InBatches' = Others(w) \cup ToSet(batch'[w])
<1>1. InBatches = Others(w) \cup ToSet(batch[w])
  BY DEF InBatches, Others
<1>2. InBatches' = Others(w)' \cup ToSet(batch'[w])
  BY DEF InBatches, Others
<1>3. Others(w)' = Others(w)
  BY DEF Others
<1>4. QED
  BY <1>1, <1>2, <1>3

(* The sets that a run's move is about.                                    *)
LEMMA MovedSets ==
    ASSUME TypeInv, NEW w \in Runs
    PROVE  /\ queue # <<>> => /\ Head(queue) \in Events
                              /\ ToSet(queue) = {Head(queue)} \cup ToSet(Tail(queue))
           /\ batch[w] # <<>> => ToSet(batch[w]) = {Head(batch[w])} \cup ToSet(Tail(batch[w]))
           /\ Pops(w) => ToSet(batch'[w]) = ToSet(batch[w]) \cup {Head(queue)}
           /\ batch' = [batch EXCEPT ![w] = <<>>] => ToSet(batch'[w]) = {}
           /\ batch' = [batch EXCEPT ![w] = Tail(@)] => batch'[w] = Tail(batch[w])
<1> USE DEF TypeInv, TypeOK
<1>1. queue # <<>> => /\ Head(queue) \in Events
                      /\ ToSet(queue) = {Head(queue)} \cup ToSet(Tail(queue))
  BY ElementsOfTail
<1>2. batch[w] # <<>> => ToSet(batch[w]) = {Head(batch[w])} \cup ToSet(Tail(batch[w]))
  BY ElementsOfTail
<1>3. ASSUME Pops(w) PROVE ToSet(batch'[w]) = ToSet(batch[w]) \cup {Head(queue)}
  <2>1. batch'[w] = Append(batch[w], Head(queue)) /\ Head(queue) \in Events
    BY <1>1, <1>3 DEF Pops
  <2>2. QED
    BY <2>1, ElementsOfAppend
<1>4. ASSUME batch' = [batch EXCEPT ![w] = <<>>] PROVE ToSet(batch'[w]) = {}
  <2>1. batch'[w] = <<>>
    BY <1>4
  <2>2. QED
    BY <2>1, ElementsOfEmpty
<1>5. batch' = [batch EXCEPT ![w] = Tail(@)] => batch'[w] = Tail(batch[w])
  OBVIOUS
<1>6. QED
  BY <1>1, <1>2, <1>3, <1>4, <1>5

(* A run only moves events about.                                          *)
LEMMA RunAddsNothing ==
    ASSUME TypeInv, CommitHoldsBatch, NEW w \in Runs,
           Run(w) \/ PopError(w) \/ DeadLetterError(w) \/ Kill(w)
    PROVE  Accounted' \subseteq Accounted
<1>0. /\ InBatches = Others(w) \cup ToSet(batch[w])
      /\ InBatches' = Others(w) \cup ToSet(batch'[w])
  BY RunFrame, BatchesOfOthers
<1> USE DEF Accounted, InTransit
<1>1. CASE Pops(w)
  BY <1>0, <1>1, MovedSets, RowsUnchanged DEF Pops
<1>2. CASE Idles(w)
  BY <1>0, <1>2, RowsUnchanged DEF Idles
<1>3. CASE Stores(w)
  <2>1. Stored' = Stored \cup ToSet(batch[w])
    BY <1>3, RowsAdded DEF Stores
  <2>2. ToSet(batch'[w]) \subseteq ToSet(batch[w])
    BY <1>3, MovedSets DEF Stores
  <2>3. QED
    BY <1>0, <1>3, <2>1, <2>2 DEF Stores
<1>4. CASE Loses(w)
  BY <1>0, <1>4, MovedSets, RowsUnchanged DEF Loses
<1>5. CASE Buries(w)
  BY <1>0, <1>5, MovedSets, RowsUnchanged DEF Buries
<1>6. QED
  BY <1>1, <1>2, <1>3, <1>4, <1>5, RunMoves

-----------------------------------------------------------------------------
(* A request leaves no trace before its push. *)

(* The steps up to the push come first.                                    *)
LEMMA LookupsComeFirst ==
    ASSUME TypeInv, NEW r \in Requests, Arrive(r) \/ Serve(r) \/ Vanish(r),
           pc'[r] \in {"new", "cache", "table", "push"}
    PROVE  pc[r] \in {"new", "cache", "table"} /\ pend'[r] \in {pend[r], {}}
<1> USE DEF TypeInv, TypeOK
<1>1. pc[r] \in {"new", "cache", "table"}
  BY DEF Arrive, Serve, LookUpMarker, LookUpRow, Push, Mark, Fallback, CommitFallback, Close, Vanish,
     Goto, Return, Fail
<1>2. QED
  BY <1>1, RequestMoves

(* TookEffect, in terms of what is accounted for.                          *)
LEMMA EffectIsAccounted ==
    /\ \A r \in Requests : TookEffect(r) <=> ToSet(Items[r]) \cap Accounted # {}
    /\ \A r \in Requests : TookEffect(r)' <=> ToSet(Items[r]) \cap Accounted' # {}
  BY DEF TookEffect, Accounted

(* Every step keeps requests without a trace until they push, and their    *)
(* transactions to their own events.                                       *)
LEMMA NextEffects == TypeInv /\ AccountInv /\ EffectInv /\ [Next]_vars => EffectInv'
<1> SUFFICES ASSUME TypeInv, AccountInv, EffectInv, [Next]_vars PROVE EffectInv'
  OBVIOUS
<1> USE DEF EffectInv
<1>1. ASSUME NEW r \in Requests, Arrive(r) \/ Serve(r) \/ Vanish(r) PROVE EffectInv'
  <2>1. OwnEventsOnly'
    BY <1>1, RequestMoves, RequestFrame DEF OwnEventsOnly
  <2>2. ASSUME NEW q \in Requests, q # r, pc'[q] \in {"new", "cache", "table", "push"}
        PROVE  ~TookEffect(q)' /\ pend'[q] = {}
    <3>1. ~TookEffect(q) /\ pend'[q] = {}
      BY <1>1, <2>2, RequestFrame DEF Untouched
    <3>2. ToSet(Items[q]) \cap ToSet(Items[r]) = {}
      BY <2>2, ItemsAssumption
    <3>3. QED
      BY <1>1, <3>1, <3>2, RequestAddsOwn, EffectIsAccounted
  <2>3. ASSUME pc'[r] \in {"new", "cache", "table", "push"}
        PROVE  ~TookEffect(r)' /\ pend'[r] = {}
    <3>1. pc[r] \in {"new", "cache", "table"} /\ pend'[r] \in {pend[r], {}}
      BY <1>1, <2>3, LookupsComeFirst
    <3>2. Accounted' = Accounted
      BY <1>1, <3>1, RequestAddsOwn
    <3>3. QED
      BY <3>1, <3>2, EffectIsAccounted DEF Untouched
  <2>4. QED
    BY <2>1, <2>2, <2>3 DEF Untouched
<1>2. ASSUME NEW w \in Runs, Run(w) \/ PopError(w) \/ DeadLetterError(w) \/ Kill(w)
      PROVE  EffectInv'
  <2>1. \A q \in Requests : pc'[q] = pc[q] /\ pend'[q] = pend[q]
    <3>1. \A q \in Requests : q # w /\ q \in Txns
      BY RequestAssumption DEF Txns
    <3>2. QED
      BY <1>2, <3>1, RunFrame
  <2>2. Accounted' \subseteq Accounted
    BY <1>2, RunAddsNothing DEF AccountInv
  <2>3. \A q \in Requests : ~TookEffect(q) => ~TookEffect(q)'
    BY <2>2, EffectIsAccounted
  <2>4. QED
    BY <2>1, <2>3 DEF Untouched, OwnEventsOnly
<1>3. CASE (\E k \in Keys : ExpireMarker(k)) \/ UNCHANGED vars
  <2>1. UNCHANGED <<pc, pend, rows, queue, dlq, victims, batch>>
    BY <1>3 DEF ExpireMarker, vars, apiVars, workerVars, redisVars, tableVars
  <2>2. QED
    BY <2>1 DEF Untouched, OwnEventsOnly, TookEffect, InTransit, InBatches, Stored
<1>4. QED
  BY <1>1, <1>2, <1>3 DEF Next

(* No request has left a trace at the start.                               *)
LEMMA InitEffects == Init => EffectInv
<1> SUFFICES ASSUME Init PROVE EffectInv
  OBVIOUS
<1>1. \A t \in Txns : pend[t] = {}
  BY DEF Init
<1>2. InTransit = {} /\ Stored = {} /\ dlq = {} /\ victims = {}
  BY ElementsOfEmpty DEF Init, InTransit, InBatches, Stored
<1>3. QED
  BY <1>1, <1>2 DEF EffectInv, Untouched, OwnEventsOnly, TookEffect, Txns

(* Requests leave no trace before their push in any reachable state.       *)
LEMMA EffectInvariance == Spec => []EffectInv
  BY InitEffects, NextEffects, TypeInvariance, AccountInvariance, PTL DEF Spec

-----------------------------------------------------------------------------
(* One copy of each event.                                                 *)
(*                                                                         *)
(* The list and the batches hold different events (OneCopyInTransit); a    *)
(* push adds events that have left no trace, and a run only takes events   *)
(* from the list to its batch and from its batch to their end.             *)

(* OneCopyInTransit after a move of w that takes events from the list to   *)
(* its batch, and from both to the dead letters, the losses and, of its    *)
(* batch, the rows.                                                        *)
LEMMA CopiesStayApart ==
    ASSUME OneCopyInTransit, NEW w \in Runs,
           \A v \in Runs : v # w => wpc'[v] = wpc[v] /\ batch'[v] = batch[v],
           Distinct(queue'), Distinct(batch'[w]),
           ToSet(queue') \subseteq ToSet(queue),
           ToSet(batch'[w]) \subseteq ToSet(batch[w]) \cup (ToSet(queue) \ ToSet(queue')),
           dlq' \cup victims' \subseteq dlq \cup victims
               \cup ((ToSet(batch[w]) \cup ToSet(queue)) \ (ToSet(batch'[w]) \cup ToSet(queue'))),
           dlq' \cap victims' = {},
           WorkerRows' \subseteq WorkerRows \cup ToSet(batch[w]),
           wpc'[w] # "dlq" => ToSet(batch'[w]) \cap WorkerRows' = {}
    PROVE  OneCopyInTransit'
<1>1. /\ \A v \in Runs : ToSet(batch[v]) \subseteq InTransit
      /\ ToSet(queue) \subseteq InTransit
  BY DEF InTransit, InBatches
<1>2. /\ InTransit \cap (dlq \cup victims) = {}
      /\ \A v \in Runs : ToSet(batch[v]) \cap ToSet(queue) = {}
      /\ \A v \in Runs : v # w => ToSet(batch[v]) \cap ToSet(batch[w]) = {}
      /\ ToSet(queue) \cap WorkerRows = {}
  BY DEF OneCopyInTransit
<1>3. \A v \in Runs : v # w => ToSet(batch'[v]) = ToSet(batch[v])
  OBVIOUS
<1>4. \A v \in Runs : Distinct(batch'[v])
  BY DEF OneCopyInTransit, Distinct
<1>5. \A v \in Runs : ToSet(batch'[v]) \cap ToSet(queue') = {}
  BY <1>2, <1>3
<1>6. \A u, v \in Runs : u # v => ToSet(batch'[u]) \cap ToSet(batch'[v]) = {}
  <2> TAKE u, v \in Runs
  <2>1. CASE u # w /\ v # w
    BY <2>1, <1>3 DEF OneCopyInTransit
  <2>2. CASE u = w \/ v = w
    BY <2>2, <1>2, <1>3
  <2>3. QED
    BY <2>1, <2>2
<1>7. ASSUME NEW e \in InTransit' PROVE e \notin dlq' \cup victims'
  <2>1. CASE e \in ToSet(queue') \cup ToSet(batch'[w])
    BY <2>1, <1>1, <1>2
  <2>2. ASSUME NEW v \in Runs, v # w, e \in ToSet(batch[v]) PROVE e \notin dlq' \cup victims'
    BY <2>2, <1>1, <1>2
  <2>3. QED
    BY <1>7, <2>1, <2>2, <1>3 DEF InTransit, InBatches
<1>8. \A v \in Runs : wpc'[v] # "dlq" => ToSet(batch'[v]) \cap WorkerRows' = {}
  <2> TAKE v \in Runs
  <2>1. CASE v # w
    BY <2>1, <1>2, <1>3 DEF OneCopyInTransit
  <2>2. QED
    BY <2>1
<1>9. ToSet(queue') \cap WorkerRows' = {}
  BY <1>2
<1>10. QED
  BY <1>4, <1>5, <1>6, <1>7, <1>8, <1>9 DEF OneCopyInTransit, Distinct

(* What OneCopyInTransit says of w's batch and the list.                   *)
LEMMA CopiesOf ==
    ASSUME TypeInv, OneCopyInTransit, NEW w \in Runs
    PROVE  /\ Distinct(queue) /\ Distinct(batch[w])
           /\ ToSet(batch[w]) \cap ToSet(queue) = {}
           /\ (ToSet(batch[w]) \cup ToSet(queue)) \cap (dlq \cup victims) = {}
           /\ dlq \cap victims = {}
           /\ wpc[w] # "dlq" => ToSet(batch[w]) \cap WorkerRows = {}
           /\ ToSet(queue) \cap WorkerRows = {}
           /\ queue # <<>> => /\ Distinct(Tail(queue)) /\ Head(queue) \notin ToSet(Tail(queue))
                              /\ ToSet(queue) = {Head(queue)} \cup ToSet(Tail(queue))
           /\ batch[w] # <<>> =>
                 /\ Distinct(Tail(batch[w])) /\ Head(batch[w]) \notin ToSet(Tail(batch[w]))
                 /\ ToSet(batch[w]) = {Head(batch[w])} \cup ToSet(Tail(batch[w]))
<1>1. queue \in Seq(Events) /\ batch[w] \in Seq(Events)
  BY DEF TypeInv, TypeOK
<1>2. Distinct(queue) /\ Distinct(batch[w])
  BY DEF OneCopyInTransit, Distinct
<1>3. ToSet(batch[w]) \cup ToSet(queue) \subseteq InTransit
  BY DEF InTransit, InBatches
<1>4. (ToSet(batch[w]) \cup ToSet(queue)) \cap (dlq \cup victims) = {}
  BY <1>3 DEF OneCopyInTransit
<1>5. queue # <<>> => /\ Distinct(Tail(queue)) /\ Head(queue) \notin ToSet(Tail(queue))
                      /\ ToSet(queue) = {Head(queue)} \cup ToSet(Tail(queue))
  BY <1>1, <1>2, DistinctTail, ElementsOfTail
<1>6. batch[w] # <<>> =>
         /\ Distinct(Tail(batch[w])) /\ Head(batch[w]) \notin ToSet(Tail(batch[w]))
         /\ ToSet(batch[w]) = {Head(batch[w])} \cup ToSet(Tail(batch[w]))
  BY <1>1, <1>2, DistinctTail, ElementsOfTail
<1>7. QED
  BY <1>2, <1>4, <1>5, <1>6 DEF OneCopyInTransit

(* The empty sequence repeats nothing.                                     *)
LEMMA DistinctEmpty == Distinct(<<>>)
  BY DEF Distinct

(* A run's step keeps every event in one place.                            *)
LEMMA RunKeepsCopies ==
    ASSUME TypeInv, CommitHoldsBatch, OneCopyInTransit, NEW w \in Runs,
           Run(w) \/ PopError(w) \/ DeadLetterError(w) \/ Kill(w)
    PROVE  OneCopyInTransit'
<1>0. \A v \in Runs : v # w => wpc'[v] = wpc[v] /\ batch'[v] = batch[v]
  BY RunFrame
<1> DEFINE B == ToSet(batch[w])
           Q == ToSet(queue)
<1>1. CASE Pops(w)
  <2>1. /\ queue # <<>> /\ queue' = Tail(queue) /\ wpc'[w] = wpc[w] /\ wpc[w] # "dlq"
        /\ ToSet(batch'[w]) = B \cup {Head(queue)}
        /\ batch'[w] = Append(batch[w], Head(queue))
        /\ dlq' = dlq /\ victims' = victims /\ WorkerRows' = WorkerRows
    BY <1>1, MovedSets, RowsUnchanged DEF Pops, TypeInv, TypeOK
  <2>2. /\ Distinct(Tail(queue)) /\ Q = {Head(queue)} \cup ToSet(Tail(queue))
        /\ Head(queue) \notin ToSet(Tail(queue)) /\ Head(queue) \notin B
    BY <2>1, CopiesOf
  <2>3. Distinct(batch'[w])
    <3>1. batch[w] \in Seq(Events) /\ Head(queue) \in Events /\ Distinct(batch[w])
      BY <2>1, MovedSets, CopiesOf DEF TypeInv, TypeOK
    <3>2. QED
      BY <2>1, <2>2, <3>1, DistinctAppend
  <2>4. ToSet(batch'[w]) \cap WorkerRows' = {}
    BY <2>1, <2>2, CopiesOf
  <2>5. ToSet(queue') \subseteq Q /\ ToSet(batch'[w]) \subseteq B \cup (Q \ ToSet(queue'))
    BY <2>1, <2>2
  <2>6. dlq' \cup victims' \subseteq dlq \cup victims /\ dlq' \cap victims' = {}
    BY <2>1, CopiesOf
  <2>7. QED
    BY <1>0, <2>1, <2>2, <2>3, <2>4, <2>5, <2>6, CopiesStayApart
<1>2. CASE Idles(w)
  <2>1. queue' = queue /\ batch' = batch /\ dlq' = dlq /\ victims' = victims
        /\ WorkerRows' = WorkerRows /\ wpc[w] # "dlq"
    BY <1>2, RowsUnchanged DEF Idles
  <2>2. QED
    BY <1>0, <2>1, CopiesOf, CopiesStayApart
<1>3. CASE Stores(w)
  <2>1. WorkerRows' = WorkerRows \cup B
    BY <1>3, RowsAdded DEF Stores
  <2>2. queue' = queue /\ dlq' = dlq /\ victims' = victims
    BY <1>3 DEF Stores
  <2>3. CASE batch' = batch /\ wpc'[w] = "dlq"
    BY <1>0, <2>1, <2>2, <2>3, CopiesOf, CopiesStayApart
  <2>4. CASE batch' = [batch EXCEPT ![w] = <<>>]
    <3>1. batch'[w] = <<>> /\ ToSet(batch'[w]) = {}
      BY <2>4, MovedSets DEF TypeInv, TypeOK
    <3>2. QED
      BY <1>0, <2>1, <2>2, <3>1, CopiesOf, DistinctEmpty, CopiesStayApart
  <2>5. QED
    BY <1>3, <2>3, <2>4 DEF Stores
<1>4. CASE Loses(w)
  <2>1. batch'[w] = <<>> /\ ToSet(batch'[w]) = {} /\ WorkerRows' = WorkerRows /\ dlq' = dlq
    BY <1>4, MovedSets, RowsUnchanged DEF Loses, TypeInv, TypeOK
  <2>2. /\ Distinct(queue') /\ ToSet(queue') \subseteq Q
        /\ victims' \subseteq victims \cup B \cup (Q \ ToSet(queue'))
    BY <1>4, CopiesOf DEF Loses
  <2>3. dlq' \cup victims' \subseteq dlq \cup victims
            \cup ((B \cup Q) \ (ToSet(batch'[w]) \cup ToSet(queue')))
    BY <2>1, <2>2, CopiesOf
  <2>4. dlq' \cap victims' = {}
    BY <2>1, <2>2, CopiesOf
  <2>5. QED
    BY <1>0, <2>1, <2>2, <2>3, <2>4, DistinctEmpty, CopiesStayApart
<1>5. CASE Buries(w)
  <2>1. /\ batch[w] # <<>> /\ dlq' = dlq \cup {Head(batch[w])}
        /\ queue' = queue /\ WorkerRows' = WorkerRows
    BY <1>5, RowsUnchanged DEF Buries
  <2>2. /\ Distinct(Tail(batch[w])) /\ Head(batch[w]) \notin ToSet(Tail(batch[w]))
        /\ B = {Head(batch[w])} \cup ToSet(Tail(batch[w]))
    BY <2>1, CopiesOf
  <2>3. CASE /\ batch' = [batch EXCEPT ![w] = Tail(@)]
             /\ wpc'[w] = "dlq" \/ Tail(batch[w]) = <<>>
             /\ UNCHANGED victims
    <3>1. batch'[w] = Tail(batch[w])
      BY <2>3, MovedSets
    <3>2. wpc'[w] # "dlq" => ToSet(batch'[w]) = {}
      BY <2>3, <3>1, ElementsOfEmpty
    <3>3. dlq' \cup victims' \subseteq dlq \cup victims
              \cup ((B \cup Q) \ (ToSet(batch'[w]) \cup ToSet(queue')))
      BY <2>1, <2>2, <2>3, <3>1, CopiesOf
    <3>4. dlq' \cap victims' = {}
      BY <2>1, <2>2, <2>3, CopiesOf
    <3>5. QED
      BY <1>0, <2>1, <2>2, <3>1, <3>2, <3>3, <3>4, CopiesOf, CopiesStayApart
  <2>4. CASE batch' = [batch EXCEPT ![w] = <<>>] /\ victims' = victims \cup ToSet(Tail(batch[w]))
    <3>1. batch'[w] = <<>> /\ ToSet(batch'[w]) = {}
      BY <2>4, MovedSets DEF TypeInv, TypeOK
    <3>2. dlq' \cup victims' \subseteq dlq \cup victims
              \cup ((B \cup Q) \ (ToSet(batch'[w]) \cup ToSet(queue')))
      BY <2>1, <2>2, <2>4, <3>1, CopiesOf
    <3>3. dlq' \cap victims' = {}
      BY <2>1, <2>2, <2>4, CopiesOf
    <3>4. QED
      BY <1>0, <2>1, <3>1, <3>2, <3>3, CopiesOf, DistinctEmpty, CopiesStayApart
  <2>5. QED
    BY <1>5, <2>3, <2>4 DEF Buries
<1>6. QED
  BY <1>1, <1>2, <1>3, <1>4, <1>5, RunMoves

(* A push adds events that are nowhere yet, and an API commit no row of    *)
(* the worker's.                                                           *)
LEMMA RequestKeepsCopies ==
    ASSUME TypeInv, EffectInv, OneCopyInTransit,
           NEW r \in Requests, Arrive(r) \/ Serve(r) \/ Vanish(r)
    PROVE  OneCopyInTransit'
<1>1. UNCHANGED <<wpc, batch, dlq, victims>> /\ WorkerRows' = WorkerRows
  BY RequestMoves, RowsAdded, RowsUnchanged
<1>2. CASE queue' = queue
  BY <1>1, <1>2 DEF OneCopyInTransit, InTransit, InBatches
<1>3. CASE pc[r] = "push" /\ queue' = queue \o Items[r]
  <2>1. ToSet(Items[r]) \cap (InTransit \cup Stored \cup dlq \cup victims) = {}
    BY <1>3 DEF EffectInv, Untouched, TookEffect
  <2>2. queue \in Seq(Events) /\ Items[r] \in Seq(Events)
    BY ItemsAreEvents DEF TypeInv, TypeOK
  <2>3. ToSet(queue') = ToSet(queue) \cup ToSet(Items[r])
    BY <1>3, <2>2, ElementsOfConcat
  <2>4. Distinct(queue')
    <3>1. Distinct(queue)
      BY DEF OneCopyInTransit, Distinct
    <3>2. Distinct(Items[r])
      BY ItemsAssumption DEF Distinct
    <3>3. ToSet(queue) \cap ToSet(Items[r]) = {}
      BY <2>1 DEF InTransit
    <3>4. QED
      BY <1>3, <2>2, <3>1, <3>2, <3>3, DistinctConcat
  <2>5. \A w \in Runs : ToSet(batch'[w]) \cap ToSet(queue') = {}
    <3>1. \A w \in Runs : ToSet(batch[w]) \subseteq InTransit
      BY DEF InTransit, InBatches
    <3>2. QED
      BY <1>1, <2>1, <2>3, <3>1 DEF OneCopyInTransit
  <2>6. InTransit' \cap (dlq' \cup victims') = {}
    <3>1. InTransit' = InTransit \cup ToSet(Items[r])
      BY <1>1, <2>3 DEF InTransit, InBatches
    <3>2. QED
      BY <1>1, <2>1, <3>1 DEF OneCopyInTransit
  <2>7. ToSet(queue') \cap WorkerRows' = {}
    BY <1>1, <2>1, <2>3, WorkerRowsAreStored DEF OneCopyInTransit
  <2>8. QED
    BY <1>1, <2>4, <2>5, <2>6, <2>7 DEF OneCopyInTransit, Distinct
<1>4. QED
  BY <1>2, <1>3, RequestMoves

(* No event is in transit at the start.                                    *)
LEMMA InitCopies == Init => OneCopyInTransit
<1> SUFFICES ASSUME Init PROVE OneCopyInTransit
  OBVIOUS
<1>1. queue = <<>> /\ ToSet(queue) = {} /\ dlq = {} /\ victims = {}
  BY ElementsOfEmpty DEF Init
<1>2. \A w \in Runs : batch[w] = <<>> /\ ToSet(batch[w]) = {}
  BY ElementsOfEmpty DEF Init
<1>3. QED
  BY <1>1, <1>2, DistinctEmpty DEF OneCopyInTransit, Distinct

(* No step makes a second copy of an event in transit.                     *)
LEMMA NextCopies ==
    TypeInv /\ AccountInv /\ EffectInv /\ OneCopyInTransit /\ [Next]_vars => OneCopyInTransit'
<1> SUFFICES ASSUME TypeInv, AccountInv, EffectInv, OneCopyInTransit, [Next]_vars
             PROVE  OneCopyInTransit'
  OBVIOUS
<1>1. CASE \E r \in Requests : Arrive(r) \/ Serve(r) \/ Vanish(r)
  BY <1>1, RequestKeepsCopies
<1>2. CASE \E w \in Runs : Run(w) \/ PopError(w) \/ DeadLetterError(w) \/ Kill(w)
  BY <1>2, RunKeepsCopies DEF AccountInv
<1>3. CASE (\E k \in Keys : ExpireMarker(k)) \/ UNCHANGED vars
  <2>1. UNCHANGED <<rows, queue, dlq, victims, wpc, batch>>
    BY <1>3 DEF ExpireMarker, vars, apiVars, workerVars, redisVars, tableVars
  <2>2. QED
    BY <2>1 DEF OneCopyInTransit, InTransit, InBatches, WorkerRows
<1>4. QED
  BY <1>1, <1>2, <1>3 DEF Next

(* The list and the batches of overlapping runs hold every event once, and *)
(* an event that was buried, lost or stored by a run does not come back,   *)
(* whatever Redis, the database and the process do.                        *)
THEOREM EventsHaveOnePlace == Spec => []OneCopyInTransit
  BY InitCopies, NextCopies, TypeInvariance, AccountInvariance, EffectInvariance, PTL DEF Spec

-----------------------------------------------------------------------------
(* Retries.                                                                *)
(*                                                                         *)
(* What made the first answer is still visible when the retry looks: a row *)
(* for ever, a marker until it expires.  So a retry that gets past both    *)
(* lookups found the marker expired, or could not read it.                 *)

(* A 202 for a keyed event, or a replay, leaves a marker.                  *)
LEMMA MarkersKept ==
    ASSUME TypeInv, AnsweredKeysAreMarked, NEW r \in Requests, Arrive(r) \/ Serve(r) \/ Vanish(r)
    PROVE  AnsweredKeysAreMarked'
<1> USE DEF TypeInv, TypeOK
<1>1. ASSUME NEW q \in Requests, q # r, pc'[q] \in {"closing", "done"},
             answer'[q] \in {"queued", "replay_cached"}, HasKey(q)
      PROVE  Key(q) \in idem' \cup expired'
  BY <1>1, RequestFrame, RequestMoves DEF AnsweredKeysAreMarked
<1>2. ASSUME pc'[r] \in {"closing", "done"}, answer'[r] \in {"queued", "replay_cached"}, HasKey(r)
      PROVE  Key(r) \in idem' \cup expired'
  <2>1. CASE Close(r)
    <3>1. pc[r] = "closing" /\ answer[r] = answer'[r]
      BY <1>2, <2>1 DEF Close
    <3>2. QED
      BY <1>2, <3>1, RequestMoves DEF AnsweredKeysAreMarked
  <2>2. CASE Mark(r)
    BY <1>2, <2>2 DEF Mark, Goto, Raised, Applied
  <2>3. CASE LookUpMarker(r)
    BY <1>2, <2>3 DEF LookUpMarker, Goto, redisVars
  <2>4. CASE Arrive(r) \/ LookUpRow(r) \/ Push(r)
    BY <1>2, <2>4 DEF Arrive, LookUpRow, Push, Goto, Return, Fail
  <2>5. CASE Fallback(r) \/ CommitFallback(r) \/ Vanish(r)
    BY <1>2, <2>5 DEF Fallback, CommitFallback, Vanish, Goto, Return, Fail
  <2>6. QED
    BY <2>1, <2>2, <2>3, <2>4, <2>5 DEF Serve
<1>3. QED
  BY <1>1, <1>2 DEF AnsweredKeysAreMarked, HasKey, Key

(* A row under r's key stays.                                              *)
LEMMA MatchesStay ==
    ASSUME rows \subseteq rows'
    PROVE  \A r \in Requests : Matches(r) # {} => Matches(r)' # {}
  BY DEF Matches, Key

(* An excuse stays one.                                                    *)
LEMMA ExcusesStay ==
    ASSUME expired \subseteq expired', blind \subseteq blind'
    PROVE  \A r \in Requests : known'[r] = known[r] /\ Excused(r) => Excused(r)'
  BY DEF Excused, Key

(* What arriving requests are told.                                        *)
LEMMA PromisesAreTrue ==
    ASSUME TypeInv, AnsweredKeysAreMarked, NEW r \in Requests
    PROVE  /\ Promised(r) # "nothing" => HasKey(r)
           /\ Promised(r) = "stored" => Matches(r) # {}
           /\ Promised(r) = "queued" => Key(r) \in idem \cup expired
<1>1. CASE ~HasKey(r)
  <2>1. Promised(r) = "nothing"
    BY <1>1, Zenon DEF Promised
  <2>2. QED
    BY <1>1, <2>1
<1>2. CASE HasKey(r) /\ Matches(r) # {}
  BY <1>2 DEF Promised
<1>3. CASE HasKey(r) /\ Matches(r) = {}
  <2>1. ASSUME NEW q \in Requests, pc[q] = "done", answer[q] \in {"queued", "replay_cached"},
               HasKey(q), Key(q) = Key(r)
        PROVE  Key(r) \in idem \cup expired
    BY <2>1 DEF AnsweredKeysAreMarked
  <2>2. QED
    BY <1>3, <2>1 DEF Promised
<1>4. QED
  BY <1>1, <1>2, <1>3

(* A step of a request keeps the row or the marker of every promise that a *)
(* retry found when it arrived.                                            *)
LEMMA PromisesKept ==
    ASSUME TypeInv, AnsweredKeysAreMarked, PromisesLast,
           NEW r \in Requests, Arrive(r) \/ Serve(r) \/ Vanish(r)
    PROVE  PromisesLast'
<1>0. rows \subseteq rows'
  BY RequestKeepsAccounted
<1>1. ASSUME NEW q \in Requests
      PROVE  /\ pc'[q] = "new" => known'[q] = "nothing"
             /\ known'[q] # "nothing" => HasKey(q)
             /\ known'[q] = "stored" => Matches(q)' # {}
             /\ known'[q] = "queued" => Key(q) \in idem' \cup expired'
  <2>1. CASE known'[q] = known[q]
    <3>1. pc'[q] = "new" => pc[q] = "new"
      BY RequestFrame, RequestMoves
    <3>2. QED
      BY <1>0, <2>1, <3>1, MatchesStay, RequestMoves DEF PromisesLast
  <2>2. CASE known'[q] # known[q]
    <3>1. q = r /\ pc[r] = "new" /\ pc'[r] # "new"
      BY <2>2, RequestMoves
    <3>2. Arrive(r)
      BY <3>1 DEF Serve, Vanish, LookUpMarker, LookUpRow, Push, Mark, Fallback, CommitFallback, Close
    <3>3. known'[q] = Promised(r)
      BY <3>1, <3>2 DEF Arrive, TypeInv, TypeOK
    <3>4. QED
      BY <1>0, <3>1, <3>3, PromisesAreTrue, MatchesStay, RequestMoves
  <2>3. QED
    BY <2>1, <2>2
<1>2. QED
  BY <1>1 DEF PromisesLast, HasKey, Key

(* The request that takes the step passes the lookups with an excuse only. *)
LEMMA RetryIsStopped ==
    ASSUME TypeInv, EffectInv, RetryInv, EffectInv',
           NEW r \in Requests, Arrive(r) \/ Serve(r) \/ Vanish(r), known'[r] # "nothing"
    PROVE  /\ pc'[r] = "table" /\ known'[r] = "queued" => Excused(r)'
           /\ \/ TookEffect(r)' \/ pend'[r] # {}
              \/ pc'[r] \in {"push", "mark", "fallback", "commit"}
              => Excused(r)'
<1> USE DEF TypeInv, TypeOK, RetryInv
<1>1. CASE Arrive(r)
  <2>1. HasKey(r)
    BY <1>1, PromisesAreTrue DEF Arrive
  <2>2. pc'[r] = "cache"
    BY <1>1, <2>1 DEF Arrive, Goto
  <2>3. QED
    BY <2>2 DEF EffectInv, Untouched
<1>2. CASE ~Arrive(r) /\ Excused(r)
  <2>1. known'[r] = known[r]
    BY <1>2, RequestMoves DEF Serve, Vanish, LookUpMarker, LookUpRow, Push, Mark, Fallback,
       CommitFallback, Close
  <2>2. QED
    BY <1>2, <2>1, ExcusesStay, RequestMoves
<1>3. CASE ~Arrive(r) /\ ~Excused(r)
  <2>1. known'[r] = known[r]
    BY <1>3, RequestMoves DEF Serve, Vanish, LookUpMarker, LookUpRow, Push, Mark, Fallback,
       CommitFallback, Close
  <2>2. /\ ~TookEffect(r) /\ pend[r] = {}
        /\ pc[r] \notin {"push", "mark", "fallback", "commit"}
        /\ pc[r] = "table" => known[r] # "queued"
    BY <1>3, <2>1 DEF RetriesAreStopped
  <2>3. ~TookEffect(r)'
    BY <2>2, RequestAddsOwn, EffectIsAccounted DEF EffectInv
  <2>4. pend'[r] = {}
    BY <2>2, RequestMoves
  <2>5. LookUpMarker(r) \/ LookUpRow(r) \/ Close(r) \/ Vanish(r)
    BY <1>3, <2>2 DEF Serve, Push, Mark, Fallback, CommitFallback
  <2>6. CASE LookUpMarker(r)
    <3>1. pc'[r] \in {"closing", "table"}
      BY <2>6 DEF LookUpMarker, Goto, Return
    <3>2. pc'[r] = "table" => Key(r) \notin idem \/ r \in blind'
      BY <2>6 DEF LookUpMarker, Return, Goto
    <3>3. pc'[r] = "table" /\ known[r] = "queued" => Key(r) \in expired \/ r \in blind'
      BY <3>2 DEF PromisesLast
    <3>4. QED
      BY <2>1, <2>3, <2>4, <3>1, <3>3, RequestMoves DEF Excused, Key
  <2>7. CASE LookUpRow(r)
    <3>1. known[r] = "stored"
      BY <2>1, <2>2, <2>7 DEF LookUpRow
    <3>2. pc'[r] \in {"closing", "done"}
      BY <2>7, <3>1 DEF LookUpRow, PromisesLast, Goto, Return, Fail
    <3>3. QED
      BY <2>3, <2>4, <3>2
  <2>8. CASE Close(r) \/ Vanish(r)
    <3>1. pc'[r] = "done"
      BY <2>8 DEF Close, Vanish, Goto
    <3>2. QED
      BY <2>3, <2>4, <3>1
  <2>9. QED
    BY <2>5, <2>6, <2>7, <2>8
<1>4. QED
  BY <1>1, <1>2, <1>3

(* A retry that a step leaves alone stays where it is.                     *)
LEMMA OthersStayStopped ==
    ASSUME RetriesAreStopped, NEW q \in Requests,
           pc'[q] = pc[q], pend'[q] = pend[q], known'[q] = known[q], TookEffect(q)' => TookEffect(q),
           expired \subseteq expired', blind \subseteq blind'
    PROVE  known'[q] # "nothing" =>
              /\ pc'[q] = "table" /\ known'[q] = "queued" => Excused(q)'
              /\ \/ TookEffect(q)' \/ pend'[q] # {}
                 \/ pc'[q] \in {"push", "mark", "fallback", "commit"}
                 => Excused(q)'
  BY ExcusesStay DEF RetriesAreStopped

(* Every step keeps what is promised for a key, and stops retries without  *)
(* an excuse.                                                              *)
LEMMA NextRetries ==
    TypeInv /\ AccountInv /\ EffectInv /\ EffectInv' /\ RetryInv /\ [Next]_vars => RetryInv'
<1> SUFFICES ASSUME TypeInv, AccountInv, EffectInv, EffectInv', RetryInv, [Next]_vars PROVE RetryInv'
  OBVIOUS
<1>1. ASSUME NEW r \in Requests, Arrive(r) \/ Serve(r) \/ Vanish(r) PROVE RetryInv'
  <2>1. AnsweredKeysAreMarked' /\ PromisesLast'
    BY <1>1, MarkersKept, PromisesKept DEF RetryInv
  <2>2. ASSUME NEW q \in Requests, q # r
        PROVE  /\ pc'[q] = pc[q] /\ pend'[q] = pend[q] /\ known'[q] = known[q]
               /\ TookEffect(q)' => TookEffect(q)
               /\ expired \subseteq expired' /\ blind \subseteq blind'
    <3>1. ToSet(Items[q]) \cap ToSet(Items[r]) = {}
      BY <2>2, ItemsAssumption
    <3>2. TookEffect(q)' => TookEffect(q)
      BY <1>1, <3>1, RequestAddsOwn, EffectIsAccounted DEF EffectInv
    <3>3. QED
      BY <1>1, <2>2, <3>2, RequestFrame, RequestMoves
  <2>3. RetriesAreStopped'
    BY <1>1, <2>2, OthersStayStopped, RetryIsStopped DEF RetryInv, RetriesAreStopped
  <2>4. QED
    BY <2>1, <2>3 DEF RetryInv
<1>2. ASSUME NEW w \in Runs, Run(w) \/ PopError(w) \/ DeadLetterError(w) \/ Kill(w)
      PROVE  RetryInv'
  <2>1. UNCHANGED <<idem, expired, pc, answer, known, blind>> /\ rows \subseteq rows'
    BY <1>2, RunMoves, RunKeepsAccounted DEF AccountInv
  <2>2. AnsweredKeysAreMarked' /\ PromisesLast'
    BY <2>1, MatchesStay DEF RetryInv, AnsweredKeysAreMarked, PromisesLast, HasKey, Key
  <2>3. \A q \in Requests : pend'[q] = pend[q] /\ (TookEffect(q)' => TookEffect(q))
    <3>1. \A q \in Requests : q # w /\ q \in Txns
      BY RequestAssumption DEF Txns
    <3>2. QED
      BY <1>2, <3>1, RunFrame, RunAddsNothing, EffectIsAccounted DEF AccountInv
  <2>4. RetriesAreStopped'
    BY <2>1, <2>3, OthersStayStopped DEF RetryInv, RetriesAreStopped
  <2>5. QED
    BY <2>2, <2>4 DEF RetryInv
<1>3. CASE (\E k \in Keys : ExpireMarker(k)) \/ UNCHANGED vars
  <2>1. /\ UNCHANGED <<pc, answer, known, blind, pend, rows, queue, dlq, victims, batch>>
        /\ idem \cup expired \subseteq idem' \cup expired' /\ expired \subseteq expired'
    BY <1>3 DEF ExpireMarker, vars, apiVars, workerVars, redisVars, tableVars
  <2>2. AnsweredKeysAreMarked' /\ PromisesLast'
    BY <2>1, MatchesStay DEF RetryInv, AnsweredKeysAreMarked, PromisesLast, HasKey, Key
  <2>3. \A q \in Requests : TookEffect(q)' => TookEffect(q)
    BY <2>1 DEF TookEffect, InTransit, InBatches, Stored
  <2>4. RetriesAreStopped'
    BY <2>1, <2>3, OthersStayStopped DEF RetryInv, RetriesAreStopped
  <2>5. QED
    BY <2>2, <2>4 DEF RetryInv
<1>4. QED
  BY <1>1, <1>2, <1>3 DEF Next

(* Nothing is promised at the start.                                       *)
LEMMA InitRetries == Init => RetryInv
  BY DEF Init, RetryInv, AnsweredKeysAreMarked, PromisesLast, RetriesAreStopped

(* In every reachable state promises last and only excused retries pass.   *)
LEMMA RetryInvariance == Spec => []RetryInv
  BY InitRetries, NextRetries, TypeInvariance, AccountInvariance, EffectInvariance, PTL DEF Spec

(* A retry whose key has a row adds nothing, and a retry of an event that  *)
(* was answered 202 or replayed adds something only if the marker expired  *)
(* or could not be read, wherever between the three calls of the first     *)
(* request it arrives.                                                     *)
THEOREM RetriesAddNothing == Spec => []RetryAddsNothing
<1>1. RetryInv => RetryAddsNothing
  BY DEF RetryInv, RetriesAreStopped, Excused, RetryAddsNothing
<1>2. QED
  BY <1>1, RetryInvariance, PTL

-----------------------------------------------------------------------------
(* The ledger.                                                             *)
(*                                                                         *)
(* A push accepts, the end of a run's batch settles, and a commit of the   *)
(* API answers; every other step is invisible.  That the settled events    *)
(* leave transit is OneCopyInTransit again: no other run, and not the      *)
(* list, holds them too.                                                   *)

Promises == UNION {ToSet(Items[r]) : r \in {q \in Requests : Acknowledged(q)}}

(* The ledger accounts for what Accounted does, and has the same rows.     *)
LEMMA LedgerSets ==
    /\ Ledger!Accounted = Accounted
    /\ Ledger!Delivered = WorkerRows \cup dlq \cup victims
    /\ \A E, side : Ledger!InTable(E, side) = RowsOf(E, side)
    /\ \A side : RowsOf({}, side) = {}
  BY DEF Ledger!Accounted, Ledger!Delivered, Ledger!InTable, Accounted, Stored, WorkerRows, RowsOf

(* Nothing the ledger knows of has happened.                               *)
LEMMA InvisibleSteps ==
    ASSUME InTransit' = InTransit, UNCHANGED <<rows, dlq, victims>>, Promises' = Promises
    PROVE  UNCHANGED Ledger!ledger
  BY DEF Ledger!ledger, Promises

(* A client is promised events only by a commit that went through, and     *)
(* then they are accounted for, or among the rows of that commit.          *)
LEMMA PromisesAreBacked ==
    ASSUME TypeInv, AccountInv, NEW r \in Requests, Arrive(r) \/ Serve(r) \/ Vanish(r),
           Promises' # Promises
    PROVE  /\ pc[r] \in {"commit", "closing"}
           /\ Promises' = Promises \cup ToSet(Items[r])
           /\ ToSet(Items[r]) \subseteq Accounted \cup pend[r]
           /\ rows' = rows \cup RowsOf(pend[r], "api")
<1> USE DEF TypeInv, TypeOK
<1>1. \A q \in Requests : q # r => (Acknowledged(q)' <=> Acknowledged(q))
  BY RequestFrame DEF Acknowledged
<1>2. ~Acknowledged(r)
  BY RequestMoves DEF Acknowledged
<1>3. Acknowledged(r)'
  <2>1. ASSUME ~Acknowledged(r)' PROVE FALSE
    <3>1. \A q \in Requests : Acknowledged(q)' <=> Acknowledged(q)
      BY <1>1, <1>2, <2>1
    <3>2. Promises' = Promises
      BY <3>1 DEF Promises
    <3>3. QED
      BY <3>2
  <2>2. QED
    BY <2>1
<1>4. Promises' = Promises \cup ToSet(Items[r])
  <2>1. \A e : e \in Promises <=> \E q \in Requests : Acknowledged(q) /\ e \in ToSet(Items[q])
    BY DEF Promises
  <2>2. \A e : e \in Promises' <=> \E q \in Requests : Acknowledged(q)' /\ e \in ToSet(Items[q])
    BY DEF Promises
  <2>3. QED
    BY <1>1, <1>2, <1>3, <2>1, <2>2
<1>5. CASE CommitFallback(r)
  <2>1. pc[r] = "commit" /\ rows' = rows \cup RowsOf(pend[r], "api")
    BY <1>3, <1>5 DEF CommitFallback, Commit, Acknowledged, Applied, Raised
  <2>2. pend[r] = ToSet(Items[r])
    BY <2>1 DEF AccountInv, StoredIsFlushed
  <2>3. QED
    BY <1>4, <2>1, <2>2
<1>6. CASE Close(r)
  <2>1. /\ pc[r] = "closing" /\ rows' = rows \cup RowsOf(pend[r], "api")
        /\ answer[r] \in {"queued", "stored", "multi"}
    BY <1>3, <1>6 DEF Close, Commit, Acknowledged, Applied, Raised
  <2>2. ToSet(Items[r]) \subseteq Accounted \cup pend[r]
    BY <2>1 DEF AccountInv, AnswerIsBacked
  <2>3. QED
    BY <1>4, <2>1, <2>2
<1>7. CASE Arrive(r) \/ LookUpMarker(r) \/ LookUpRow(r) \/ Push(r) \/ Mark(r) \/ Fallback(r) \/ Vanish(r)
  BY <1>3, <1>7 DEF Acknowledged, Arrive, LookUpMarker, LookUpRow, Push, Mark, Fallback, Vanish,
     Goto, Return, Fail
<1>8. QED
  BY <1>5, <1>6, <1>7 DEF Serve

(* A step of a request accepts its events, answers, or is invisible.       *)
LEMMA RequestKeepsLedger ==
    ASSUME TypeInv, AccountInv, EffectInv, NEW r \in Requests, Arrive(r) \/ Serve(r) \/ Vanish(r)
    PROVE  [Ledger!Next]_(Ledger!ledger)
<1>0. batch' = batch /\ UNCHANGED <<dlq, victims>>
  BY RequestMoves
<1>1. CASE pc[r] = "push" /\ queue' = queue \o Items[r]
  <2>1. ToSet(Items[r]) \cap (InTransit \cup Stored \cup dlq \cup victims) = {}
    BY <1>1 DEF EffectInv, Untouched, TookEffect
  <2>2. InTransit' = InTransit \cup ToSet(Items[r])
    <3>1. queue \in Seq(Events) /\ Items[r] \in Seq(Events)
      BY ItemsAreEvents DEF TypeInv, TypeOK
    <3>2. ToSet(queue') = ToSet(queue) \cup ToSet(Items[r])
      BY <1>1, <3>1, ElementsOfConcat
    <3>3. QED
      BY <1>0, <3>2 DEF InTransit, InBatches
  <2>3. rows' = rows /\ Promises' = Promises
    BY <1>1, RequestMoves, PromisesAreBacked
  <2>4. Ledger!Accept(ToSet(Items[r]))
    BY <1>0, <2>1, <2>2, <2>3, LedgerSets, WorkerRowsAreStored DEF Ledger!Accept, Promises
  <2>5. ToSet(Items[r]) \in SUBSET Events
    BY ItemsAreEvents
  <2>6. QED
    BY <2>4, <2>5 DEF Ledger!Next
<1>2. CASE queue' = queue
  <2>1. InTransit' = InTransit
    BY <1>0, <1>2 DEF InTransit, InBatches
  <2>2. CASE rows' = rows /\ Promises' = Promises
    BY <1>0, <2>1, <2>2, InvisibleSteps
  <2>3. CASE rows' = rows \cup RowsOf(pend[r], "api")
    <3>1. PICK P : P \subseteq Accounted \cup pend[r] /\ Promises' = Promises \cup P
      <4>1. CASE Promises' = Promises
        <5>1. {} \subseteq Accounted \cup pend[r] /\ Promises' = Promises \cup {}
          BY <4>1
        <5>2. QED
          BY <5>1
      <4>2. QED
        BY <4>1, PromisesAreBacked
    <3>2. Ledger!Answer(pend[r], P)
      BY <1>0, <2>1, <2>3, <3>1, LedgerSets DEF Ledger!Answer, Promises
    <3>3. pend[r] \in SUBSET Events
      BY DEF TypeInv, TypeOK, Txns
    <3>4. P \in SUBSET (Ledger!Accounted \cup pend[r])
      BY <3>1, LedgerSets
    <3>5. QED
      BY <3>2, <3>3, <3>4 DEF Ledger!Next
  <2>4. QED
    BY <2>2, <2>3, RequestMoves, PromisesAreBacked
<1>3. QED
  BY <1>1, <1>2, RequestMoves

(* A step of a run settles what leaves its hands, stores its batch without *)
(* learning of it, or is invisible.                                        *)
LEMMA RunKeepsLedger ==
    ASSUME TypeInv, CommitHoldsBatch, OneCopyInTransit, NEW w \in Runs,
           Run(w) \/ PopError(w) \/ DeadLetterError(w) \/ Kill(w)
    PROVE  [Ledger!Next]_(Ledger!ledger)
<1> DEFINE B == ToSet(batch[w])
           Q == ToSet(queue)
<1>0. /\ InTransit = Others(w) \cup B \cup Q
      /\ InTransit' = Others(w) \cup ToSet(batch'[w]) \cup ToSet(queue')
  BY RunFrame, BatchesOfOthers DEF InTransit
<1>1. Others(w) \cap (B \cup Q) = {} /\ B \cap Q = {}
  BY DEF OneCopyInTransit, Others
<1>2. Promises' = Promises
  BY RunFrame DEF Promises, Acknowledged
<1>3. ASSUME NEW S, NEW D, NEW L, S \cup D \cup L \subseteq InTransit,
             S \cap (D \cup L) = {}, D \cap L = {}, Ledger!Settle(S, D, L)
      PROVE  Ledger!Next
  <2>1. S \in SUBSET InTransit /\ D \in SUBSET (InTransit \ S) /\ L \in SUBSET (InTransit \ (S \cup D))
    BY <1>3
  <2>2. QED
    BY <1>3, <2>1 DEF Ledger!Next
<1>4. CASE Pops(w)
  <2>1. InTransit' = InTransit
    BY <1>0, <1>4, MovedSets DEF Pops
  <2>2. QED
    BY <1>2, <1>4, <2>1, InvisibleSteps DEF Pops
<1>5. CASE Idles(w)
  BY <1>0, <1>2, <1>5, InvisibleSteps DEF Idles
<1>6. CASE Stores(w)
  <2>1. CASE batch' = batch
    <3>1. Ledger!StoreInDoubt(B)
      BY <1>0, <1>2, <1>6, <2>1, LedgerSets DEF Stores, Ledger!StoreInDoubt, Promises
    <3>2. QED
      BY <1>0, <3>1 DEF Ledger!Next
  <2>2. CASE batch' = [batch EXCEPT ![w] = <<>>]
    <3>1. InTransit' = InTransit \ B
      BY <1>0, <1>1, <1>6, <2>2, MovedSets DEF Stores
    <3>2. Ledger!Settle(B, {}, {})
      BY <1>2, <1>6, <3>1, LedgerSets DEF Stores, Ledger!Settle, Promises
    <3>3. QED
      BY <1>0, <1>3, <3>2
  <2>3. QED
    BY <1>6, <2>1, <2>2 DEF Stores
<1>7. CASE Loses(w)
  <2>1. PICK L : /\ L \subseteq B \cup Q /\ victims' = victims \cup L
                 /\ InTransit' = InTransit \ L
    <3>1. ToSet(batch'[w]) = {}
      BY <1>7, MovedSets DEF Loses
    <3>2. CASE queue # <<>> /\ queue' = Tail(queue) /\ victims' = victims \cup B \cup {Head(queue)}
      <4>1. Q = {Head(queue)} \cup ToSet(queue') /\ Head(queue) \notin ToSet(queue')
        BY <3>2, CopiesOf
      <4>2. InTransit' = InTransit \ (B \cup {Head(queue)})
        BY <1>0, <1>1, <3>1, <4>1
      <4>3. QED
        BY <3>2, <4>1, <4>2
    <3>3. CASE queue' = queue /\ victims' = victims \cup B
      <4>1. InTransit' = InTransit \ B
        BY <1>0, <1>1, <3>1, <3>3
      <4>2. QED
        BY <3>3, <4>1
    <3>4. QED
      BY <1>7, <3>2, <3>3 DEF Loses
  <2>2. Ledger!Settle({}, {}, L)
    BY <1>2, <1>7, <2>1, LedgerSets DEF Loses, Ledger!Settle, Promises
  <2>3. QED
    BY <1>0, <1>3, <2>1, <2>2
<1>8. CASE Buries(w)
  <2>1. /\ B = {Head(batch[w])} \cup ToSet(Tail(batch[w]))
        /\ Head(batch[w]) \notin ToSet(Tail(batch[w]))
    BY <1>8, CopiesOf DEF Buries
  <2>2. PICK L : /\ L \in {{}, ToSet(Tail(batch[w]))} /\ victims' = victims \cup L
                 /\ InTransit' = InTransit \ ({Head(batch[w])} \cup L)
    <3>1. CASE batch' = [batch EXCEPT ![w] = Tail(@)] /\ UNCHANGED victims
      <4>1. InTransit' = InTransit \ ({Head(batch[w])} \cup {})
        BY <1>0, <1>1, <1>8, <2>1, <3>1, MovedSets DEF Buries
      <4>2. QED
        BY <3>1, <4>1
    <3>2. CASE batch' = [batch EXCEPT ![w] = <<>>] /\ victims' = victims \cup ToSet(Tail(batch[w]))
      <4>1. InTransit' = InTransit \ ({Head(batch[w])} \cup ToSet(Tail(batch[w])))
        BY <1>0, <1>1, <1>8, <2>1, <3>2, MovedSets DEF Buries
      <4>2. QED
        BY <3>2, <4>1
    <3>3. QED
      BY <1>8, <3>1, <3>2 DEF Buries
  <2>3. Ledger!Settle({}, {Head(batch[w])}, L)
    BY <1>2, <1>8, <2>2, LedgerSets DEF Buries, Ledger!Settle, Promises
  <2>4. QED
    BY <1>0, <1>3, <2>1, <2>2, <2>3
<1>9. QED
  BY <1>4, <1>5, <1>6, <1>7, <1>8, RunMoves

(* The pipeline starts with an empty ledger.                               *)
LEMMA InitLedger == Init => Ledger!Init
<1> SUFFICES ASSUME Init PROVE Ledger!Init
  OBVIOUS
<1>1. InTransit = {}
  BY ElementsOfEmpty DEF Init, InTransit, InBatches
<1>2. Promises = {}
  BY DEF Init, Promises, Acknowledged
<1>3. QED
  BY <1>1, <1>2 DEF Init, Ledger!Init, Promises

(* Every step of the pipeline is a step of the ledger, or invisible to it. *)
LEMMA NextLedger ==
    /\ TypeInv /\ AccountInv /\ EffectInv /\ OneCopyInTransit /\ [Next]_vars
    => [Ledger!Next]_(Ledger!ledger)
<1> SUFFICES ASSUME TypeInv, AccountInv, EffectInv, OneCopyInTransit, [Next]_vars
             PROVE  [Ledger!Next]_(Ledger!ledger)
  OBVIOUS
<1>1. CASE \E r \in Requests : Arrive(r) \/ Serve(r) \/ Vanish(r)
  BY <1>1, RequestKeepsLedger
<1>2. CASE \E w \in Runs : Run(w) \/ PopError(w) \/ DeadLetterError(w) \/ Kill(w)
  BY <1>2, RunKeepsLedger DEF AccountInv
<1>3. CASE (\E k \in Keys : ExpireMarker(k)) \/ UNCHANGED vars
  <2>1. UNCHANGED <<rows, queue, dlq, victims, batch, pc, answer>>
    BY <1>3 DEF ExpireMarker, vars, apiVars, workerVars, redisVars, tableVars
  <2>2. InTransit' = InTransit /\ Promises' = Promises
    BY <2>1 DEF InTransit, InBatches, Promises, Acknowledged
  <2>3. QED
    BY <2>1, <2>2, InvisibleSteps
<1>4. QED
  BY <1>1, <1>2, <1>3 DEF Next

(* The handlers, the list, the overlapping runs, the two lookups and all    *)
(* the faults together behave as a ledger: an event enters transit once,   *)
(* leaves it for good, and a client is only promised what the ledger has.  *)
THEOREM PipelineKeepsTheLedger == Spec => ImplementsLedger
<1>1. Spec => [](TypeInv /\ AccountInv /\ EffectInv /\ OneCopyInTransit)
  BY TypeInvariance, AccountInvariance, EffectInvariance, EventsHaveOnePlace, PTL
<1>2. QED
  BY <1>1, InitLedger, NextLedger, PTL DEF Spec, ImplementsLedger, Ledger!Spec

=============================================================================
