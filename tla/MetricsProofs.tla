---------------------------- MODULE MetricsProofs ----------------------------
(***************************************************************************)
(* Theorems about Metrics for any scenarios, requests, TTL and lengths of  *)
(* time.                                                                   *)
(***************************************************************************)
EXTENDS Metrics, ReportsProofs

(* rows is what q counted in the table at some instant, and no entry that   *)
(* came later was stored before time t.                                     *)
Snapshot(rows, q, t) ==
    \E n \in Moments :
        /\ rows = Aggregate(TableAt(n), q)
        /\ \A i \in (n + 1)..Len(table) : table[i].stored >= t

(* Nothing is stored in the future. *)
TableInv ==
    /\ scenario \in Scenarios
    /\ clock \in 0..scenario.horizon /\ table \in Seq(Entries)
    /\ \A i \in DOMAIN table : table[i].stored <= clock

(* An entry of the cache was computed by a request that took Slack at most  *)
(* and expires TTL after it was filed.                                      *)
Filed(q, entry) ==
    /\ q \in scenario.questions /\ q.period.from <= q.period.to
    /\ entry.expires \in 0..(clock + TTL)
    /\ Snapshot(entry.rows, q, entry.expires - TTL - Slack)

CacheInv == \A q \in DOMAIN cache : Filed(q, cache[q])

Steps == {"forbidden", "bad request", "look up", "query", "save", "failed", "answered"}

(* What a request knows at each of its steps. *)
Knows(x) ==
    /\ x.pc \in Steps /\ x.asks \in scenario.questions
    /\ x.asked \in 0..clock /\ clock <= x.asked + Slack /\ x.known \in Moments
    /\ x.pc # "forbidden" => x.caller = x.asks.app
    /\ x.pc \notin {"forbidden", "bad request"} => x.asks.period.from <= x.asks.period.to
    /\ x.pc = "save" => Snapshot(x.rows, x.asks, x.asked)
    /\ x.pc = "answered" => Snapshot(x.rows, x.asks, x.asked + 1 - TTL - Slack)
    /\ x.pc \in {"save", "answered"} /\ x.rows = {} =>
          \A i \in 1..x.known : ~Covers(x.asks, table[i])

Sound(x) == x = Idle \/ Knows(x)

RequestInv ==
    /\ req = [r \in Requests |-> req[r]]
    /\ \A r \in Requests : Sound(req[r])

Inv == TableInv /\ CacheInv /\ RequestInv

-----------------------------------------------------------------------------
(* Facts about the table. *)

(* An aggregation without rows has met no event. *)
LEMMA NothingCounted ==
    ASSUME NEW t, NEW q, Aggregate(t, q) = {}, NEW i \in DOMAIN t
    PROVE  ~Covers(q, t[i])
  BY DEF Aggregate

(* The table as it was does not depend on what is stored later. *)
LEMMA EarlierTables ==
    ASSUME NEW s \in Seq(Entries), NEW e \in Entries, NEW n \in 0..Len(s)
    PROVE  SubSeq(Append(s, e), 1, n) = SubSeq(s, 1, n)
  OBVIOUS

(* The whole table is the table at the present instant. *)
LEMMA Present ==
    ASSUME TableInv, NEW q, NEW t \in Int
    PROVE  Snapshot(Aggregate(table, q), q, t)
<1>1. TableAt(Len(table)) = table /\ Len(table) \in Moments
  BY DEF TableInv, TableAt, Moments
<1>2. (Len(table) + 1)..Len(table) = {}
  BY DEF TableInv
<1>3. QED
  BY <1>1, <1>2 DEF Snapshot

(* What was a snapshot stays one while later events are stored. *)
LEMMA SnapshotStays ==
    ASSUME TableInv, NEW e, Store(e), e \in scenario.happenings,
           NEW rows, NEW q, NEW t \in Int, t <= clock, Snapshot(rows, q, t)
    PROVE  Snapshot(rows, q, t)'
<1>1. Entry(e, clock) \in Entries /\ Entry(e, clock).stored = clock
  BY ScenarioAssumption DEF TableInv, Entry, Entries, Occurrences
<1>2. table' = Append(table, Entry(e, clock)) /\ table \in Seq(Entries)
  BY DEF Store, TableInv
<1>3. PICK n \in Moments : /\ rows = Aggregate(TableAt(n), q)
                           /\ \A i \in (n + 1)..Len(table) : table[i].stored >= t
  BY DEF Snapshot
<1>4. n \in 0..Len(table) /\ n \in Moments' /\ Len(table') = Len(table) + 1
  BY <1>1, <1>2, <1>3 DEF Moments
<1>5. TableAt(n)' = TableAt(n)
  BY <1>1, <1>2, <1>4, EarlierTables DEF TableAt
<1>6. ASSUME NEW i \in (n + 1)..Len(table') PROVE table'[i].stored >= t
  <2>1. CASE i \in (n + 1)..Len(table)
    BY <1>1, <1>2, <1>3, <1>4, <2>1
  <2>2. CASE i = Len(table) + 1
    BY <1>1, <1>2, <2>2 DEF TableInv
  <2>3. QED
    BY <1>2, <1>4, <2>1, <2>2
<1>7. QED
  BY <1>3, <1>4, <1>5, <1>6 DEF Snapshot

(* A later demand on a snapshot is a weaker one the earlier its time.       *)
LEMMA SnapshotOfEarlierTime ==
    ASSUME TableInv, NEW rows, NEW q, NEW t \in Int, NEW u \in Int, u <= t,
           Snapshot(rows, q, t)
    PROVE  Snapshot(rows, q, u)
<1>1. PICK n \in Moments : /\ rows = Aggregate(TableAt(n), q)
                           /\ \A i \in (n + 1)..Len(table) : table[i].stored >= t
  BY DEF Snapshot
<1>2. ASSUME NEW i \in (n + 1)..Len(table) PROVE table[i].stored >= u
  <2>1. table[i] \in Entries
    BY <1>1 DEF TableInv, Moments
  <2>2. QED
    BY <1>1, <2>1 DEF Entries
<1>3. QED
  BY <1>1, <1>2 DEF Snapshot

-----------------------------------------------------------------------------
(* The steps of a request. *)

(* A request that takes a step leaves the others sound. *)
LEMMA OthersStaySound ==
    ASSUME Inv, NEW r \in Requests, UNCHANGED <<scenario, clock, table>>,
           \E x : Sound(x) /\ req' = [req EXCEPT ![r] = x]
    PROVE  TableInv' /\ RequestInv'
<1>1. TableInv'
  BY DEF Inv, TableInv
<1>2. req' = [s \in Requests |-> req'[s]] /\ \A s \in Requests : Sound(req'[s])
  BY DEF Inv, RequestInv
<1>3. \A y : Sound(y)' <=> Sound(y)
  BY DEF Sound, Knows, Snapshot, Moments, TableAt
<1>4. QED
  BY <1>1, <1>2, <1>3 DEF RequestInv

(* The cache stays what it was. *)
LEMMA CacheStays ==
    ASSUME Inv, UNCHANGED <<scenario, clock, table, cache>>
    PROVE  CacheInv'
  BY DEF Inv, CacheInv, Filed, Snapshot, Moments, TableAt

(* A new request knows the table as it is. *)
LEMMA AskKeepsInv ==
    ASSUME Inv, NEW r \in Requests, NEW a, NEW q \in scenario.questions, Ask(r, a, q)
    PROVE  Inv'
<1> DEFINE p == IF a # q.app THEN "forbidden"
                ELSE IF q.period.from > q.period.to THEN "bad request" ELSE "look up"
           x == [pc |-> p, caller |-> a, asks |-> q, asked |-> clock,
                 known |-> Len(table), rows |-> {}]
<1>1. /\ q.period.from \in Int /\ q.period.to \in Int
      /\ clock \in 0..clock /\ clock <= clock + Slack /\ Len(table) \in Moments
  BY ScenarioAssumption, CacheAssumption DEF Inv, TableInv, Moments
<1>2. /\ p \in {"forbidden", "bad request", "look up"}
      /\ p # "forbidden" => a = q.app
      /\ p = "look up" => q.period.from <= q.period.to
  BY <1>1
<1>3. x.pc = p /\ x.caller = a /\ x.asks = q /\ x.asked = clock /\ x.known = Len(table)
  OBVIOUS
<1>4. req' = [req EXCEPT ![r] = x] /\ UNCHANGED <<scenario, clock, table, cache>>
  BY DEF Ask
<1> HIDE DEF p, x
<1>5. Sound(x)
  BY <1>1, <1>2, <1>3 DEF Sound, Knows, Steps
<1>6. TableInv' /\ RequestInv'
  BY <1>4, <1>5, OthersStaySound
<1>7. QED
  BY <1>4, <1>6, CacheStays DEF Inv

(* The times of a request. *)
LEMMA Times ==
    ASSUME NEW x, Knows(x)
    PROVE  x.asked \in 0..clock /\ clock <= x.asked + Slack /\ x.known \in 0..Len(table)
  BY DEF Knows, Moments

(* The state of a request that is under way. *)
LEMMA UnderWay ==
    ASSUME Inv, NEW r \in Requests, req[r].pc # "idle"
    PROVE  /\ Knows(req[r])
           /\ req[r].asked \in Int /\ req[r].asked <= clock /\ clock \in Int
<1>1. Sound(req[r])
  BY DEF Inv, RequestInv
<1>2. req[r] # Idle
  BY DEF Idle
<1>3. Knows(req[r])
  BY <1>1, <1>2 DEF Sound
<1>4. clock \in Int
  BY ScenarioAssumption DEF Inv, TableInv
<1>5. req[r].asked \in 0..clock
  BY <1>3 DEF Knows
<1>6. QED
  BY <1>3, <1>4, <1>5

(* A step that answers or saves rows which fit the question, or none,       *)
(* leaves every request sound.                                              *)
LEMMA BecomesSound ==
    ASSUME Inv, NEW r \in Requests, req[r].pc \in {"look up", "query", "save"},
           NEW p \in {"query", "save", "failed", "answered"}, NEW rows, Becomes(r, p, rows),
           p = "save" => Snapshot(rows, req[r].asks, req[r].asked),
           p = "answered" => Snapshot(rows, req[r].asks, req[r].asked + 1 - TTL - Slack),
           p \in {"save", "answered"} /\ rows = {} =>
              \A i \in 1..req[r].known : ~Covers(req[r].asks, table[i]),
           UNCHANGED <<scenario, clock, table>>
    PROVE  TableInv' /\ RequestInv'
<1> DEFINE x == [pc |-> p, caller |-> req[r].caller, asks |-> req[r].asks,
                 asked |-> req[r].asked, known |-> req[r].known, rows |-> rows]
<1>1. Knows(req[r])
  BY UnderWay
<1>2. /\ x.pc = p /\ x.caller = req[r].caller /\ x.asks = req[r].asks
      /\ x.asked = req[r].asked /\ x.known = req[r].known /\ x.rows = rows
  OBVIOUS
<1>3. req' = [req EXCEPT ![r] = x]
  BY DEF Becomes
<1> HIDE DEF x
<1>4. Sound(x)
  BY <1>1, <1>2 DEF Sound, Knows, Steps
<1>5. QED
  BY <1>3, <1>4, OthersStaySound

(* An answer from the cache is not older than the entry. *)
LEMMA LookUpKeepsInv ==
    ASSUME Inv, NEW r \in Requests, LookUp(r)
    PROVE  Inv'
<1> DEFINE q     == req[r].asks
           entry == cache[q]
<1>1. req[r].pc = "look up" /\ UNCHANGED <<scenario, clock, table, cache>>
  BY DEF LookUp
<1>2. req[r].asked \in Int /\ req[r].asked <= clock /\ clock \in Int
  BY <1>1, UnderWay
<1>3. CASE Cached(q) /\ Becomes(r, "answered", entry.rows)
  <2>1. Filed(q, entry) /\ entry.expires > clock /\ entry.rows # {}
    BY <1>3 DEF Inv, CacheInv, Cached, Key
  <2>2. entry.expires \in Int /\ Snapshot(entry.rows, q, entry.expires - TTL - Slack)
    BY <1>2, <2>1, CacheAssumption DEF Filed
  <2>3. req[r].asked + 1 - TTL - Slack <= entry.expires - TTL - Slack
    BY <1>2, <2>1, <2>2, CacheAssumption
  <2>4. Snapshot(entry.rows, q, req[r].asked + 1 - TTL - Slack)
    BY <1>2, <2>2, <2>3, SnapshotOfEarlierTime, CacheAssumption DEF Inv
  <2>5. TableInv' /\ RequestInv'
    BY <1>1, <1>3, <2>1, <2>4, BecomesSound
  <2>6. QED
    BY <1>1, <2>5, CacheStays DEF Inv
<1>4. CASE Becomes(r, "query", {})
  <2>1. TableInv' /\ RequestInv'
    BY <1>1, <1>4, BecomesSound
  <2>2. QED
    BY <1>1, <2>1, CacheStays DEF Inv
<1>5. QED
  BY <1>3, <1>4 DEF LookUp, Key

(* The query counts the table as it is. *)
LEMMA QueryKeepsInv ==
    ASSUME Inv, NEW r \in Requests, Query(r)
    PROVE  Inv'
<1> DEFINE q    == req[r].asks
           rows == Aggregate(table, q)
<1>1. req[r].pc = "query" /\ UNCHANGED <<scenario, clock, table, cache>>
  BY DEF Query
<1>2. Knows(req[r]) /\ req[r].asked \in Int
  BY <1>1, UnderWay
<1>3. Snapshot(rows, q, req[r].asked)
  BY <1>2, Present DEF Inv
<1>4. rows = {} => \A i \in 1..req[r].known : ~Covers(q, table[i])
  <2>1. 1..req[r].known \subseteq DOMAIN table
    BY <1>2, Times DEF Inv, TableInv
  <2>2. ASSUME rows = {}, NEW i \in DOMAIN table PROVE ~Covers(q, table[i])
    BY <2>2, NothingCounted
  <2>3. QED
    BY <2>1, <2>2
<1>5. TableInv' /\ RequestInv'
  <2>1. CASE Becomes(r, "save", rows)
    BY <1>1, <1>3, <1>4, <2>1, BecomesSound
  <2>2. CASE Becomes(r, "failed", {})
    BY <1>1, <2>2, BecomesSound
  <2>3. QED
    BY <2>1, <2>2 DEF Query
<1>6. QED
  BY <1>1, <1>5, CacheStays DEF Inv

(* What is filed was computed by a request that is still under way.         *)
LEMMA SaveKeepsInv ==
    ASSUME Inv, NEW r \in Requests, Save(r)
    PROVE  Inv'
<1> DEFINE q     == req[r].asks
           rows  == req[r].rows
           asked == req[r].asked
<1>1. req[r].pc = "save" /\ Becomes(r, "answered", rows) /\ UNCHANGED <<scenario, clock, table>>
  BY DEF Save
<1>2. Knows(req[r]) /\ asked \in Int /\ asked <= clock /\ clock \in Int
  BY <1>1, UnderWay
<1>3. Snapshot(rows, q, asked)
  BY <1>1, <1>2 DEF Knows
<1>4. Snapshot(rows, q, asked + 1 - TTL - Slack)
  <2>1. asked + 1 - TTL - Slack \in Int /\ asked + 1 - TTL - Slack <= asked
    BY <1>2, CacheAssumption
  <2>2. QED
    BY <1>2, <1>3, <2>1, SnapshotOfEarlierTime DEF Inv
<1>5. rows = {} => \A i \in 1..req[r].known : ~Covers(q, table[i])
  BY <1>1, <1>2 DEF Knows
<1>6. TableInv' /\ RequestInv'
  BY <1>1, <1>4, <1>5, BecomesSound
<1>7. CASE UNCHANGED cache
  BY <1>1, <1>6, <1>7, CacheStays DEF Inv
<1>8. CASE Set(q, rows)
  <2> DEFINE entry == [rows |-> rows, expires |-> clock + TTL]
  <2>1. entry.expires - TTL - Slack \in Int /\ entry.expires - TTL - Slack <= asked
    BY <1>2, Times, CacheAssumption
  <2>2. Snapshot(rows, q, entry.expires - TTL - Slack)
    BY <1>2, <1>3, <2>1, SnapshotOfEarlierTime DEF Inv
  <2>3. entry.expires \in 0..(clock + TTL)
    BY <1>2, CacheAssumption, ScenarioAssumption DEF Inv, TableInv
  <2>4. q \in scenario.questions /\ q.period.from <= q.period.to
    BY <1>1, <1>2 DEF Knows
  <2>5. Filed(q, entry)
    BY <2>2, <2>3, <2>4 DEF Filed
  <2>6. /\ DOMAIN cache' = DOMAIN cache \cup {q}
        /\ \A k \in DOMAIN cache' : cache'[k] = IF k = q THEN entry ELSE cache[k]
    BY <1>8 DEF Set, File, Key
  <2> HIDE DEF q, rows, asked, entry
  <2>7. \A k \in DOMAIN cache' : Filed(k, cache'[k])
    BY <2>5, <2>6 DEF Inv, CacheInv
  <2>8. CacheInv'
    BY <1>1, <2>7 DEF CacheInv, Filed, Snapshot, Moments, TableAt
  <2>9. QED
    BY <1>6, <2>8 DEF Inv
<1>9. QED
  BY <1>7, <1>8 DEF Save

(* A request ends. *)
LEMMA FinishKeepsInv ==
    ASSUME Inv, NEW r \in Requests, Finish(r)
    PROVE  Inv'
<1>1. Sound(Idle) /\ req' = [req EXCEPT ![r] = Idle] /\ UNCHANGED <<scenario, clock, table, cache>>
  BY DEF Sound, Finish
<1>2. TableInv' /\ RequestInv'
  BY <1>1, OthersStaySound
<1>3. QED
  BY <1>1, <1>2, CacheStays DEF Inv

-----------------------------------------------------------------------------
(* The steps of the world. *)

(* Rows that were counted remain the count of an earlier table.             *)
LEMMA StoreKeepsInv ==
    ASSUME Inv, NEW e \in scenario.happenings, Store(e)
    PROVE  Inv'
<1>1. Entry(e, clock) \in Entries /\ Entry(e, clock).stored = clock
  BY ScenarioAssumption DEF Inv, TableInv, Entry, Entries, Occurrences
<1>2. /\ table' = Append(table, Entry(e, clock)) /\ UNCHANGED <<scenario, clock, cache, req>>
      /\ table \in Seq(Entries) /\ clock \in Int
  BY ScenarioAssumption DEF Store, Inv, TableInv
<1>3. /\ Len(table') = Len(table) + 1 /\ table' \in Seq(Entries)
      /\ table'[Len(table) + 1] = Entry(e, clock)
      /\ \A i \in 1..Len(table) : table'[i] = table[i]
  BY <1>1, <1>2
<1>4. TableInv'
  <2>1. ASSUME NEW i \in DOMAIN table' PROVE table'[i].stored <= clock
    <3>1. i \in 1..Len(table) \/ i = Len(table) + 1
      BY <1>2, <1>3
    <3>2. QED
      BY <1>1, <1>2, <1>3, <3>1 DEF Inv, TableInv
  <2>2. QED
    BY <1>2, <1>3, <2>1 DEF Inv, TableInv
<1>5. \A rows, q : \A t \in Int : t <= clock /\ Snapshot(rows, q, t) => Snapshot(rows, q, t)'
  BY SnapshotStays DEF Inv
<1>6. ASSUME NEW q \in DOMAIN cache PROVE Filed(q, cache[q])'
  <2>1. Filed(q, cache[q])
    BY DEF Inv, CacheInv
  <2>2. /\ cache[q].expires - TTL - Slack \in Int
        /\ cache[q].expires - TTL - Slack <= clock
    BY <1>2, <2>1, CacheAssumption DEF Filed
  <2>3. PICK rows, t : rows = cache[q].rows /\ t = cache[q].expires - TTL - Slack
    OBVIOUS
  <2>4. Snapshot(rows, q, t)'
    BY <1>5, <2>1, <2>2, <2>3 DEF Filed
  <2>5. QED
    BY <1>2, <2>1, <2>3, <2>4 DEF Filed
<1>7. ASSUME NEW x, Sound(x) PROVE Sound(x)'
  <2>1. CASE x = Idle
    BY <2>1 DEF Sound, Idle
  <2>2. CASE Knows(x)
    <3>1. x.asked \in Int /\ x.asked <= clock
      BY <1>2, <2>2, Times
    <3>2. x.pc = "save" => Snapshot(x.rows, x.asks, x.asked)'
      BY <1>5, <2>2, <3>1 DEF Knows
    <3>3. x.pc = "answered" => Snapshot(x.rows, x.asks, x.asked + 1 - TTL - Slack)'
      <4>1. x.asked + 1 - TTL - Slack \in Int /\ x.asked + 1 - TTL - Slack <= clock
        BY <1>2, <3>1, CacheAssumption
      <4>2. QED
        BY <1>5, <2>2, <4>1 DEF Knows
    <3>4. x.known \in Moments' /\ \A i \in 1..x.known : table'[i] = table[i]
      BY <1>2, <1>3, <2>2, Times DEF Moments
    <3>5. Knows(x)'
      BY <1>2, <2>2, <3>2, <3>3, <3>4 DEF Knows
    <3>6. QED
      BY <3>5 DEF Sound
  <2>3. QED
    BY <1>7, <2>1, <2>2 DEF Sound
<1>8. RequestInv'
  BY <1>2, <1>7 DEF Inv, RequestInv
<1>9. CacheInv'
  BY <1>2, <1>6 DEF CacheInv
<1>10. QED
  BY <1>4, <1>8, <1>9 DEF Inv

(* Time passes while every request has some left.                           *)
LEMMA TickKeepsInv ==
    ASSUME Inv, Tick
    PROVE  Inv'
<1>1. /\ clock' = clock + 1 /\ clock < scenario.horizon /\ scenario.horizon \in Nat
      /\ clock \in Nat /\ clock' \in 0..scenario.horizon
      /\ UNCHANGED <<scenario, table, cache, req>>
  BY ScenarioAssumption DEF Tick, Inv, TableInv
<1>2. TableInv'
  <2>1. ASSUME NEW i \in DOMAIN table PROVE table[i].stored <= clock + 1
    <3>1. table[i] \in Entries /\ table[i].stored <= clock
      BY DEF Inv, TableInv
    <3>2. QED
      BY <1>1, <3>1 DEF Entries
  <2>2. QED
    BY <1>1, <2>1 DEF Inv, TableInv
<1>3. \A rows, q, t : Snapshot(rows, q, t) => Snapshot(rows, q, t)'
  BY <1>1 DEF Snapshot, Moments, TableAt
<1>4. ASSUME NEW q \in DOMAIN cache PROVE Filed(q, cache[q])'
  <2>1. Filed(q, cache[q])
    BY DEF Inv, CacheInv
  <2>2. cache[q].expires \in 0..(clock' + TTL)
    BY <1>1, <2>1, CacheAssumption DEF Filed
  <2>3. PICK rows, t : rows = cache[q].rows /\ t = cache[q].expires - TTL - Slack
    OBVIOUS
  <2>4. Snapshot(rows, q, t)'
    BY <1>3, <2>1, <2>3 DEF Filed
  <2>5. QED
    BY <1>1, <2>1, <2>2, <2>3, <2>4 DEF Filed
<1>5. ASSUME NEW r \in Requests PROVE Sound(req[r])'
  <2>1. PICK x : x = req[r]
    OBVIOUS
  <2>2. Sound(x) /\ (x # Idle => clock < x.asked + Slack)
    BY <2>1 DEF Inv, RequestInv, Tick
  <2>3. CASE x = Idle
    BY <1>1, <2>1, <2>3 DEF Sound, Idle
  <2>4. CASE x # Idle
    <3>1. Knows(x) /\ clock < x.asked + Slack
      BY <2>2, <2>4 DEF Sound
    <3>2. x.asked \in 0..clock' /\ clock' <= x.asked + Slack
      BY <1>1, <3>1, Times, CacheAssumption
    <3>3. Knows(x)'
      BY <1>1, <1>3, <3>1, <3>2 DEF Knows, Moments
    <3>4. QED
      BY <1>1, <2>1, <3>3 DEF Sound
  <2>5. QED
    BY <2>3, <2>4
<1>6. RequestInv'
  BY <1>1, <1>5 DEF Inv, RequestInv
<1>7. CacheInv'
  BY <1>1, <1>4 DEF CacheInv
<1>8. QED
  BY <1>2, <1>6, <1>7 DEF Inv

-----------------------------------------------------------------------------
(* The theorems. *)

(* The invariant holds throughout. *)
LEMMA Invariance == Spec => []Inv
<1>1. Init => Inv
  <2> SUFFICES ASSUME Init PROVE Inv
    OBVIOUS
  <2>1. TableInv
    BY ScenarioAssumption DEF Init, TableInv
  <2>2. CacheInv
    BY DEF Init, CacheInv
  <2>3. RequestInv
    BY DEF Init, RequestInv, Sound
  <2>4. QED
    BY <2>1, <2>2, <2>3 DEF Inv
<1>2. Inv /\ [Next]_vars => Inv'
  <2> SUFFICES ASSUME Inv, [Next]_vars PROVE Inv'
    OBVIOUS
  <2>1. ASSUME NEW r \in Requests, NEW a \in scenario.apps, NEW q \in scenario.questions, Ask(r, a, q)
        PROVE  Inv'
    BY <2>1, AskKeepsInv
  <2>2. ASSUME NEW r \in Requests, LookUp(r) PROVE Inv'
    BY <2>2, LookUpKeepsInv
  <2>3. ASSUME NEW r \in Requests, Query(r) PROVE Inv'
    BY <2>3, QueryKeepsInv
  <2>4. ASSUME NEW r \in Requests, Save(r) PROVE Inv'
    BY <2>4, SaveKeepsInv
  <2>5. ASSUME NEW r \in Requests, Finish(r) PROVE Inv'
    BY <2>5, FinishKeepsInv
  <2>6. ASSUME NEW e \in scenario.happenings, Store(e) PROVE Inv'
    BY <2>6, StoreKeepsInv
  <2>7. CASE Tick
    BY <2>7, TickKeepsInv
  <2>8. CASE UNCHANGED vars
    <3>1. UNCHANGED <<scenario, clock, table, cache, req>>
      BY <2>8 DEF vars
    <3>2. CacheInv'
      BY <3>1, CacheStays
    <3>3. TableInv' /\ RequestInv'
      BY <3>1 DEF Inv, TableInv, RequestInv, Sound, Knows, Snapshot, Moments, TableAt
    <3>4. QED
      BY <3>2, <3>3 DEF Inv
  <2>9. QED
    BY <2>1, <2>2, <2>3, <2>4, <2>5, <2>6, <2>7, <2>8 DEF Next
<1>3. QED
  BY <1>1, <1>2, PTL DEF Spec

(* Every reachable state of the metrics query is well typed, for any        *)
(* scenarios, and its cache only holds questions that get_metrics accepts.  *)
THEOREM MetricsTypeCorrect == Spec => []TypeOK
<1>1. Inv => TypeOK
  <2> SUFFICES ASSUME Inv PROVE TypeOK
    OBVIOUS
  <2>1. clock \in 0..scenario.horizon /\ table \in Seq(Entries)
    BY DEF Inv, TableInv
  <2>2. ASSUME NEW q \in DOMAIN cache
        PROVE  /\ q \in scenario.questions /\ q.period.from <= q.period.to
               /\ cache[q].expires \in 0..(clock + TTL)
    BY DEF Inv, CacheInv, Filed
  <2>3. ASSUME NEW r \in Requests, req[r] # Idle
        PROVE  /\ req[r].pc \in Steps /\ req[r].asks \in scenario.questions
               /\ req[r].asked \in 0..clock /\ req[r].known \in Moments
    BY <2>3 DEF Inv, RequestInv, Sound, Knows
  <2>4. QED
    BY <2>1, <2>2, <2>3 DEF TypeOK, Steps
<1>2. QED
  BY <1>1, Invariance, PTL

(* An answered request has a snapshot. *)
LEMMA AnswersAreSnapshots ==
    ASSUME Inv, NEW r \in Answered
    PROVE  /\ r \in Requests /\ req[r].pc = "answered" /\ Knows(req[r])
           /\ req[r].caller = req[r].asks.app
           /\ Snapshot(req[r].rows, req[r].asks, req[r].asked + 1 - TTL - Slack)
<1>1. r \in Requests /\ req[r].pc = "answered"
  BY DEF Answered
<1>2. Knows(req[r])
  BY <1>1, UnderWay
<1>3. QED
  BY <1>1, <1>2 DEF Knows

(* Every answer is the aggregation of the table at one instant, for the     *)
(* question and the tenant that asked, whatever else the shared cache holds *)
(* (get_metrics, generate_cache_key).                                       *)
THEOREM AnswersAreOwnFigures == Spec => []NoForeignFigures
<1>1. Inv => NoForeignFigures
  BY AnswersAreSnapshots DEF NoForeignFigures, Snapshot
<1>2. QED
  BY <1>1, Invariance, PTL

(* Every answer holds what was stored longer ago than the TTL and one       *)
(* request, however requests overlap and Redis fails (set_cached_json).     *)
THEOREM AnswersLagByTTL == Spec => []AnswersLag
<1>1. Inv => AnswersLag
  <2> SUFFICES ASSUME Inv, NEW r \in Answered
               PROVE  \E n \in Moments :
                        /\ req[r].rows = Aggregate(TableAt(n), req[r].asks)
                        /\ \A i \in (n + 1)..Len(table) : table[i].stored + TTL + Slack > req[r].asked
    BY DEF AnswersLag
  <2>1. Snapshot(req[r].rows, req[r].asks, req[r].asked + 1 - TTL - Slack) /\ req[r].asked \in Int
    BY AnswersAreSnapshots, UnderWay
  <2>2. PICK n \in Moments :
          /\ req[r].rows = Aggregate(TableAt(n), req[r].asks)
          /\ \A i \in (n + 1)..Len(table) : table[i].stored >= req[r].asked + 1 - TTL - Slack
    BY <2>1 DEF Snapshot
  <2>3. ASSUME NEW i \in (n + 1)..Len(table) PROVE table[i].stored + TTL + Slack > req[r].asked
    <3>1. table[i] \in Entries
      BY <2>2 DEF Inv, TableInv, Moments
    <3>2. QED
      BY <2>1, <2>2, <3>1, CacheAssumption DEF Entries
  <2>4. QED
    BY <2>2, <2>3
<1>2. QED
  BY <1>1, Invariance, PTL

(* An answer without rows was computed after the request arrived, so it     *)
(* misses no event that was there: an empty list is no hit (get_metrics).   *)
THEOREM EmptyAnswersAreFresh == Spec => []EmptyIsFresh
<1>1. Inv => EmptyIsFresh
  BY AnswersAreSnapshots DEF EmptyIsFresh, Knows
<1>2. QED
  BY <1>1, Invariance, PTL

-----------------------------------------------------------------------------
(* The figures. *)

(* The period of the view begins and ends with a tick.                     *)
LEMMA ViewsAreTicks ==
    ASSUME Inv
    PROVE  Window(scenario.view) \in [from : Ticks, to : Ticks]
<1>1. PICK view : view = scenario.view
  OBVIOUS
<1>2. /\ view.now # None
      /\ \A date \in {view.now, view.start, view.end} :
            date = None \/ (date \in Int /\ date % Millisecond = 0)
  BY <1>1, ScenarioAssumption DEF Inv, TableInv
<1>3. view.now \in Ticks /\ view.start \in Ticks \cup {None} /\ view.end \in Ticks \cup {None}
  BY <1>2, WholeMilliseconds
<1>4. QED
  BY <1>1, <1>3, WindowsAreTicks

(* Two periods that are compared never count an event twice, and lose none  *)
(* of a whole millisecond between them, for every view, every clock and     *)
(* every table (getDateRangeWindow, getPreviousPeriodWindow).               *)
THEOREM PeriodsFitTogether == Spec => []PeriodsTile
<1>1. Inv => PeriodsTile
  <2> SUFFICES ASSUME Inv, NEW i \in DOMAIN table
               PROVE  LET e   == table[i]
                          now == Covers(Current(scenario.view, e.app), e)
                          ago == Covers(Before(scenario.view, e.app), e)
                          all == Period(Previous(Window(scenario.view)).from, Window(scenario.view).to)
                      IN /\ ~(now /\ ago)
                         /\ e.at % Millisecond = 0 /\ Within(e.at, all) => now \/ ago
    BY DEF PeriodsTile
  <2>1. PICK e \in Entries : e = table[i]
    BY DEF Inv, TableInv
  <2>2. PICK view : view = scenario.view
    OBVIOUS
  <2>3. PICK p : p = Window(view)
    OBVIOUS
  <2>4. e.at \in Int
    BY DEF Entries
  <2>5. p \in [from : Ticks, to : Ticks]
    BY <2>2, <2>3, ViewsAreTicks
  <2>6. Covers(Current(view, e.app), e) <=> Within(e.at, p)
    BY <2>3 DEF Covers, Current
  <2>7. Covers(Before(view, e.app), e) <=> Within(e.at, Previous(p))
    BY <2>3 DEF Covers, Before, Current
  <2>8. e.at % Millisecond = 0 => e.at \in Ticks
    BY <2>4, WholeMilliseconds
  <2>9. QED
    BY <2>1, <2>2, <2>3, <2>4, <2>5, <2>6, <2>7, <2>8, PeriodsFollow
<1>2. QED
  BY <1>1, Invariance, PTL

(* The rows of an answer are what its question counts in the first n        *)
(* entries, and can be added up.                                            *)
LEMMA AnswersAreCounted ==
    ASSUME Inv, NEW r \in Answered
    PROVE  \E n \in Moments : /\ req[r].rows = Aggregate(TableAt(n), req[r].asks)
                             /\ Recorded(TableAt(n)) /\ Counted(req[r].rows)
<1>1. PICK n \in Moments : req[r].rows = Aggregate(TableAt(n), req[r].asks)
  BY AnswersAreSnapshots DEF Snapshot
<1>2. Recorded(TableAt(n))
  <2>1. TableAt(n) \in Seq(Entries)
    BY DEF Inv, TableInv, TableAt, Moments
  <2>2. PICK t \in Seq(Entries) : t = TableAt(n)
    BY <2>1
  <2>3. DOMAIN t = 1..Len(t) /\ Len(t) \in Nat /\ \A i \in DOMAIN t : t[i] \in Entries
    OBVIOUS
  <2>4. IsFiniteSet(DOMAIN t)
    BY <2>3, FS_Interval
  <2>5. QED
    BY <2>2, <2>3, <2>4 DEF Recorded, Entries
<1>3. QED
  BY <1>1, <1>2, RowsAreCounted

(* While two periods are compared, the total, the events per day and each   *)
(* event that is named rise only if there are more events than before and   *)
(* fall only if there are fewer, for all answers, however many rows they    *)
(* have and however the percentages and averages are rounded; while nothing *)
(* is compared nothing falls and nothing is named, but the total rises by   *)
(* 100 % as soon as there is an event (analyticsSummary).                   *)
THEOREM ChangesPointTheRightWay == Spec => []DirectionIsTrue
<1>1. Inv => DirectionIsTrue
  <2> SUFFICES ASSUME Inv, NEW r \in Answered, NEW s \in Answered, NEW comparePeriod \in BOOLEAN
               PROVE  LET rows   == req[r].rows
                          before == Compared(req[s].rows, comparePeriod)
                          total  == Change(Total(rows), Total(before))
                          perDay == PerDayChange(rows, before, Window(scenario.view))
                          list   == Breakdown(rows, before)
                      IN /\ total > 0 \/ perDay > 0 => Total(rows) > Total(before)
                         /\ total < 0 \/ perDay < 0 => comparePeriod /\ Total(rows) < Total(before)
                         /\ ~comparePeriod /\ Total(rows) > 0 => total = 1000
                         /\ \A b \in BiggestIncrease(list) :
                               comparePeriod /\ b.events > Total(Of(before, b.event_name))
                         /\ \A b \in BiggestDecrease(list) :
                               comparePeriod /\ b.events < Total(Of(before, b.event_name))
                         /\ BiggestIncrease(list) \cap BiggestDecrease(list) = {}
    BY DEF DirectionIsTrue
  <2>1. PICK rows, before : rows = req[r].rows /\ before = Compared(req[s].rows, comparePeriod)
    OBVIOUS
  <2>2. Counted(rows) /\ Counted(before)
    BY <2>1, AnswersAreCounted, NothingIsZero DEF Compared
  <2>3. PICK now \in Nat, ago \in Nat : now = Total(rows) /\ ago = Total(before)
    BY <2>2, TotalAddsUp
  <2>4. PICK p : p = Window(scenario.view)
    OBVIOUS
  <2>5. p.from \in Int /\ p.to \in Int
    BY <2>4, ViewsAreTicks DEF Ticks
  <2>6. /\ Change(now, ago) > 0 => now > ago
        /\ Change(now, ago) < 0 => now < ago
    BY ChangesHaveDirection
  <2>7. /\ PerDayChange(rows, before, p) > 0 => now > ago
        /\ PerDayChange(rows, before, p) < 0 => now < ago
    BY <2>2, <2>3, <2>5, PerDayHasDirection
  <2>8. ~comparePeriod => before = {}
    BY <2>1 DEF Compared
  <2>9. ~comparePeriod => ago = 0
    BY <2>3, <2>8, NothingIsZero
  <2>10. ~comparePeriod /\ now > 0 => Change(now, ago) = 1000
    BY <2>9 DEF Change
  <2>11. PICK list : list = Breakdown(rows, before)
    OBVIOUS
  <2>12. \A b \in list : /\ b.delta \in Int
                         /\ b.delta > 0 => b.events > Total(Of(before, b.event_name))
                         /\ b.delta < 0 => b.events < Total(Of(before, b.event_name))
    BY <2>2, <2>11, ChangesAreTrue
  <2>13. ASSUME ~comparePeriod, NEW b \in list PROVE b.delta = 0
    <3>1. PICK n : b.delta = Delta(Total(Of(rows, n)), Total(Of(before, n)))
      BY <2>11, <2>13 DEF Breakdown
    <3>2. Of(before, n) = {}
      BY <2>8, <2>13 DEF Of
    <3>3. QED
      BY <3>1, <3>2, NothingIsZero DEF Delta
  <2>14. now < ago => comparePeriod
    BY <2>9
  <2>15. /\ \A b \in BiggestIncrease(list) :
               comparePeriod /\ b.events > Total(Of(before, b.event_name))
         /\ \A b \in BiggestDecrease(list) :
               comparePeriod /\ b.events < Total(Of(before, b.event_name))
         /\ BiggestIncrease(list) \cap BiggestDecrease(list) = {}
    BY <2>12, <2>13 DEF BiggestIncrease, BiggestDecrease
  <2>16. QED
    BY <2>1, <2>3, <2>4, <2>6, <2>7, <2>10, <2>11, <2>14, <2>15
<1>2. QED
  BY <1>1, Invariance, PTL

(* What an answer to the question of the page gives for an event is what    *)
(* the question for that event alone counts at the same instant.            *)
LEMMA LinesAreCounts ==
    ASSUME Inv, NEW n \in Moments, Recorded(TableAt(n)),
           NEW q, q.event_name = None, q = [q EXCEPT !.event_name = None],
           NEW before, NEW b \in Breakdown(Aggregate(TableAt(n), q), before)
    PROVE  b.events = Count(n, [q EXCEPT !.event_name = b.event_name])
<1>1. PICK t : t = TableAt(n)
  OBVIOUS
<1>2. PICK name : name = b.event_name
  OBVIOUS
<1>3. name \in Names(Aggregate(t, q)) /\ b.events = Total(Of(Aggregate(t, q), name))
  BY <1>1, <1>2 DEF Breakdown
<1>4. DOMAIN t = 1..n /\ \A i \in 1..n : t[i] = table[i] /\ t[i] \in Entries
  BY <1>1 DEF Inv, TableInv, TableAt, Moments
<1>5. name \in STRING
  <2>1. PICK k \in Hits(t, q) : name = RowOf(t, q, GroupOf(t, q, k)).event_name
    BY <1>3, AggregateIsRows DEF Names, Groups
  <2>2. name = t[k].event_name /\ k \in 1..n
    BY <1>4, <2>1 DEF RowOf, GroupOf, Hits
  <2>3. QED
    BY <1>4, <2>2 DEF Entries
<1>6. PICK I : I = {i \in Hits(t, q) : t[i].event_name = name}
  OBVIOUS
<1>7. b.events = Copies(t, I)
  BY <1>1, <1>3, <1>5, <1>6, EventsAreCopies
<1>8. Copies(table, I) = Copies(t, I)
  <2>1. I \in SUBSET (1..n)
    BY <1>4, <1>6 DEF Hits
  <2>2. IsFiniteSet(I)
    BY <1>1, <1>4, <2>1, FS_Subset DEF Recorded
  <2>3. \A i \in I : t[i].copies \in Nat /\ table[i].copies \in Nat
    BY <1>4, <2>1 DEF Entries
  <2>4. CopiesOf(table, I) = CopiesOf(t, I)
    BY <1>4, <2>1 DEF CopiesOf
  <2>5. QED
    BY <2>2, <2>3, <2>4, CopiesAddUp
<1>9. I = {i \in 1..n : Covers([q EXCEPT !.event_name = name], table[i])}
  <2>1. ASSUME NEW i \in 1..n
        PROVE  Covers([q EXCEPT !.event_name = name], table[i]) <=> Covers(q, t[i]) /\ t[i].event_name = name
    <3>1. PICK x : x = [q EXCEPT !.event_name = name]
      OBVIOUS
    <3>2. x.event_name = name /\ x.app = q.app /\ x.period = q.period
      BY <3>1
    <3>3. name # None
      BY <1>5, NoneAssumption
    <3>4. QED
      BY <1>4, <3>1, <3>2, <3>3 DEF Covers
  <2>2. QED
    BY <1>4, <1>6, <2>1 DEF Hits
<1>10. Count(n, [q EXCEPT !.event_name = name]) = Copies(table, I)
  BY <1>9 DEF Count, Copies
<1>11. QED
  BY <1>2, <1>7, <1>8, <1>10

(* The breakdown gives each event the number of its occurrences at one       *)
(* instant, the shares lose no more than rounding does and the heatmap       *)
(* nothing, for every table and every answer (analyticsSummary).             *)
THEOREM BreakdownsAddUp == Spec => []BreakdownIsExact
<1>1. Inv => BreakdownIsExact
  <2> SUFFICES ASSUME Inv, NEW r \in Answered, NEW s \in Answered, NEW a \in scenario.apps,
                      Answers(r, Current(scenario.view, a)), Answers(s, Before(scenario.view, a))
               PROVE  LET list == Breakdown(req[r].rows, req[s].rows)
                          map  == Heatmap(req[r].rows)
                      IN /\ \E n \in Moments : \A b \in list :
                               b.events = Count(n, [Current(scenario.view, a) EXCEPT !.event_name = b.event_name])
                         /\ list # {} =>
                               2 * (Shares(list) - 1000) \in (-Cardinality(list))..Cardinality(list)
                         /\ Cells(map) = Total(req[r].rows)
    BY DEF BreakdownIsExact, Shares, Cells
  <2>1. PICK q : q = Current(scenario.view, a)
    OBVIOUS
  <2>2. PICK rows, before : rows = req[r].rows /\ before = req[s].rows
    OBVIOUS
  <2>3. PICK n \in Moments : rows = Aggregate(TableAt(n), q) /\ Recorded(TableAt(n)) /\ Counted(rows)
    BY <2>1, <2>2, AnswersAreCounted DEF Answers
  <2>4. PICK list : list = Breakdown(rows, before)
    OBVIOUS
  <2>5. \A b \in list : b.events = Count(n, [q EXCEPT !.event_name = b.event_name])
    <3>1. q.event_name = None /\ q = [q EXCEPT !.event_name = None]
      BY <2>1 DEF Current
    <3>2. QED
      BY <2>3, <2>4, <3>1, LinesAreCounts
  <2>6. \A x \in rows : x.count > 0 /\ x.bucket \in Int
    BY <2>3, RowsAreCounted
  <2>7. list # {} => 2 * (Shares(list) - 1000) \in (-Cardinality(list))..Cardinality(list)
    <3>1. list # {} => rows # {}
      BY <2>4 DEF Breakdown, Names
    <3>2. rows # {} => Total(rows) > 0
      BY <2>3, <2>6, RowsHaveEvents
    <3>3. QED
      BY <2>3, <2>4, <3>1, <3>2, SharesFit
  <2>8. Cells(Heatmap(rows)) = Total(rows)
    BY <2>3, <2>6, HeatmapLosesNothing
  <2>9. QED
    BY <2>1, <2>2, <2>4, <2>5, <2>7, <2>8
<1>2. QED
  BY <1>1, Invariance, PTL

(* The peak is the earliest of the buckets with the most events, for every  *)
(* answer (peakBucket in useAnalytics).                                     *)
THEOREM PeaksArePeaks == Spec => []PeakIsPeak
<1>1. Inv => PeakIsPeak
  <2> SUFFICES ASSUME Inv, NEW r \in Answered
               PROVE  LET rows == req[r].rows
                          peak == Peak(rows)
                      IN IF rows = {} THEN peak.bucket = None
                         ELSE /\ peak.count = InBucket(rows, peak.bucket)
                              /\ \A x \in rows : InBucket(rows, x.bucket) <= peak.count
                              /\ \A x \in rows : InBucket(rows, x.bucket) = peak.count => x.bucket >= peak.bucket
    BY DEF PeakIsPeak, InBucket, Total
  <2>1. PICK rows : rows = req[r].rows
    OBVIOUS
  <2>2. Counted(rows) /\ \A x \in rows : x.bucket \in Int /\ x.count > 0
    BY <2>1, AnswersAreCounted, RowsAreCounted
  <2>3. QED
    BY <2>1, <2>2, PeakOfRows
<1>2. QED
  BY <1>1, Invariance, PTL

(* The chart, the averages and the totals of the page agree, for all        *)
(* answers: nothing is lost between the buckets, and the averages are off   *)
(* by what was rounded (chartData, avgPerDay, EventDetailModal).            *)
THEOREM CardsFitTogether == Spec => []CardsAgree
<1>1. Inv => CardsAgree
  <2> DEFINE Fit(perDay, days, all) == 2 * (perDay * days - all) \in (-days)..days
  <2> SUFFICES ASSUME Inv, NEW r \in Answered, NEW s \in Answered
               PROVE  LET rows   == req[r].rows
                          before == req[s].rows
                          period == Window(scenario.view)
                      IN /\ Points(Series(rows)) = Total(rows)
                         /\ Points(PreviousSeries(rows, before)) \in {0, Total(before)}
                         /\ Fit(PerDay(rows, period), Days(period), Total(rows))
                         /\ Fit(DetailPerDay(rows), 7, Total(rows))
    BY DEF CardsAgree, Points
  <2>1. PICK rows, before : rows = req[r].rows /\ before = req[s].rows
    OBVIOUS
  <2>2. /\ Counted(rows) /\ \A x \in rows : x.bucket \in Int
        /\ Counted(before) /\ \A x \in before : x.bucket \in Int
    BY <2>1, AnswersAreCounted, RowsAreCounted
  <2>3. Points(Series(rows)) = Total(rows) /\ Points(PreviousSeries(rows, before)) \in {0, Total(before)}
    BY <2>2, SeriesAddsUp, PreviousAddsUp
  <2>4. PICK all \in Int : all = Total(rows)
    BY <2>2, TotalAddsUp
  <2>5. PICK p : p = Window(scenario.view)
    OBVIOUS
  <2>6. PICK days \in Nat \ {0} : days = Days(p)
    <3>1. p.from \in Int /\ p.to \in Int
      BY <2>5, ViewsAreTicks DEF Ticks
    <3>2. QED
      BY <3>1, DaysAreCounted
  <2>7. Fit(PerDay(rows, p), days, all)
    BY <2>4, <2>6, RoundsToNearest DEF PerDay
  <2>8. Fit(DetailPerDay(rows), 7, all)
    <3>1. 7 \in Nat \ {0}
      OBVIOUS
    <3>2. QED
      BY <2>4, <3>1, RoundsToNearest DEF DetailPerDay
  <2> HIDE DEF Fit
  <2>9. QED
    BY <2>1, <2>3, <2>4, <2>5, <2>6, <2>7, <2>8
<1>2. QED
  BY <1>1, Invariance, PTL
=============================================================================
