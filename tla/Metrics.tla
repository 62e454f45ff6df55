------------------------------- MODULE Metrics -------------------------------
(***************************************************************************)
(* GET /v1/applications/{id}/metrics: get_metrics with its cache in Redis, *)
(* while events are being stored.  Requests overlap; each reads the cache, *)
(* queries the table and fills the cache in steps of its own.  Every call  *)
(* of Redis may fail, before or after it took effect, and the query may    *)
(* raise.  Time passes in units of its own; a request lasts at most Slack. *)
(***************************************************************************)
EXTENDS Reports

CONSTANTS
    Requests,     \* requests in flight at a time
    Scenarios,    \* what is asked for and stored in a behaviour (see scenario)
    TTL,          \* how long the cache keeps an entry
    Slack         \* bound: how long a request takes

ASSUME CacheAssumption == TTL \in Nat \ {0} /\ Slack \in Nat

Occurrences == [app : Nat, event_name : STRING, at : Int, copies : Nat \ {0}]
Entries     == [app : Nat, event_name : STRING, at : Int, copies : Nat \ {0}, stored : Nat]

ASSUME ScenarioAssumption ==
    \A s \in Scenarios :
        /\ s.horizon \in Nat /\ s.happenings \subseteq Occurrences
        /\ s.table \in Seq(Entries) /\ \A i \in DOMAIN s.table : s.table[i].stored = 0
        /\ \A q \in s.questions : q.period.from \in Int /\ q.period.to \in Int
        /\ s.view.now # None
        /\ \A date \in {s.view.now, s.view.start, s.view.end} :
              date = None \/ (date \in Int /\ date % Millisecond = 0)

VARIABLES
    scenario,     \* the view, the callers and their questions, what is stored, the bounds
    clock,
    table,        \* entries of the events table, in the order of their commits
    cache,        \* questions with their rows and when they expire
    req           \* the state of each request

vars == <<scenario, clock, table, cache, req>>

Idle == [pc |-> "idle"]

Becomes(r, step, rows) ==
    req' = [req EXCEPT ![r] = [pc |-> step, caller |-> @.caller, asks |-> @.asks,
                               asked |-> @.asked, known |-> @.known, rows |-> rows]]

(* What the dashboard asks for: both periods of a view, and the details of  *)
(* an event.                                                                *)
Current(view, app) ==
    LET p == Window(view)
    IN [app |-> app, event_name |-> None, unit |-> Unit(p), period |-> p]
Before(view, app)  == [Current(view, app) EXCEPT !.period = Previous(@)]

Init ==
    /\ scenario \in Scenarios
    /\ clock = 0 /\ table = scenario.table /\ cache = <<>>
    /\ req = [r \in Requests |-> Idle]

-----------------------------------------------------------------------------
AskAnything(r, caller, q) ==
    /\ req[r] = Idle
    /\ req' = [req EXCEPT ![r] =
          [pc |-> IF caller # q.app THEN "forbidden" ELSE "look up",
           caller |-> caller, asks |-> q, asked |-> clock, known |-> Len(table), rows |-> {}]]
    /\ UNCHANGED <<scenario, clock, table, cache>>

(* A request arrives with the key of caller, and is refused unless it asks  *)
(* about that application and a period that does not end before it starts.  *)
Ask(r, caller, q) ==
    /\ req[r] = Idle
    /\ req' = [req EXCEPT ![r] =
          [pc |-> IF caller # q.app THEN "forbidden"
                  ELSE IF q.period.from > q.period.to THEN "bad request" ELSE "look up",
           caller |-> caller, asks |-> q, asked |-> clock, known |-> Len(table), rows |-> {}]]
    /\ UNCHANGED <<scenario, clock, table, cache>>

KeyOfAnyone(q) == [q EXCEPT !.app = None]

(* generate_cache_key. *)
Key(q) == q

AnyEntry(q) == Key(q) \in DOMAIN cache /\ cache[Key(q)].expires > clock

(* get_cached_json, and the test that takes an empty list for a miss. *)
Cached(q) ==
    /\ Key(q) \in DOMAIN cache
    /\ cache[Key(q)].expires > clock
    /\ cache[Key(q)].rows # {}

LookUp(r) ==
    /\ req[r].pc = "look up"
    /\ UNCHANGED <<scenario, clock, table, cache>>
    /\ \/ Cached(req[r].asks) /\ Becomes(r, "answered", cache[Key(req[r].asks)].rows)
       \/ ~Cached(req[r].asks) /\ Becomes(r, "query", {})
       \/ Becomes(r, "query", {})     \* Redis raises

Query(r) ==
    /\ req[r].pc = "query"
    /\ UNCHANGED <<scenario, clock, table, cache>>
    /\ Becomes(r, "save", Aggregate(table, req[r].asks)) \/ Becomes(r, "failed", {})

File(q, entry) ==
    cache' = [k \in DOMAIN cache \cup {Key(q)} |-> IF k = Key(q) THEN entry ELSE cache[k]]

SetWithoutEx(q, rows) == File(q, [rows |-> rows, expires |-> scenario.horizon + 1])

(* set_cached_json with its ex. *)
Set(q, rows) == File(q, [rows |-> rows, expires |-> clock + TTL])

Save(r) ==
    /\ req[r].pc = "save"
    /\ Set(req[r].asks, req[r].rows) \/ UNCHANGED cache
    /\ Becomes(r, "answered", req[r].rows)
    /\ UNCHANGED <<scenario, clock, table>>

Finish(r) ==
    /\ req[r].pc \in {"answered", "failed", "forbidden", "bad request"}
    /\ req' = [req EXCEPT ![r] = Idle]
    /\ UNCHANGED <<scenario, clock, table, cache>>

-----------------------------------------------------------------------------
(* An insert commits, of a batch of equal events. *)
Entry(e, time) ==
    [app |-> e.app, event_name |-> e.event_name, at |-> e.at, copies |-> e.copies, stored |-> time]

Store(e) ==
    /\ Len(table) < scenario.events
    /\ table' = Append(table, Entry(e, clock))
    /\ UNCHANGED <<scenario, clock, cache, req>>

Tick ==
    /\ clock < scenario.horizon
    /\ \A r \in Requests : req[r] # Idle => clock < req[r].asked + Slack
    /\ clock' = clock + 1
    /\ UNCHANGED <<scenario, table, cache, req>>

Next ==
    \/ \E r \in Requests :
          \/ \E a \in scenario.apps, q \in scenario.questions : Ask(r, a, q)
          \/ LookUp(r) \/ Query(r) \/ Save(r) \/ Finish(r)
    \/ \E e \in scenario.happenings : Store(e)
    \/ Tick

Spec == Init /\ [][Next]_vars

-----------------------------------------------------------------------------
Answers(r, q)  == req[r].pc = "answered" /\ req[r].asks = q
Answered       == {r \in Requests : req[r].pc = "answered"}
TableAt(n)      == SubSeq(table, 1, n)
Moments       == 0..Len(table)
Count(n, q)    == MapThenSumSet(LAMBDA i : table[i].copies, {i \in 1..n : Covers(q, table[i])})

(* The variables are well typed, an entry of the cache expires at most TTL  *)
(* from now and is filed under a question that get_metrics accepts.         *)
TypeOK ==
    /\ clock \in 0..scenario.horizon /\ table \in Seq(Entries)
    /\ \A q \in DOMAIN cache :
          /\ q \in scenario.questions /\ q.period.from <= q.period.to
          /\ cache[q].expires \in 0..(clock + TTL)
    /\ \A r \in Requests :
          \/ req[r] = Idle
          \/ /\ req[r].pc \in {"forbidden", "bad request", "look up", "query", "save", "failed", "answered"}
             /\ req[r].asks \in scenario.questions /\ req[r].asked \in 0..clock /\ req[r].known \in Moments

(* An answer counts what the table held at some instant, of the caller's    *)
(* own application and of nothing else: overlapping requests, and a cache   *)
(* that serves all tenants, never mix two questions or two states of the    *)
(* table ("Generate deterministic tenant-isolated cache key").              *)
NoForeignFigures ==
    \A r \in Answered :
        /\ req[r].caller = req[r].asks.app
        /\ \E n \in Moments : req[r].rows = Aggregate(TableAt(n), req[r].asks)

(* An answer holds every event that was stored longer ago than the cache    *)
(* lives and a request lasts, however often entries are replaced and        *)
(* whatever Redis loses (set_cached_json with a TTL of 60 s).               *)
AnswersLag ==
    \A r \in Answered : \E n \in Moments :
        /\ req[r].rows = Aggregate(TableAt(n), req[r].asks)
        /\ \A i \in (n + 1)..Len(table) : table[i].stored + TTL + Slack > req[r].asked

(* An event that was stored before a request arrived is never answered with *)
(* nothing: an empty list is no hit (get_metrics).                          *)
EmptyIsFresh ==
    \A r \in Answered :
        req[r].rows = {} => \A i \in 1..req[r].known : ~Covers(req[r].asks, table[i])

(* No event counts for both periods of a comparison, and every event of a   *)
(* whole millisecond from the first instant of one to the last of the other *)
(* counts for one of them (getPreviousPeriodWindow, and the bounds of the   *)
(* aggregation, which both belong to a period).                             *)
PeriodsTile ==
    \A i \in DOMAIN table :
        LET e   == table[i]
            now == Covers(Current(scenario.view, e.app), e)
            ago == Covers(Before(scenario.view, e.app), e)
            all == Period(Previous(Window(scenario.view)).from, Window(scenario.view).to)
        IN /\ ~(now /\ ago)
           /\ e.at % Millisecond = 0 /\ Within(e.at, all) => now \/ ago

(* The breakdown names each event of the period once with the number of its *)
(* occurrences, the shares of an answer differ from the whole by what they  *)
(* were rounded, and the heatmap loses nothing.                             *)
BreakdownIsExact ==
    \A r, s \in Answered, a \in scenario.apps :
        Answers(r, Current(scenario.view, a)) /\ Answers(s, Before(scenario.view, a)) =>
            LET list == Breakdown(req[r].rows, req[s].rows)
                map  == Heatmap(req[r].rows)
                off  == MapThenSumSet(LAMBDA b : b.share, list) - 1000
            IN /\ \E n \in Moments : \A b \in list :
                     b.events = Count(n, [Current(scenario.view, a) EXCEPT !.event_name = b.event_name])
               /\ list # {} => 2 * off \in -Cardinality(list)..Cardinality(list)
               /\ MapThenSumSet(LAMBDA c : map[c], DOMAIN map) = Total(req[r].rows)

(* While two periods are compared, a rise is reported only of what rose and *)
(* a fall only of what fell: of all events, of the events per day, which    *)
(* are rounded before they are compared, and of each event that is named as *)
(* the biggest increase or decrease.  While nothing is compared the page    *)
(* holds nothing of the previous period: no card falls and no event is      *)
(* named, but the total rises by 100 % as soon as there is an event,        *)
(* whatever the previous period was (analyticsSummary; KpiCard says "vs     *)
(* previous period" of both).                                               *)
DirectionIsTrue ==
    \A r, s \in Answered, a \in scenario.apps, comparePeriod \in BOOLEAN :
        Answers(r, Current(scenario.view, a))
        /\ (comparePeriod => Answers(s, Before(scenario.view, a))) =>
            LET rows   == req[r].rows
                before == Compared(req[s].rows, comparePeriod)
                total  == Change(Total(rows), Total(before))
                perDay == PerDayChange(rows, before, Window(scenario.view))
                list   == Breakdown(rows, before)
            IN /\ total > 0 \/ perDay > 0 => Total(rows) > Total(before)
               /\ total < 0 \/ perDay < 0 => comparePeriod /\ Total(rows) < Total(before)
               /\ ~comparePeriod /\ Total(rows) > 0 => total = 1000
               /\ \A b \in BiggestIncrease(list) :
                     comparePeriod /\ b.events > Total(Of(before, b.event_name))
               /\ \A b \in BiggestDecrease(list) :
                     comparePeriod /\ b.events < Total(Of(before, b.event_name))
               /\ BiggestIncrease(list) \cap BiggestDecrease(list) = {}

(* The peak is the earliest of the buckets with the most events, counted    *)
(* over all event names, and there is one unless there is no event.         *)
PeakIsPeak ==
    \A r \in Answered :
        LET rows == req[r].rows
            peak == Peak(rows)
            At(b) == MapThenSumSet(LAMBDA x : x.count, {x \in rows : x.bucket = b})
        IN IF rows = {} THEN peak.bucket = None
           ELSE /\ peak.count = At(peak.bucket)
                /\ \A x \in rows : At(x.bucket) <= peak.count
                /\ \A x \in rows : At(x.bucket) = peak.count => x.bucket >= peak.bucket

(* The points of the chart add up to the total beside it, those of the      *)
(* previous period too unless there are no current ones, and the events per *)
(* day of the overview and of the detail dialog fit their totals but for    *)
(* rounding: nothing is lost between the buckets.                           *)
CardsAgree ==
    LET SumOf(points)           == FoldLeft(+, 0, points)
        Fits(perDay, days, all) == 2 * (perDay * days - all) \in -days..days
    IN \A r, s \in Answered, a \in scenario.apps :
          LET rows   == req[r].rows
              before == req[s].rows
              period == Window(scenario.view)
          IN /\ Answers(r, Current(scenario.view, a)) /\ Answers(s, Before(scenario.view, a)) =>
                   /\ SumOf(Series(rows)) = Total(rows)
                   /\ SumOf(PreviousSeries(rows, before)) \in {0, Total(before)}
                   /\ Fits(PerDay(rows, period), Days(period), Total(rows))
             /\ req[r].asks.event_name # None => Fits(DetailPerDay(rows), 7, Total(rows))
=============================================================================
