------------------------------- MODULE Reports -------------------------------
(***************************************************************************)
(* The figures of a report: the periods useAnalytics compares, the         *)
(* aggregation of the server, and what the summary, the chart and the      *)
(* detail dialog make of its rows.                                         *)
(*                                                                         *)
(* Instants are numbers.  The browser's clock shows multiples of           *)
(* Millisecond, the events have any instant.  The local time of the        *)
(* browser is that of the database, and no day is longer than another.     *)
(* Percentages are in tenths, as the code rounds them; its division is     *)
(* exact here.                                                             *)
(***************************************************************************)
EXTENDS Integers, SequencesExt

CONSTANTS
    Millisecond, Hour, Day,   \* lengths of time
    None                      \* no date, no name, no bucket

ASSUME TimeAssumption ==
    /\ {Millisecond, Hour, Day} \subseteq Nat \ {0}
    /\ Hour % Millisecond = 0 /\ Day % Hour = 0

ASSUME NoneAssumption == None \notin STRING

Length(unit)    == IF unit = "hour" THEN Hour ELSE Day
Trunc(at, unit) == at - (at % Length(unit))

Period(from, to) == [from |-> from, to |-> to]
Within(at, p)    == p.from <= at /\ at <= p.to

-----------------------------------------------------------------------------
(* getDateRangeWindow. *)
Window(view) ==
    LET midnight == Trunc(view.now, "day")
        Back(n)  == Period(view.now - n * Day, view.now)
        Or(date) == IF date = None THEN view.now ELSE date
    IN CASE view.range = "today"     -> Period(midnight, view.now)
         [] view.range = "yesterday" -> Period(midnight - Day, midnight - Millisecond)
         [] view.range = "30d"       -> Back(30)
         [] view.range = "90d"       -> Back(90)
         [] view.range = "custom"    -> Period(Or(view.start), Or(view.end))
         [] OTHER                    -> Back(7)

PreviousMeeting(p) == Period(p.from - (p.to - p.from), p.from)

(* getPreviousPeriodWindow. *)
Previous(p) ==
    LET end == p.from - Millisecond
    IN Period(end - (p.to - p.from), end)

(* The granularity follows the length of the period. *)
Unit(p) == IF p.to - p.from <= 2 * Day THEN "hour" ELSE "day"

-----------------------------------------------------------------------------
(* A question names an application, a period, an event or None for all, and *)
(* a granularity.  get_metrics_aggregation answers it with one row for each *)
(* bucket and event name.  The table is a sequence of entries, each of      *)
(* which stands for some copies of an event.                                *)
Covers(q, e) == e.app = q.app /\ Within(e.at, q.period) /\ q.event_name \in {None, e.event_name}

Aggregate(table, q) ==
    LET hits     == {i \in DOMAIN table : Covers(q, table[i])}
        Group(i) == <<Trunc(table[i].at, q.unit), table[i].event_name>>
    IN {[bucket |-> g[1], event_name |-> g[2],
         count  |-> MapThenSumSet(LAMBDA i : table[i].copies, {i \in hits : Group(i) = g})]
          : g \in {Group(i) : i \in hits}}

-----------------------------------------------------------------------------
(* What the page holds of the previous period: nothing unless it compares.  *)
Compared(before, comparePeriod) == IF comparePeriod THEN before ELSE {}

(* analyticsSummary, from the rows of both periods. *)
Total(rows)    == MapThenSumSet(LAMBDA r : r.count, rows)
Names(rows)    == {r.event_name : r \in rows}
Of(rows, name) == {r \in rows : r.event_name = name}

(* The buckets in their order: each has its place behind the earlier ones. *)
Buckets(rows) ==
    LET all == {r.bucket : r \in rows}
    IN [i \in 1..Cardinality(all) |-> CHOOSE b \in all : Cardinality({c \in all : c < b}) = i - 1]

InBucket(rows, b) == Total({r \in rows : r.bucket = b})

Round(a, b)         == (2 * a + b) \div (2 * b)
Tenths(part, whole) == Round(1000 * part, whole)

ChangeOfCurrent(count, before) ==
    IF before > 0 THEN Tenths(count, before) ELSE IF count > 0 THEN 1000 ELSE 0

Change(count, before) ==
    IF before > 0 THEN Tenths(count - before, before) ELSE IF count > 0 THEN 1000 ELSE 0

(* An event without a predecessor has not changed. *)
Delta(count, before) == IF before > 0 THEN Change(count, before) ELSE 0

Days(p)            == Max({1, Round(p.to - p.from, Day)})
PerDay(rows, p)    == Round(Total(rows), Days(p))
PerDayChange(rows, before, p) == Change(PerDay(rows, p), PerDay(before, Previous(p)))

BreakdownOfFirstRows(rows, before) ==
    {[event_name |-> n,
      events     |-> (CHOOSE r \in Of(rows, n) : TRUE).count,
      share      |-> Tenths((CHOOSE r \in Of(rows, n) : TRUE).count, Total(rows)),
      delta      |-> Delta(Total(Of(rows, n)), Total(Of(before, n)))] : n \in Names(rows)}

Breakdown(rows, before) ==
    {[event_name |-> n,
      events     |-> Total(Of(rows, n)),
      share      |-> Tenths(Total(Of(rows, n)), Total(rows)),
      delta      |-> Delta(Total(Of(rows, n)), Total(Of(before, n)))] : n \in Names(rows)}

(* What's changed: the candidates, since ties fall as they may. *)
BiggestIncrease(list) == {b \in list : b.delta > 0 /\ \A c \in list : c.delta <= b.delta}
BiggestDecrease(list) == {b \in list : b.delta < 0 /\ \A c \in list : c.delta >= b.delta}

PeakOfLast(rows) ==
    FoldLeft(LAMBDA peak, b : IF InBucket(rows, b) >= peak.count
                              THEN [count |-> InBucket(rows, b), bucket |-> b] ELSE peak,
             [count |-> 0, bucket |-> None], Buckets(rows))

Peak(rows) ==
    FoldLeft(LAMBDA peak, b : IF InBucket(rows, b) > peak.count
                              THEN [count |-> InBucket(rows, b), bucket |-> b] ELSE peak,
             [count |-> 0, bucket |-> None], Buckets(rows))

(* The matrix of weekdays and hours. *)
Heatmap(rows) ==
    [cell \in (0..6) \X (0..(Day \div Hour - 1)) |->
        Total({r \in rows : (r.bucket \div Day) % 7 = cell[1] /\ (r.bucket % Day) \div Hour = cell[2]})]

-----------------------------------------------------------------------------
(* ChartContainer: the points of each series, by position. *)
SeriesByRow(rows) == [i \in DOMAIN Buckets(rows) |->
                        (CHOOSE r \in rows : r.bucket = Buckets(rows)[i]).count]

Series(rows) == [i \in DOMAIN Buckets(rows) |-> InBucket(rows, Buckets(rows)[i])]

PreviousSeries(rows, before) == IF rows = {} THEN <<>> ELSE Series(before)

(* EventDetailModal: seven days of one event, up to now. *)
Detail(app, name, now) ==
    [app |-> app, event_name |-> name, unit |-> "day", period |-> Period(now - 7 * Day, now)]
DetailPerDay(rows) == Round(Total(rows), 7)
=============================================================================
