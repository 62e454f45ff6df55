------------------------------ MODULE Analytics ------------------------------
(***************************************************************************)
(* The figures of the dashboard: the hook useAnalytics with its selection, *)
(* its polling timer and its overlapping loads, over the fetchers and the  *)
(* stored API keys of services/api.js.                                     *)
(*                                                                         *)
(* What a load asks for is its question; figures are named after the       *)
(* question they answer.  Applications are numbered in the order of their  *)
(* registration, and the keys of an application in the order in which they *)
(* are issued.  React runs the effects of a state change before it handles *)
(* the next one, so a change and its effects are one step.                 *)
(***************************************************************************)
EXTENDS Integers, Sequences, SequencesExt

CONSTANTS
    MaxApps,         \* how many applications there can be
    Ranges,          \* the date ranges the user picks from
    ShortRanges,     \* ranges of at most two days
    BackwardRanges,  \* custom ranges that end before they start
    FirstRange,      \* the range of the first render
    Busy,            \* <<app, range>>: which have events of before the page was opened
    MaxPolled,       \* bound: the timer waits while this many loads are in flight
    Nothing          \* no figures, no key

Apps  == 1..MaxApps
NoApp == 0

ASSUME RangesAssumption ==
    /\ MaxApps \in Nat /\ MaxPolled \in Nat \ {0}
    /\ ShortRanges \subseteq Ranges
    /\ BackwardRanges \subseteq ShortRanges
    /\ FirstRange \in Ranges \ ShortRanges
    /\ Busy \subseteq Apps \X Ranges

VARIABLES
    selectedApp,     \* the id of the selected application, or NoApp
    dateRange, granularity, comparePeriod,
    until,           \* applications whose newest event precedes the end of the window
    timers,          \* questions that running intervals ask
    loads,           \* loads in flight, in the order in which they started
    loading, error,
    metrics,         \* the question currentMetrics and previousMetrics answer, or Nothing
    recentEvents,    \* the application recentEvents lists, or Nothing when it lists none
    astray,          \* history: the newest load was answered before an older one, or it
                     \* asked for an earlier selection, and none was started since
    stored,          \* localStorage: the key of each application, or Nothing
    keyOf,           \* the server: the number of the valid key of each application
    arrived          \* applications with an event that came in after the page was opened

choices   == <<dateRange, granularity, comparePeriod, until>>
figures   == <<loads, loading, error, metrics, recentEvents, astray>>
analytics == <<selectedApp, choices, timers, figures, stored, keyOf, arrived>>

Question(app, range, end, unit, compare) ==
    [app |-> app, range |-> range, until |-> end, granularity |-> unit, compare |-> compare]
Current == Question(selectedApp, dateRange, until, granularity, comparePeriod)

Fits(range) == IF range \in ShortRanges THEN "hour" ELSE "day"
Opens(app)  == stored[app] = keyOf[app]

(* The question has rows for an answer: there are events of before the page *)
(* was opened, or one of the later ones precedes the end of the window.     *)
HasRows(q) == <<q.app, q.range>> \in Busy \/ q.app \in q.until

-----------------------------------------------------------------------------
(* loadAnalytics without an application: the lists are emptied. *)
ShowNothing(qs) ==
    /\ qs[1].app = NoApp
    /\ loading' = FALSE /\ metrics' = Nothing /\ recentEvents' = Nothing
    /\ UNCHANGED <<loads, error, astray>>

(* loadAnalytics with one: its requests carry the key of the application     *)
(* that is in localStorage after the step.                                   *)
Ask(qs) ==
    /\ qs[1].app # NoApp
    /\ loads' = loads \o [i \in DOMAIN qs |->
                            [asks |-> qs[i], keyed |-> stored'[qs[i].app] = keyOf[qs[i].app]]]
    /\ loading' = TRUE /\ error' = FALSE /\ astray' = (Last(qs) # Current')
    /\ UNCHANGED <<metrics, recentEvents>>

LoadAnalytics(qs) == ShowNothing(qs) \/ Ask(qs)

RestartForgettingTheInterval(qs) == timers' = timers \cup {Last(qs)} /\ LoadAnalytics(qs)

(* A new loadAnalytics runs at once and replaces the interval. *)
Restart(qs) == timers' = {Last(qs)} /\ LoadAnalytics(qs)

-----------------------------------------------------------------------------
(* setSelectedApp: the windows stay as they are. *)
Select(app) ==
    /\ selectedApp' = app
    /\ UNCHANGED choices
    /\ IF app = selectedApp THEN UNCHANGED <<timers, figures>>
                            ELSE Restart(<<[Current EXCEPT !.app = app]>>)

(* setDateRange: the new window is loaded with the old granularity, and     *)
(* again when the granularity has followed.                                 *)
PickRange(range) ==
    LET early == Question(selectedApp, range, arrived, granularity, comparePeriod)
        late  == Question(selectedApp, range, arrived, Fits(range), comparePeriod)
    IN /\ range # dateRange
       /\ UNCHANGED <<selectedApp, comparePeriod, stored, keyOf, arrived>>
       /\ dateRange' = range /\ until' = arrived /\ granularity' = Fits(range)
       /\ Restart(IF early = late THEN <<early>> ELSE <<early, late>>)

ToggleCompare ==
    /\ UNCHANGED <<selectedApp, dateRange, granularity, until, stored, keyOf, arrived>>
    /\ comparePeriod' = ~comparePeriod
    /\ Restart(<<[Current EXCEPT !.compare = ~comparePeriod]>>)

PollUnlessFailed ==
    /\ Len(loads) < MaxPolled
    /\ UNCHANGED <<selectedApp, choices, timers, stored, keyOf, arrived>>
    /\ IF error THEN UNCHANGED figures ELSE \E q \in timers : LoadAnalytics(<<q>>)

(* The interval fires. *)
Poll ==
    /\ Len(loads) < MaxPolled
    /\ UNCHANGED <<selectedApp, choices, timers, stored, keyOf, arrived>>
    /\ \E q \in timers : LoadAnalytics(<<q>>)

-----------------------------------------------------------------------------
(* What the three requests of a load come back with.  The fetchers turn     *)
(* every failure into a value: without metrics the load throws, and without *)
(* recent events it lists none.  The answer is shown whatever is selected   *)
(* by now, with its rows or without any.                                    *)
Show(load) ==
    /\ load.keyed /\ load.asks.range \notin BackwardRanges
    /\ metrics' = load.asks
    /\ recentEvents' \in {load.asks.app, Nothing}
    /\ UNCHANGED error

ThrowQuietly(load) == UNCHANGED <<error, metrics, recentEvents>>

Throw(load) ==
    /\ error' = TRUE
    /\ UNCHANGED <<metrics, recentEvents>>

Settle(i) ==
    /\ loads' = RemoveAt(loads, i) /\ loading' = FALSE
    /\ astray' = (astray \/ (i = Len(loads) /\ i > 1))
    /\ UNCHANGED <<selectedApp, choices, timers, stored, keyOf, arrived>>

Succeed(i) == Show(loads[i]) /\ Settle(i)
Land(i)    == (Show(loads[i]) \/ Throw(loads[i])) /\ Settle(i)

-----------------------------------------------------------------------------
(* The screen OverviewView chooses: without rows it reports that no events  *)
(* of the selected application have been ingested.                          *)
Overview ==
    IF selectedApp # NoApp /\ stored[selectedApp] = Nothing THEN "unlock"
    ELSE IF loading THEN "loading"
    ELSE IF error   THEN "error"
    ELSE IF metrics = Nothing \/ ~HasRows(metrics) THEN "empty"
    ELSE "figures"

(* An event of an application is stored: it is later than every window that *)
(* is open.                                                                 *)
EventArrives(app) ==
    /\ arrived' = arrived \cup {app}
    /\ UNCHANGED <<selectedApp, choices, timers, figures, stored, keyOf>>
=============================================================================
