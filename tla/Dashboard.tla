------------------------------ MODULE Dashboard ------------------------------
(***************************************************************************)
(* The dashboard with its user, its timer, its network and the server      *)
(* behind it.                                                              *)
(***************************************************************************)
EXTENDS Workspace, FiniteSets

CONSTANTS
    Plans,      \* what the user may be up to: sets of gestures, and how many of them
    Before      \* states of the server: applications, and those whose key is stored here

Asked == [app : Apps \cup {NoApp}, range : Ranges, until : SUBSET Apps,
          granularity : {"hour", "day"}, compare : BOOLEAN]

ASSUME BeforeAssumption ==
    /\ \A b \in Before : /\ b.registered \in 0..MaxApps /\ b.stored \subseteq 1..b.registered
                          /\ Busy \subseteq (1..b.registered) \X Ranges
    /\ Nothing \notin Asked

VARIABLE user   \* the plan of this behaviour, with the gestures that are left

vars == <<analytics, workspace, user>>

Init ==
    /\ user \in Plans
    /\ selectedApp = NoApp
    /\ dateRange = FirstRange /\ granularity = "day" /\ comparePeriod = TRUE /\ until = {}
    /\ timers = {Current}
    /\ loads = <<>> /\ loading = FALSE /\ error = FALSE
    /\ metrics = Nothing /\ recentEvents = Nothing /\ astray = FALSE
    /\ arrived = {}
    /\ keyOf = [a \in Apps |-> 0]
    /\ \E b \in Before :
          /\ registered = b.registered
          /\ stored = [a \in Apps |-> IF a \in b.stored THEN 0 ELSE Nothing]
          /\ trusted = b.stored
    /\ applications = 0
    /\ bases = <<[blind |-> TRUE, read |-> FALSE, list |-> 0]>>
    /\ create = [open |-> FALSE, loading |-> FALSE, result |-> NoApp] /\ creations = <<>>
    /\ rotate = [open |-> FALSE, loading |-> FALSE, result |-> NoApp, app |-> NoApp] /\ rotations = <<>>
    /\ simulator = [open |-> FALSE, loading |-> FALSE] /\ sends = <<>>

-----------------------------------------------------------------------------
May(gesture) ==
    /\ gesture \in user.may /\ user.left > 0
    /\ user' = [user EXCEPT !.left = @ - 1]

Gesture ==
    \/ May("choose") /\ ChooseApp
    \/ May("range") /\ NoDialog /\ (\E r \in Ranges : PickRange(r)) /\ UNCHANGED workspace
    \/ May("compare") /\ NoDialog /\ ToggleCompare /\ UNCHANGED workspace
    \/ May("retry") /\ Retry
    \/ May("unlock") /\ SaveKey
    \/ May("create") /\ (OpenCreate \/ SubmitCreate \/ CancelCreate \/ FinishCreate)
    \/ May("rotate") /\ (OpenRotate \/ SubmitRotate \/ CloseRotate)
    \/ May("simulate") /\ (OpenSimulator \/ Send \/ CloseSimulator)
    \/ May("ingest") /\ (\E a \in Apps : EventArrives(a)) /\ UNCHANGED workspace

Timer   == Poll /\ UNCHANGED <<workspace, user>>
Answer(i) == Land(i) /\ UNCHANGED <<workspace, user>>
Figures(i) == Succeed(i) /\ UNCHANGED <<workspace, user>>
List(i)    == (ServeList(i) \/ LandList(i)) /\ UNCHANGED user
Create(i)  == (LandCreate(i) \/ FailCreate(i)) /\ UNCHANGED user
Rotate(i)  == (LandRotate(i) \/ FailRotate(i)) /\ UNCHANGED user
Sent(i)    == (LandSend(i) \/ FailSend(i)) /\ UNCHANGED user

Next ==
    \/ Gesture
    \/ Timer
    \/ \E i \in DOMAIN loads : Answer(i)
    \/ \E i \in DOMAIN bases : List(i)
    \/ \E i \in DOMAIN creations : Create(i) \/ (ServeCreate(i) /\ UNCHANGED user)
    \/ \E i \in DOMAIN rotations : Rotate(i) \/ (ServeRotate(i) /\ UNCHANGED user)
    \/ \E i \in DOMAIN sends : Sent(i)

Spec == Init /\ [][Next]_vars

(* The interval keeps firing, every request ends, and the network does not *)
(* fail for ever.                                                          *)
Fairness ==
    /\ WF_vars(Timer)
    /\ WF_vars(loads # <<>> /\ Answer(1)) /\ SF_vars(loads # <<>> /\ Figures(1))
    /\ WF_vars(bases # <<>> /\ List(1))
    /\ WF_vars(creations # <<>> /\ Create(1))
    /\ WF_vars(rotations # <<>> /\ Rotate(1))
    /\ WF_vars(sends # <<>> /\ Sent(1))

FairSpec == Spec /\ Fairness

-----------------------------------------------------------------------------
(* The variables are well typed, and exactly one interval runs: the effect *)
(* of useAnalytics clears the old one whenever it starts another, so it    *)
(* always asks what is selected now.                                       *)
TypeOK ==
    /\ Current \in Asked
    /\ timers = {Current}
    /\ \A i \in DOMAIN loads : loads[i].asks \in Asked /\ loads[i].keyed \in BOOLEAN
    /\ loading \in BOOLEAN /\ error \in BOOLEAN
    /\ metrics \in Asked \cup {Nothing} /\ recentEvents \in Apps \cup {Nothing}
    /\ astray \in BOOLEAN
    /\ \A a \in Apps : keyOf[a] \in 0..MaxKeys /\ stored[a] \in (WrongKey..MaxKeys) \cup {Nothing}
    /\ registered \in 0..MaxApps /\ applications \in 0..registered
    /\ create.result \in 0..registered /\ rotate.result \in 0..registered
    /\ trusted \subseteq 1..registered

(* What OverviewView shows of a selected application is an answer, and the  *)
(* empty screen an answer without rows: it never stands for figures that   *)
(* are missing or failed to load.  With no load in flight it is the answer  *)
(* to what is selected, so that "No telemetry events have been ingested"   *)
(* is true of that application and window, unless the newest load was      *)
(* overtaken by an older one or asked for an earlier selection: nothing    *)
(* compares an answer with the selection (useAnalytics).                   *)
ScreensAreAnswers ==
    selectedApp # NoApp /\ Overview \in {"figures", "empty"} =>
        /\ metrics # Nothing
        /\ loads = <<>> /\ ~astray =>
              metrics = Current /\ (Overview = "empty" <=> ~HasRows(Current))

(* A valid key that this browser was handed and not lost is in localStorage *)
(* under the application it belongs to, or its rotation has not been       *)
(* answered yet: closing a dialog, choosing another application or opening *)
(* the dialog for one while a request is in flight never stores a key under *)
(* the wrong application (rotateApiKey, createApplication).                *)
KeysAreKept ==
    \A a \in trusted :
        \/ Opens(a)
        \/ \E i \in DOMAIN rotations : rotations[i].app = a /\ rotations[i].issued = keyOf[a]

(* No dialog has two requests in flight, though it can be closed and opened *)
(* again while the first one runs: two applications or two rotations never *)
(* come out of one dialog at a time (the disabled buttons of the three     *)
(* modals).                                                                *)
OneRequestPerDialog ==
    /\ Len(creations) <= 1 /\ Len(rotations) <= 1 /\ Len(sends) <= 1

(* Once an application is selected one stays selected, although every      *)
(* reload of the list, an earlier one that ends late and one that failed   *)
(* included, may select (loadBaseData in App).                             *)
NeverDeselected == [][selectedApp # NoApp => selectedApp' # NoApp]_vars

(* When the user stops, the figures and the recent events become and stay  *)
(* those of the current selection, although nothing cancels the loads of   *)
(* earlier selections and their answers arrive in any order: the interval  *)
(* repairs what they overwrite, provided the stored key is valid and the   *)
(* range is not backwards.                                                 *)
SettlesOnSelection ==
    <>[](selectedApp # NoApp /\ Opens(selectedApp) /\ dateRange \notin BackwardRanges
           => metrics = Current /\ recentEvents \in {selectedApp, Nothing})

(* No spinner stays for ever: the analytics and all three dialogs stop     *)
(* loading again and again, whatever fails (the finally clauses of their   *)
(* handlers).                                                              *)
NothingSpinsForever ==
    /\ []<>~loading /\ []<>~create.loading /\ []<>~rotate.loading /\ []<>~simulator.loading

(* The key RotateKeyModal presents belongs to the application it names in  *)
(* "Key successfully rotated for {app.name}!".                             *)
ShownKeyIsOfTheNamedApp ==
    rotate.open /\ rotate.result # NoApp => rotate.result = rotate.app

(* An event that arrives while its application is selected appears in the  *)
(* figures, unless the user turns to another application first: "Once your *)
(* application starts sending events, your analytics will appear here." and *)
(* the 30 s polling are for that (EmptyState, useAnalytics).               *)
EventsAppear ==
    \A a \in Apps : a \in arrived /\ selectedApp = a
        ~> selectedApp # a \/ (metrics # Nothing /\ metrics.app = a /\ a \in metrics.until)
=============================================================================
