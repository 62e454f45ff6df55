------------------------------ MODULE Workspace ------------------------------
(***************************************************************************)
(* The rest of App: the list of applications and its overlapping reloads,  *)
(* and the dialogs that create an application, rotate a key and send a     *)
(* test event.  A dialog stays mounted while it is closed, so its requests *)
(* end in it whether it is open or not, and call back into the render that *)
(* sent them.  The list is as long as the server's table was when it was   *)
(* read; its first entry is the newest application.                        *)
(***************************************************************************)
EXTENDS Analytics

CONSTANT MaxKeys     \* bound: no key of an application has a higher number

VARIABLES
    registered,      \* the server: how many applications there are
    applications,    \* the length of the list; 0 also after a failed reload
    bases,           \* runs of loadBaseData in flight
    create,          \* CreateAppModal
    creations,       \* its requests in flight
    rotate,          \* RotateKeyModal
    rotations,       \* its requests in flight
    simulator,       \* EventSimulatorModal
    sends,           \* its requests in flight
    trusted          \* applications whose valid key this browser was handed last

catalog   == <<registered, applications, bases>>
creating  == <<create, creations>>
rotating  == <<rotate, rotations>>
sending   == <<simulator, sends>>
workspace == <<catalog, creating, rotating, sending, trusted>>

NoDialog == ~create.open /\ ~rotate.open /\ ~simulator.open
Blind    == selectedApp = NoApp
FirstKey == 0      \* what an application is created with
WrongKey == -1     \* opens nothing

ASSUME KeysAssumption == MaxKeys \in Nat /\ Nothing \notin Int

-----------------------------------------------------------------------------
(* loadBaseData: it remembers whether its render had a selection. *)
LoadBaseData(blind) ==
    /\ bases' = Append(bases, [blind |-> blind, read |-> FALSE, list |-> 0])
    /\ UNCHANGED <<registered, applications>>

ServeList(i) ==
    /\ ~bases[i].read
    /\ \E list \in {registered, 0} :
          bases' = [bases EXCEPT ![i].read = TRUE, ![i].list = list]
    /\ UNCHANGED <<analytics, registered, applications, creating, rotating, sending, trusted>>

LandListWithoutLooking(i) ==
    /\ bases[i].read
    /\ applications' = bases[i].list /\ bases' = RemoveAt(bases, i)
    /\ UNCHANGED <<registered, stored, keyOf, arrived, creating, rotating, sending, trusted>>
    /\ IF bases[i].blind THEN Select(bases[i].list)
                         ELSE UNCHANGED <<selectedApp, choices, timers, figures>>

LandList(i) ==
    /\ bases[i].read
    /\ applications' = bases[i].list /\ bases' = RemoveAt(bases, i)
    /\ UNCHANGED <<registered, stored, keyOf, arrived, creating, rotating, sending, trusted>>
    /\ IF bases[i].blind /\ bases[i].list > 0
       THEN Select(bases[i].list)
       ELSE UNCHANGED <<selectedApp, choices, timers, figures>>

-----------------------------------------------------------------------------
(* CreateAppModal.  Cancel keeps its state; the cross and Done clear it,    *)
(* but not that it is loading.                                              *)
OpenCreate ==
    /\ NoDialog
    /\ create' = [create EXCEPT !.open = TRUE]
    /\ UNCHANGED <<analytics, catalog, creations, rotating, sending, trusted>>

SubmitCreate ==
    /\ create.open /\ ~create.loading /\ create.result = NoApp
    /\ create' = [create EXCEPT !.loading = TRUE]
    /\ creations' = Append(creations, [blind |-> Blind, made |-> NoApp])
    /\ UNCHANGED <<analytics, catalog, rotating, sending, trusted>>

CancelCreate ==
    /\ create.open /\ create.result = NoApp
    /\ create' = [create EXCEPT !.open = FALSE]
    /\ UNCHANGED <<analytics, catalog, creations, rotating, sending, trusted>>

FinishCreateResettingAll ==
    /\ create.open
    /\ create' = [open |-> FALSE, loading |-> FALSE, result |-> NoApp]
    /\ UNCHANGED <<analytics, catalog, creations, rotating, sending, trusted>>

FinishCreate ==
    /\ create.open
    /\ create' = [create EXCEPT !.open = FALSE, !.result = NoApp]
    /\ UNCHANGED <<analytics, catalog, creations, rotating, sending, trusted>>

ServeCreate(i) ==
    /\ creations[i].made = NoApp /\ registered < MaxApps
    /\ registered' = registered + 1
    /\ creations' = [creations EXCEPT ![i].made = registered']
    /\ UNCHANGED <<analytics, applications, bases, create, rotating, sending, trusted>>

(* createApplication stores the key, and onCreated reloads the list and     *)
(* selects the application.                                                 *)
LandCreate(i) ==
    LET app == creations[i].made
    IN /\ app # NoApp
       /\ stored' = [stored EXCEPT ![app] = FirstKey]
       /\ create' = [create EXCEPT !.loading = FALSE, !.result = app]
       /\ creations' = RemoveAt(creations, i)
       /\ LoadBaseData(creations[i].blind)
       /\ Select(app)
       /\ trusted' = trusted \cup {app}
       /\ UNCHANGED <<keyOf, arrived, rotating, sending>>

FailCreateWithoutFinally(i) ==
    /\ creations' = RemoveAt(creations, i)
    /\ UNCHANGED <<analytics, catalog, create, rotating, sending, trusted>>

(* Refused, or the answer is lost. *)
FailCreate(i) ==
    /\ create' = [create EXCEPT !.loading = FALSE]
    /\ creations' = RemoveAt(creations, i)
    /\ UNCHANGED <<analytics, catalog, rotating, sending, trusted>>

-----------------------------------------------------------------------------
(* RotateKeyModal.  The name is typed and the form submitted in one step;   *)
(* closing clears everything but loading.                                   *)
OpenRotate ==
    /\ NoDialog /\ selectedApp # NoApp
    /\ rotate' = [rotate EXCEPT !.open = TRUE, !.app = selectedApp]
    /\ UNCHANGED <<analytics, catalog, creating, rotations, sending, trusted>>

SubmitRotate ==
    /\ rotate.open /\ ~rotate.loading /\ rotate.result = NoApp
    /\ rotate' = [rotate EXCEPT !.loading = TRUE]
    /\ rotations' = Append(rotations, [app |-> rotate.app, blind |-> Blind,
                                       key |-> stored[rotate.app], issued |-> Nothing])
    /\ UNCHANGED <<analytics, catalog, creating, sending, trusted>>

CloseRotate ==
    /\ rotate.open
    /\ rotate' = [rotate EXCEPT !.open = FALSE, !.result = NoApp]
    /\ UNCHANGED <<analytics, catalog, creating, rotations, sending, trusted>>

(* The server rotates.  If it resolved the caller from its cache, it writes *)
(* nothing and issues a key of no row (see ApiKeys).                        *)
ServeRotate(i) ==
    LET app == rotations[i].app
    IN /\ rotations[i].issued = Nothing /\ rotations[i].key = keyOf[app]
       /\ \/ /\ keyOf[app] < MaxKeys
             /\ keyOf' = [keyOf EXCEPT ![app] = @ + 1]
             /\ rotations' = [rotations EXCEPT ![i].issued = keyOf'[app]]
             /\ UNCHANGED trusted
          \/ /\ rotations' = [rotations EXCEPT ![i].issued = WrongKey]
             /\ trusted' = trusted \ {app}
             /\ UNCHANGED keyOf
       /\ UNCHANGED <<selectedApp, choices, timers, figures, stored, arrived,
                      catalog, creating, rotate, sending>>

LandRotateInTheDialog(i) ==
    LET r == rotations[i]
    IN /\ r.issued # Nothing
       /\ stored' = IF rotate.open THEN [stored EXCEPT ![rotate.app] = r.issued] ELSE stored
       /\ rotate' = [rotate EXCEPT !.loading = FALSE, !.result = r.app]
       /\ rotations' = RemoveAt(rotations, i)
       /\ LoadBaseData(r.blind)
       /\ UNCHANGED <<selectedApp, choices, timers, figures, keyOf, arrived,
                      creating, sending, trusted>>

(* rotateApiKey stores the key under the id it rotated, and onRotated       *)
(* reloads the list.                                                        *)
LandRotate(i) ==
    LET r == rotations[i]
    IN /\ r.issued # Nothing
       /\ stored' = [stored EXCEPT ![r.app] = r.issued]
       /\ rotate' = [rotate EXCEPT !.loading = FALSE, !.result = r.app]
       /\ rotations' = RemoveAt(rotations, i)
       /\ LoadBaseData(r.blind)
       /\ UNCHANGED <<selectedApp, choices, timers, figures, keyOf, arrived,
                      creating, sending, trusted>>

FailRotate(i) ==
    LET r == rotations[i]
    IN /\ rotate' = [rotate EXCEPT !.loading = FALSE]
       /\ rotations' = RemoveAt(rotations, i)
       /\ trusted' = IF r.issued = Nothing THEN trusted ELSE trusted \ {r.app}
       /\ UNCHANGED <<analytics, catalog, creating, sending>>

-----------------------------------------------------------------------------
(* EventSimulatorModal, with any key that accepts the event. *)
OpenSimulator ==
    /\ NoDialog /\ selectedApp # NoApp
    /\ simulator' = [simulator EXCEPT !.open = TRUE]
    /\ UNCHANGED <<analytics, catalog, creating, rotating, sends, trusted>>

Send ==
    /\ simulator.open /\ ~simulator.loading
    /\ simulator' = [simulator EXCEPT !.loading = TRUE]
    /\ sends' = Append(sends, [blind |-> Blind, asks |-> Current])
    /\ UNCHANGED <<analytics, catalog, creating, rotating, trusted>>

CloseSimulator ==
    /\ simulator.open
    /\ simulator' = [simulator EXCEPT !.open = FALSE]
    /\ UNCHANGED <<analytics, catalog, creating, rotating, sends, trusted>>

(* onEventSent reloads the list and runs the loadAnalytics of its render. *)
LandSend(i) ==
    /\ simulator' = [simulator EXCEPT !.loading = FALSE]
    /\ sends' = RemoveAt(sends, i)
    /\ UNCHANGED <<selectedApp, choices, timers, stored, keyOf, arrived,
                   creating, rotating, trusted>>
    /\ LoadBaseData(sends[i].blind)
    /\ LoadAnalytics(<<sends[i].asks>>)

FailSend(i) ==
    /\ simulator' = [simulator EXCEPT !.loading = FALSE]
    /\ sends' = RemoveAt(sends, i)
    /\ UNCHANGED <<analytics, catalog, creating, rotating, trusted>>

-----------------------------------------------------------------------------
(* The application selector of Navbar, and Open in ApplicationsView. *)
ChooseApp ==
    /\ NoDialog
    /\ UNCHANGED <<stored, keyOf, arrived, workspace>>
    /\ \E app \in 1..applications : app # selectedApp /\ Select(app)

(* The form OverviewView shows without a stored key: any text that looks    *)
(* like a key is stored.  Nobody knows the key of an application whose      *)
(* creation is not answered yet.                                            *)
SaveKey ==
    /\ NoDialog /\ Overview = "unlock"
    /\ \E key \in {keyOf[selectedApp], WrongKey} :
          /\ \A i \in DOMAIN creations : creations[i].made = selectedApp => key = WrongKey
          /\ stored' = [stored EXCEPT ![selectedApp] = key]
          /\ trusted' = IF key = WrongKey THEN trusted ELSE trusted \cup {selectedApp}
    /\ UNCHANGED <<selectedApp, choices, timers, keyOf, arrived, catalog, creating, rotating, sending>>
    /\ LoadAnalytics(<<Current>>)

(* Try again in ErrorState. *)
Retry ==
    /\ NoDialog /\ Overview = "error"
    /\ UNCHANGED <<selectedApp, choices, timers, stored, keyOf, arrived, workspace>>
    /\ LoadAnalytics(<<Current>>)
=============================================================================
