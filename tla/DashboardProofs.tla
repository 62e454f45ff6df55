--------------------------- MODULE DashboardProofs ---------------------------
(***************************************************************************)
(* Theorems about Dashboard, its dialogs, what it shows and the keys it    *)
(* keeps, for any applications, ranges, plans and keys.                    *)
(***************************************************************************)
EXTENDS Dashboard, SequenceLemmas

AtMostOne(requests) == requests = <<>> \/ requests = <<requests[1]>>

(* A dialog is loading exactly while a request of it is in flight.         *)
Waits(dialog, requests) ==
    /\ "loading" \in DOMAIN dialog /\ AtMostOne(requests)
    /\ requests = <<>> => dialog.loading = FALSE
    /\ requests # <<>> => dialog.loading = TRUE

DialogsInv == Waits(create, creations) /\ Waits(rotate, rotations) /\ Waits(simulator, sends)

-----------------------------------------------------------------------------
(* Facts about the requests of a dialog. *)

(* The first request is the only one. *)
LEMMA Started ==
    ASSUME NEW s, s = <<>>, NEW x
    PROVE  AtMostOne(Append(s, x)) /\ Append(s, x) # <<>>
  BY DEF AtMostOne

(* When the only request ends there is none. *)
LEMMA Ended ==
    ASSUME NEW s, AtMostOne(s), NEW i \in DOMAIN s
    PROVE  s # <<>> /\ RemoveAt(s, i) = <<>>
<1>1. s = <<s[1]>> /\ i = 1 /\ Len(s) = 1
  BY DEF AtMostOne
<1>2. SubSeq(s, 1, i - 1) = <<>> /\ SubSeq(s, i + 1, Len(s)) = <<>>
  BY <1>1
<1>3. QED
  BY <1>1, <1>2 DEF RemoveAt

(* What the server does to a request leaves it the only one. *)
LEMMA Served ==
    ASSUME NEW s, AtMostOne(s), NEW i \in DOMAIN s, NEW t, NEW x,
           t = [s EXCEPT ![i] = x]
    PROVE  AtMostOne(t) /\ t # <<>>
<1>1. s = <<s[1]>> /\ i = 1
  BY DEF AtMostOne
<1>2. t = <<x>>
  BY <1>1
<1>3. QED
  BY <1>2 DEF AtMostOne

-----------------------------------------------------------------------------
CreateStep ==
    \/ OpenCreate \/ SubmitCreate \/ CancelCreate \/ FinishCreate
    \/ \E i \in DOMAIN creations : LandCreate(i) \/ FailCreate(i) \/ ServeCreate(i)

RotateStep ==
    \/ OpenRotate \/ SubmitRotate \/ CloseRotate
    \/ \E i \in DOMAIN rotations : LandRotate(i) \/ FailRotate(i) \/ ServeRotate(i)

SimulatorStep ==
    \/ OpenSimulator \/ Send \/ CloseSimulator
    \/ \E i \in DOMAIN sends : LandSend(i) \/ FailSend(i)

(* Every step belongs to one dialog or leaves all of them alone. *)
LEMMA WhoStepsWhere ==
    ASSUME [Next]_vars
    PROVE  \/ CreateStep \/ RotateStep \/ SimulatorStep
           \/ UNCHANGED <<creating, rotating, sending>>
<1> DEFINE Goal == \/ CreateStep \/ RotateStep \/ SimulatorStep
                   \/ UNCHANGED <<creating, rotating, sending>>
<1>1. CASE Gesture
  <2>1. CASE ChooseApp \/ UNCHANGED workspace \/ Retry
    BY <2>1 DEF ChooseApp, Retry, workspace
  <2>2. CASE SaveKey
    BY <2>2 DEF SaveKey
  <2>3. CASE OpenCreate \/ SubmitCreate \/ CancelCreate \/ FinishCreate
    BY <2>3 DEF CreateStep
  <2>4. CASE OpenRotate \/ SubmitRotate \/ CloseRotate
    BY <2>4 DEF RotateStep
  <2>5. CASE OpenSimulator \/ Send \/ CloseSimulator
    BY <2>5 DEF SimulatorStep
  <2>6. QED
    BY <1>1, <2>1, <2>2, <2>3, <2>4, <2>5, Zenon DEF Gesture
<1>2. CASE Timer \/ \E i \in DOMAIN loads : Answer(i)
  BY <1>2 DEF Timer, Answer, workspace
<1>3. ASSUME NEW i \in DOMAIN bases, List(i) PROVE Goal
  BY <1>3 DEF List, ServeList, LandList
<1>4. ASSUME NEW i \in DOMAIN creations, Create(i) \/ ServeCreate(i) PROVE Goal
  BY <1>4 DEF Create, CreateStep
<1>5. ASSUME NEW i \in DOMAIN rotations, Rotate(i) \/ ServeRotate(i) PROVE Goal
  BY <1>5 DEF Rotate, RotateStep
<1>6. ASSUME NEW i \in DOMAIN sends, Sent(i) PROVE Goal
  BY <1>6 DEF Sent, SimulatorStep
<1>7. CASE UNCHANGED vars
  BY <1>7 DEF vars, workspace
<1>8. QED
  BY <1>1, <1>2, <1>3, <1>4, <1>5, <1>6, <1>7 DEF Next

(* CreateAppModal keeps count of its request. *)
LEMMA CreateWaits ==
    ASSUME DialogsInv, CreateStep
    PROVE  DialogsInv'
<1> USE DEF DialogsInv, Waits
<1>1. UNCHANGED <<rotating, sending>>
  BY DEF CreateStep, OpenCreate, SubmitCreate, CancelCreate, FinishCreate,
         LandCreate, FailCreate, ServeCreate
<1>2. CASE OpenCreate \/ CancelCreate \/ FinishCreate
  BY <1>1, <1>2 DEF OpenCreate, CancelCreate, FinishCreate, rotating, sending
<1>3. CASE SubmitCreate
  BY <1>1, <1>3, Started DEF SubmitCreate, rotating, sending
<1>4. ASSUME NEW i \in DOMAIN creations, LandCreate(i) \/ FailCreate(i)
      PROVE  DialogsInv'
  <2>1. creations' = <<>>
    BY <1>4, Ended DEF LandCreate, FailCreate
  <2>2. "loading" \in DOMAIN create' /\ create'.loading = FALSE
    BY <1>4 DEF LandCreate, FailCreate
  <2>3. QED
    BY <1>1, <2>1, <2>2 DEF AtMostOne, rotating, sending
<1>5. ASSUME NEW i \in DOMAIN creations, ServeCreate(i)
      PROVE  DialogsInv'
  <2>1. AtMostOne(creations') /\ creations' # <<>>
    <3>1. PICK x : creations' = [creations EXCEPT ![i] = x]
      BY <1>5 DEF ServeCreate
    <3>2. QED
      BY <3>1, Served
  <2>2. create' = create /\ creations # <<>>
    BY <1>5 DEF ServeCreate, rotating, creating
  <2>3. QED
    BY <1>1, <2>1, <2>2 DEF rotating, sending
<1>6. QED
  BY <1>2, <1>3, <1>4, <1>5 DEF CreateStep

(* RotateKeyModal keeps count of its request. *)
LEMMA RotateWaits ==
    ASSUME DialogsInv, RotateStep
    PROVE  DialogsInv'
<1> USE DEF DialogsInv, Waits
<1>1. UNCHANGED <<creating, sending>>
  BY DEF RotateStep, OpenRotate, SubmitRotate, CloseRotate, LandRotate, FailRotate, ServeRotate
<1>2. CASE OpenRotate \/ CloseRotate
  BY <1>1, <1>2 DEF OpenRotate, CloseRotate, creating, sending
<1>3. CASE SubmitRotate
  BY <1>1, <1>3, Started DEF SubmitRotate, creating, sending
<1>4. ASSUME NEW i \in DOMAIN rotations, LandRotate(i) \/ FailRotate(i)
      PROVE  DialogsInv'
  <2>1. rotations' = <<>>
    BY <1>4, Ended DEF LandRotate, FailRotate
  <2>2. "loading" \in DOMAIN rotate' /\ rotate'.loading = FALSE
    BY <1>4 DEF LandRotate, FailRotate
  <2>3. QED
    BY <1>1, <2>1, <2>2 DEF AtMostOne, creating, sending
<1>5. ASSUME NEW i \in DOMAIN rotations, ServeRotate(i)
      PROVE  DialogsInv'
  <2>1. AtMostOne(rotations') /\ rotations' # <<>>
    <3>1. PICK x : rotations' = [rotations EXCEPT ![i] = x]
      BY <1>5 DEF ServeRotate
    <3>2. QED
      BY <3>1, Served
  <2>2. rotate' = rotate /\ rotations # <<>>
    BY <1>5 DEF ServeRotate, rotating, creating
  <2>3. QED
    BY <1>1, <2>1, <2>2 DEF creating, sending
<1>6. QED
  BY <1>2, <1>3, <1>4, <1>5 DEF RotateStep

(* EventSimulatorModal keeps count of its request. *)
LEMMA SimulatorWaits ==
    ASSUME DialogsInv, SimulatorStep
    PROVE  DialogsInv'
<1> USE DEF DialogsInv, Waits
<1>1. UNCHANGED <<creating, rotating>>
  BY DEF SimulatorStep, OpenSimulator, Send, CloseSimulator, LandSend, FailSend
<1>2. CASE OpenSimulator \/ CloseSimulator
  BY <1>1, <1>2 DEF OpenSimulator, CloseSimulator, creating, rotating
<1>3. CASE Send
  BY <1>1, <1>3, Started DEF Send, creating, rotating
<1>4. ASSUME NEW i \in DOMAIN sends, LandSend(i) \/ FailSend(i)
      PROVE  DialogsInv'
  <2>1. sends' = <<>>
    BY <1>4, Ended DEF LandSend, FailSend
  <2>2. "loading" \in DOMAIN simulator' /\ simulator'.loading = FALSE
    BY <1>4 DEF LandSend, FailSend
  <2>3. QED
    BY <1>1, <2>1, <2>2 DEF AtMostOne, creating, rotating
<1>5. QED
  BY <1>2, <1>3, <1>4 DEF SimulatorStep

(* Every step keeps count of the requests.                                 *)
LEMMA NextDialogs ==
    ASSUME DialogsInv, [Next]_vars
    PROVE  DialogsInv'
<1>1. CASE UNCHANGED <<creating, rotating, sending>>
  BY <1>1 DEF DialogsInv, creating, rotating, sending
<1>2. QED
  BY <1>1, WhoStepsWhere, CreateWaits, RotateWaits, SimulatorWaits

-----------------------------------------------------------------------------
(* The theorems. *)

(* No dialog has two requests in flight, however it is closed and opened    *)
(* while the first one runs (the disabled buttons of the three modals).     *)
THEOREM DialogsAskOnce == Spec => []OneRequestPerDialog
<1>1. Init => DialogsInv
  BY DEF Init, DialogsInv, Waits, AtMostOne
<1>2. DialogsInv /\ [Next]_vars => DialogsInv'
  BY NextDialogs
<1>3. DialogsInv => OneRequestPerDialog
  <2>1. ASSUME NEW s, AtMostOne(s) PROVE Len(s) <= 1
    BY <2>1 DEF AtMostOne
  <2>2. QED
    BY <2>1 DEF DialogsInv, Waits, OneRequestPerDialog
<1>4. QED
  BY <1>1, <1>2, <1>3, PTL DEF Spec

(* No step of any component takes a selection away: what selects chooses an *)
(* application of a list that is not empty (App, CreateAppModal, Navbar).   *)
THEOREM SelectionsStay == Spec => NeverDeselected
<1>1. [Next]_vars => [selectedApp # NoApp => selectedApp' # NoApp]_vars
  <2> SUFFICES ASSUME Next, selectedApp # NoApp PROVE selectedApp' # NoApp
    OBVIOUS
  <2>1. CASE Gesture
    <3>1. CASE ChooseApp
      BY <3>1 DEF ChooseApp, Select, NoApp
    <3>2. ASSUME NEW r \in Ranges, PickRange(r) PROVE selectedApp' # NoApp
      BY <3>2 DEF PickRange
    <3>3. CASE ToggleCompare \/ Retry \/ SaveKey
      BY <3>3 DEF ToggleCompare, Retry, SaveKey
    <3>4. CASE OpenCreate \/ SubmitCreate \/ CancelCreate \/ FinishCreate
      BY <3>4 DEF OpenCreate, SubmitCreate, CancelCreate, FinishCreate, analytics
    <3>5. CASE OpenRotate \/ SubmitRotate \/ CloseRotate
      BY <3>5 DEF OpenRotate, SubmitRotate, CloseRotate, analytics
    <3>6. CASE OpenSimulator \/ Send \/ CloseSimulator
      BY <3>6 DEF OpenSimulator, Send, CloseSimulator, analytics
    <3>7. ASSUME NEW a \in Apps, EventArrives(a) PROVE selectedApp' # NoApp
      BY <3>7 DEF EventArrives
    <3>8. QED
      BY <2>1, <3>1, <3>2, <3>3, <3>4, <3>5, <3>6, <3>7, Zenon DEF Gesture
  <2>2. CASE Timer
    BY <2>2 DEF Timer, Poll
  <2>3. ASSUME NEW i \in DOMAIN loads, Answer(i) PROVE selectedApp' # NoApp
    BY <2>3 DEF Answer, Land, Settle
  <2>4. ASSUME NEW i \in DOMAIN bases, List(i) PROVE selectedApp' # NoApp
    <3>1. CASE ServeList(i)
      BY <3>1 DEF ServeList, analytics
    <3>2. CASE LandList(i)
      BY <3>2 DEF LandList, Select, NoApp
    <3>3. QED
      BY <2>4, <3>1, <3>2 DEF List
  <2>5. ASSUME NEW i \in DOMAIN creations, Create(i) \/ ServeCreate(i) PROVE selectedApp' # NoApp
    <3>1. CASE LandCreate(i)
      BY <3>1 DEF LandCreate, Select
    <3>2. CASE FailCreate(i) \/ ServeCreate(i)
      BY <3>2 DEF FailCreate, ServeCreate, analytics
    <3>3. QED
      BY <2>5, <3>1, <3>2 DEF Create
  <2>6. ASSUME NEW i \in DOMAIN rotations, Rotate(i) \/ ServeRotate(i) PROVE selectedApp' # NoApp
    BY <2>6 DEF Rotate, LandRotate, FailRotate, ServeRotate, analytics
  <2>7. ASSUME NEW i \in DOMAIN sends, Sent(i) PROVE selectedApp' # NoApp
    BY <2>7 DEF Sent, LandSend, FailSend, analytics
  <2>8. QED
    BY <2>1, <2>2, <2>3, <2>4, <2>5, <2>6, <2>7 DEF Next
<1>2. QED
  BY <1>1, PTL DEF Spec, NeverDeselected

-----------------------------------------------------------------------------
ViewStep ==
    /\ UNCHANGED workspace
    /\ \/ \E r \in Ranges : PickRange(r)
       \/ ToggleCompare
       \/ Poll
       \/ \E i \in DOMAIN loads : Land(i)
       \/ \E a \in Apps : EventArrives(a)

ListStep == \E i \in DOMAIN bases : ServeList(i) \/ LandList(i)

(* Every step belongs to a dialog, to the list, to the selector, to the    *)
(* form for a key, or to the figures alone.                                *)
LEMMA EveryStep ==
    ASSUME [Next]_vars
    PROVE  \/ CreateStep \/ RotateStep \/ SimulatorStep \/ ListStep \/ ViewStep
           \/ ChooseApp \/ SaveKey \/ Retry
           \/ UNCHANGED <<analytics, workspace>>
<1> DEFINE Goal == \/ CreateStep \/ RotateStep \/ SimulatorStep \/ ListStep \/ ViewStep
                   \/ ChooseApp \/ SaveKey \/ Retry
                   \/ UNCHANGED <<analytics, workspace>>
<1>1. CASE Gesture
  <2>1. CASE UNCHANGED workspace /\ \/ \E r \in Ranges : PickRange(r)
                                    \/ ToggleCompare
                                    \/ \E a \in Apps : EventArrives(a)
    BY <2>1 DEF ViewStep
  <2>2. CASE OpenCreate \/ SubmitCreate \/ CancelCreate \/ FinishCreate
    BY <2>2 DEF CreateStep
  <2>3. CASE OpenRotate \/ SubmitRotate \/ CloseRotate
    BY <2>3 DEF RotateStep
  <2>4. CASE OpenSimulator \/ Send \/ CloseSimulator
    BY <2>4 DEF SimulatorStep
  <2>5. QED
    BY <1>1, <2>1, <2>2, <2>3, <2>4, Zenon DEF Gesture
<1>2. CASE Timer \/ \E i \in DOMAIN loads : Answer(i)
  BY <1>2 DEF Timer, Answer, ViewStep
<1>3. ASSUME NEW i \in DOMAIN bases, List(i) PROVE Goal
  BY <1>3 DEF List, ListStep
<1>4. ASSUME NEW i \in DOMAIN creations, Create(i) \/ ServeCreate(i) PROVE Goal
  BY <1>4 DEF Create, CreateStep
<1>5. ASSUME NEW i \in DOMAIN rotations, Rotate(i) \/ ServeRotate(i) PROVE Goal
  BY <1>5 DEF Rotate, RotateStep
<1>6. ASSUME NEW i \in DOMAIN sends, Sent(i) PROVE Goal
  BY <1>6 DEF Sent, SimulatorStep
<1>7. CASE UNCHANGED vars
  BY <1>7 DEF vars
<1>8. QED
  BY <1>1, <1>2, <1>3, <1>4, <1>5, <1>6, <1>7, Zenon DEF Next

-----------------------------------------------------------------------------
(* The list of applications, the dialogs and the keys. *)

KeyOrNothing == (WrongKey..MaxKeys) \cup {Nothing}

(* What requests in flight know of: applications the server has.           *)
Reload   == [blind : BOOLEAN, read : BOOLEAN, list : 0..registered]
Creation == [blind : BOOLEAN, made : 0..registered]
Rotation == [app : 1..registered, blind : BOOLEAN, key : KeyOrNothing, issued : KeyOrNothing]

ServerTypes ==
    /\ registered \in 0..MaxApps /\ applications \in 0..registered
    /\ selectedApp \in 0..registered /\ trusted \subseteq 1..registered
    /\ bases \in Seq(Reload)

CreateTypes ==
    /\ create \in [open : BOOLEAN, loading : BOOLEAN, result : 0..registered]
    /\ creations \in Seq(Creation)

RotateTypes ==
    /\ rotate \in [open : BOOLEAN, loading : BOOLEAN, result : 0..registered, app : 0..registered]
    /\ rotate.open => rotate.app # NoApp
    /\ rotations \in Seq(Rotation)

KeyTypes == keyOf \in [Apps -> 0..MaxKeys] /\ stored \in [Apps -> KeyOrNothing]

Sending == [blind : BOOLEAN, asks : {q \in Asked : q.app # NoApp}]

(* The simulator only ever asks about an application.                      *)
SimulatorTypes ==
    /\ sends \in Seq(Sending)
    /\ simulator \in [open : BOOLEAN, loading : BOOLEAN]
    /\ simulator.open => selectedApp # NoApp

CatalogInv == ServerTypes /\ CreateTypes /\ RotateTypes /\ KeyTypes

(* An application the server has stays there.                              *)
LEMMA TypesGrow ==
    ASSUME registered \in Nat, registered' \in Nat, registered <= registered'
    PROVE  /\ 0..registered \subseteq 0..registered' /\ 1..registered \subseteq 1..registered'
           /\ \A s \in Seq(Reload) : s \in Seq(Reload')
           /\ \A s \in Seq(Creation) : s \in Seq(Creation')
           /\ \A s \in Seq(Rotation) : s \in Seq(Rotation')
<1>1. 0..registered \subseteq 0..registered' /\ 1..registered \subseteq 1..registered'
  OBVIOUS
<1>2. Reload \subseteq Reload' /\ Creation \subseteq Creation' /\ Rotation \subseteq Rotation'
  BY <1>1 DEF Reload, Creation, Rotation
<1>3. QED
  BY <1>1, <1>2, SeqMonotonic

(* A step that stays clear of the server, of the list and of two dialogs.  *)
LEMMA CatalogUntouched ==
    ASSUME CatalogInv, UNCHANGED <<catalog, creating, rotating, stored, keyOf, trusted>>,
           selectedApp' \in 0..registered
    PROVE  CatalogInv'
<1>1. UNCHANGED <<registered, applications, bases, create, creations, rotate, rotations>>
  BY DEF catalog, creating, rotating
<1>2. Reload' = Reload /\ Creation' = Creation /\ Rotation' = Rotation
  BY <1>1 DEF Reload, Creation, Rotation
<1>3. QED
  BY <1>1, <1>2 DEF CatalogInv, ServerTypes, CreateTypes, RotateTypes, KeyTypes

(* What does not touch the server leaves the types of requests alone.      *)
LEMMA SameTypes ==
    ASSUME registered' = registered
    PROVE  Reload' = Reload /\ Creation' = Creation /\ Rotation' = Rotation
  BY DEF Reload, Creation, Rotation

(* The server counts its applications.                                     *)
LEMMA Counts ==
    ASSUME ServerTypes
    PROVE  registered \in Nat /\ MaxApps \in Nat /\ \A a \in 0..registered : a # 0 => a \in 1..registered /\ a \in Apps
  BY RangesAssumption DEF ServerTypes, Apps

(* A reload that starts.                                                   *)
LEMMA ReloadStarts ==
    ASSUME ServerTypes, NEW blind \in BOOLEAN, LoadBaseData(blind)
    PROVE  bases' \in Seq(Reload) /\ registered' = registered /\ applications' = applications
<1>1. [blind |-> blind, read |-> FALSE, list |-> 0] \in Reload
  BY DEF Reload, ServerTypes
<1>2. QED
  BY <1>1, AppendAdds DEF LoadBaseData, ServerTypes

(* A reload that is served.                                                *)
LEMMA ServedReloads ==
    ASSUME NEW base \in Reload, NEW list \in 0..registered,
           NEW served, served = [base EXCEPT !.read = TRUE, !.list = list]
    PROVE  served \in Reload
<1>1. base.blind \in BOOLEAN
  BY DEF Reload
<1>2. served = [blind |-> base.blind, read |-> TRUE, list |-> list]
  BY DEF Reload
<1>3. QED
  BY <1>1, <1>2 DEF Reload

(* A reload is served, and lands.                                          *)
LEMMA ListKeepsCatalog ==
    ASSUME CatalogInv, NEW i \in DOMAIN bases, ServeList(i) \/ LandList(i)
    PROVE  CatalogInv' /\ (selectedApp' # selectedApp => selectedApp' \in Apps)
<1> USE DEF CatalogInv, ServerTypes
<1>0. bases[i] \in Reload /\ DOMAIN bases = 1..Len(bases)
  OBVIOUS
<1>1. CASE ServeList(i)
  <2>1. UNCHANGED <<registered, applications, creating, rotating, stored, keyOf, trusted, selectedApp>>
    BY <1>1 DEF ServeList, analytics
  <2>2. PICK list \in {registered, 0} : bases' = [bases EXCEPT ![i].read = TRUE, ![i].list = list]
    BY <1>1 DEF ServeList
  <2>3. PICK base : /\ base = [bases[i] EXCEPT !.read = TRUE, !.list = list]
                    /\ bases' = [bases EXCEPT ![i] = base]
    BY <1>0, <2>2
  <2>4. bases' \in Seq(Reload)
    <3>1. list \in 0..registered
      BY Counts
    <3>2. base \in Reload
      BY <1>0, <2>3, <3>1, ServedReloads
    <3>3. QED
      BY <1>0, <2>3, <3>2, ExceptSeq
  <2>5. QED
    BY <2>1, <2>4, SameTypes DEF creating, rotating, CreateTypes, RotateTypes, KeyTypes
<1>2. CASE LandList(i)
  <2>1. UNCHANGED <<registered, creating, rotating, stored, keyOf, trusted>>
    BY <1>2 DEF LandList
  <2>2. bases' \in Seq(Reload) /\ applications' \in 0..registered
    BY <1>0, <1>2, RemoveAtKeeps DEF LandList, Reload
  <2>3. selectedApp' \in 0..registered /\ (selectedApp' # selectedApp => selectedApp' \in Apps)
    BY <1>0, <1>2, Counts DEF LandList, Select, Reload, Apps
  <2>4. QED
    BY <2>1, <2>2, <2>3, SameTypes DEF creating, rotating, CreateTypes, RotateTypes, KeyTypes
<1>3. QED
  BY <1>1, <1>2

(* CreateAppModal and the creation on the server.                          *)
LEMMA CreateKeepsCatalog ==
    ASSUME CatalogInv, CreateStep
    PROVE  CatalogInv' /\ (selectedApp' # selectedApp => selectedApp' \in Apps)
<1> USE DEF CatalogInv, ServerTypes
<1>1. CASE OpenCreate \/ CancelCreate \/ FinishCreate
  <2>1. UNCHANGED <<catalog, creations, rotating, stored, keyOf, trusted, selectedApp>>
    BY <1>1 DEF OpenCreate, CancelCreate, FinishCreate, analytics
  <2>2. create' \in [open : BOOLEAN, loading : BOOLEAN, result : 0..registered]
    <3>1. /\ create.open \in BOOLEAN /\ create.loading \in BOOLEAN
          /\ create.result \in 0..registered /\ NoApp \in 0..registered
      BY Counts DEF CreateTypes, NoApp
    <3>2. \/ create' = [create EXCEPT !.open = TRUE]
          \/ create' = [create EXCEPT !.open = FALSE]
          \/ create' = [open |-> FALSE, loading |-> create.loading, result |-> NoApp]
      BY <1>1 DEF OpenCreate, CancelCreate, FinishCreate, CreateTypes
    <3>3. CASE create' = [open |-> FALSE, loading |-> create.loading, result |-> NoApp]
      BY <3>1, <3>3
    <3>4. CASE \E x \in BOOLEAN : create' = [create EXCEPT !.open = x]
      BY <3>4 DEF CreateTypes
    <3>5. QED
      BY <3>2, <3>3, <3>4
  <2>3. QED
    BY <2>1, <2>2, SameTypes DEF catalog, rotating, CreateTypes, RotateTypes, KeyTypes
<1>2. CASE SubmitCreate
  <2>1. UNCHANGED <<catalog, rotating, stored, keyOf, trusted, selectedApp>>
    BY <1>2 DEF SubmitCreate, analytics
  <2>2. create' \in [open : BOOLEAN, loading : BOOLEAN, result : 0..registered]
    BY <1>2 DEF SubmitCreate, CreateTypes
  <2>3. [blind |-> Blind, made |-> NoApp] \in Creation
    BY DEF Creation, Blind, NoApp
  <2>4. creations' \in Seq(Creation)
    BY <1>2, <2>3, AppendAdds DEF SubmitCreate, CreateTypes
  <2>5. QED
    BY <2>1, <2>2, <2>4, SameTypes DEF catalog, rotating, CreateTypes, RotateTypes, KeyTypes
<1>3. ASSUME NEW i \in DOMAIN creations, FailCreate(i) PROVE CatalogInv' /\ selectedApp' = selectedApp
  <2>1. UNCHANGED <<catalog, rotating, stored, keyOf, trusted, selectedApp>>
    BY <1>3 DEF FailCreate, analytics
  <2>2. create' \in [open : BOOLEAN, loading : BOOLEAN, result : 0..registered]
    BY <1>3 DEF FailCreate, CreateTypes
  <2>3. creations' \in Seq(Creation)
    BY <1>3, RemoveAtKeeps DEF FailCreate, CreateTypes
  <2>4. QED
    BY <2>1, <2>2, <2>3, SameTypes DEF catalog, rotating, CreateTypes, RotateTypes, KeyTypes
<1>4. ASSUME NEW i \in DOMAIN creations, LandCreate(i)
      PROVE  CatalogInv' /\ selectedApp' \in Apps
  <2>1. creations[i] \in Creation
    BY DEF CreateTypes
  <2>0. PICK app : app = creations[i].made
    OBVIOUS
  <2>2. app \in 1..registered /\ app \in Apps
    BY <1>4, <2>0, <2>1, Counts DEF LandCreate, Creation, Apps, NoApp
  <2>3. bases' \in Seq(Reload) /\ registered' = registered /\ applications' = applications
    <3>1. creations[i].blind \in BOOLEAN
      BY <2>1 DEF Creation
    <3>2. QED
      BY <1>4, <3>1, ReloadStarts DEF LandCreate
  <2>4. selectedApp' = app /\ trusted' = trusted \cup {app} /\ UNCHANGED <<keyOf, rotating>>
    BY <1>4, <2>0 DEF LandCreate, Select
  <2>5. stored' \in [Apps -> KeyOrNothing]
    <3>1. FirstKey \in KeyOrNothing
      BY KeysAssumption DEF FirstKey, KeyOrNothing, WrongKey
    <3>2. QED
      BY <1>4, <3>1 DEF LandCreate, KeyTypes
  <2>6. create' \in [open : BOOLEAN, loading : BOOLEAN, result : 0..registered]
    <3>1. create.open \in BOOLEAN /\ app \in 0..registered
      BY <2>2, Counts DEF CreateTypes
    <3>2. create' = [open |-> create.open, loading |-> FALSE, result |-> app]
      BY <1>4, <2>0 DEF LandCreate, CreateTypes
    <3>3. QED
      BY <3>1, <3>2
  <2>7. creations' \in Seq(Creation)
    BY <1>4, RemoveAtKeeps DEF LandCreate, CreateTypes
  <2>8. QED
    <3>1. Creation' = Creation /\ Rotation' = Rotation /\ Reload' = Reload
      BY <2>3, SameTypes
    <3>2. ServerTypes'
      <4>1. registered' \in 0..MaxApps /\ applications' \in 0..registered'
        BY <2>3
      <4>2. selectedApp' \in 0..registered' /\ trusted' \subseteq 1..registered'
        <5>1. registered \in Nat /\ trusted \subseteq 1..registered
          BY Counts
        <5>2. app \in 0..registered /\ trusted \cup {app} \subseteq 1..registered
          BY <2>2, <5>1
        <5>3. QED
          BY <2>3, <2>4, <5>2
      <4>3. bases' \in Seq(Reload')
        BY <2>3, <3>1
      <4>4. QED
        BY <4>1, <4>2, <4>3
    <3>3. CreateTypes' /\ RotateTypes' /\ KeyTypes'
      BY <2>3, <2>4, <2>5, <2>6, <2>7, <3>1 DEF rotating, CreateTypes, RotateTypes, KeyTypes
    <3>4. QED
      BY <2>2, <2>4, <3>2, <3>3
<1>5. ASSUME NEW i \in DOMAIN creations, ServeCreate(i) PROVE CatalogInv' /\ selectedApp' = selectedApp
  <2>1. UNCHANGED <<applications, bases, create, rotating, stored, keyOf, trusted, selectedApp>>
    BY <1>5 DEF ServeCreate, analytics
  <2>2. registered' = registered + 1 /\ registered' \in 0..MaxApps /\ registered \in Nat
    BY <1>5, RangesAssumption DEF ServeCreate
  <2>3. /\ bases \in Seq(Reload') /\ creations \in Seq(Creation') /\ rotations \in Seq(Rotation')
        /\ 0..registered \subseteq 0..registered' /\ 1..registered \subseteq 1..registered'
    BY <2>2, TypesGrow DEF CreateTypes, RotateTypes
  <2>4. creations[i] \in Creation' /\ DOMAIN creations = 1..Len(creations)
    BY <2>3
  <2>5. [creations[i] EXCEPT !.made = registered'] \in Creation'
    BY <2>2, <2>4 DEF Creation
  <2>6. creations' \in Seq(Creation')
    BY <1>5, <2>3, <2>4, <2>5, ExceptSeq DEF ServeCreate
  <2>7. CreateTypes'
    BY <2>1, <2>3, <2>6 DEF CreateTypes
  <2>8. RotateTypes'
    BY <2>1, <2>3 DEF rotating, RotateTypes
  <2>9. QED
    BY <2>1, <2>2, <2>3, <2>7, <2>8 DEF KeyTypes
<1>6. QED
  BY <1>1, <1>2, <1>3, <1>4, <1>5 DEF CreateStep, OpenCreate, SubmitCreate, CancelCreate, FinishCreate,
     analytics

(* The fields of RotateKeyModal.                                           *)
LEMMA RotateFields ==
    ASSUME CatalogInv
    PROVE  /\ rotate.open \in BOOLEAN /\ rotate.loading \in BOOLEAN
           /\ rotate.result \in 0..registered /\ rotate.app \in 0..registered
           /\ NoApp \in 0..registered
  BY Counts DEF CatalogInv, RotateTypes, NoApp

(* What a served rotation carries.                                         *)
LEMMA ServedRotations ==
    ASSUME NEW rotation \in Rotation, NEW key \in KeyOrNothing,
           NEW served, served = [rotation EXCEPT !.issued = key]
    PROVE  served \in Rotation /\ served.app = rotation.app /\ served.key = rotation.key
           /\ served.issued = key
  BY DEF Rotation

(* RotateKeyModal and the rotation on the server.                          *)
LEMMA RotateKeepsCatalog ==
    ASSUME CatalogInv, RotateStep
    PROVE  CatalogInv' /\ selectedApp' = selectedApp
<1> USE DEF CatalogInv, ServerTypes
<1> DEFINE Dialog == [open : BOOLEAN, loading : BOOLEAN, result : 0..registered, app : 0..registered]
<1>1. CASE OpenRotate \/ CloseRotate
  <2>1. UNCHANGED <<catalog, rotations, creating, stored, keyOf, trusted, selectedApp>>
    BY <1>1 DEF OpenRotate, CloseRotate, analytics
  <2>2. rotate' \in Dialog /\ (rotate'.open => rotate'.app # NoApp)
    <3>1. CASE OpenRotate
      <4>1. rotate' = [open |-> TRUE, loading |-> rotate.loading, result |-> rotate.result,
                       app |-> selectedApp]
        BY <3>1 DEF OpenRotate, RotateTypes
      <4>2. QED
        BY <3>1, <4>1, RotateFields DEF OpenRotate
    <3>2. CASE CloseRotate
      <4>1. rotate' = [open |-> FALSE, loading |-> rotate.loading, result |-> NoApp, app |-> rotate.app]
        BY <3>2 DEF CloseRotate, RotateTypes
      <4>2. QED
        BY <4>1, RotateFields
    <3>3. QED
      BY <1>1, <3>1, <3>2
  <2>3. QED
    BY <2>1, <2>2, SameTypes DEF catalog, creating, CreateTypes, RotateTypes, KeyTypes
<1>2. CASE SubmitRotate
  <2>1. UNCHANGED <<catalog, creating, stored, keyOf, trusted, selectedApp>>
    BY <1>2 DEF SubmitRotate, analytics
  <2>2. rotate' \in Dialog /\ (rotate'.open => rotate'.app # NoApp)
    <3>1. rotate' = [rotate EXCEPT !.loading = TRUE]
      BY <1>2 DEF SubmitRotate
    <3>2. QED
      BY <3>1 DEF RotateTypes
  <2>3. rotations' \in Seq(Rotation)
    <3>1. rotate.app \in 1..registered /\ rotate.app \in Apps
      BY <1>2, RotateFields, Counts DEF SubmitRotate, RotateTypes, NoApp
    <3>2. stored[rotate.app] \in KeyOrNothing /\ Nothing \in KeyOrNothing
      BY <3>1 DEF KeyTypes, KeyOrNothing
    <3>3. [app |-> rotate.app, blind |-> Blind, key |-> stored[rotate.app], issued |-> Nothing] \in Rotation
      BY <3>1, <3>2 DEF Rotation, Blind
    <3>4. QED
      BY <1>2, <3>3, AppendAdds DEF SubmitRotate, RotateTypes
  <2>4. QED
    BY <2>1, <2>2, <2>3, SameTypes DEF catalog, creating, CreateTypes, RotateTypes, KeyTypes
<1>3. ASSUME NEW i \in DOMAIN rotations, FailRotate(i) PROVE CatalogInv' /\ selectedApp' = selectedApp
  <2>1. UNCHANGED <<catalog, creating, stored, keyOf, selectedApp>> /\ trusted' \subseteq trusted
    BY <1>3 DEF FailRotate, analytics
  <2>2. rotate' \in Dialog /\ (rotate'.open => rotate'.app # NoApp)
    <3>1. rotate' = [rotate EXCEPT !.loading = FALSE]
      BY <1>3 DEF FailRotate
    <3>2. QED
      BY <3>1 DEF RotateTypes
  <2>3. rotations' \in Seq(Rotation)
    BY <1>3, RemoveAtKeeps DEF FailRotate, RotateTypes
  <2>4. QED
    BY <2>1, <2>2, <2>3, SameTypes DEF catalog, creating, CreateTypes, RotateTypes, KeyTypes
<1>4. ASSUME NEW i \in DOMAIN rotations, LandRotate(i) PROVE CatalogInv' /\ selectedApp' = selectedApp
  <2>1. PICK r \in Rotation : r = rotations[i]
    BY DEF RotateTypes
  <2>2. r.app \in 1..registered /\ r.app \in 0..registered /\ r.blind \in BOOLEAN /\ r.issued \in KeyOrNothing
    BY Counts DEF Rotation
  <2>3. bases' \in Seq(Reload) /\ registered' = registered /\ applications' = applications
    BY <1>4, <2>1, <2>2, ReloadStarts DEF LandRotate
  <2>4. UNCHANGED <<keyOf, creating, trusted, selectedApp>> /\ stored' = [stored EXCEPT ![r.app] = r.issued]
    BY <1>4, <2>1 DEF LandRotate
  <2>5. rotate' \in Dialog /\ (rotate'.open => rotate'.app # NoApp)
    <3>1. rotate' = [open |-> rotate.open, loading |-> FALSE, result |-> r.app, app |-> rotate.app]
      BY <1>4, <2>1 DEF LandRotate, RotateTypes
    <3>2. QED
      BY <2>2, <3>1, RotateFields DEF RotateTypes
  <2>6. rotations' \in Seq(Rotation)
    BY <1>4, RemoveAtKeeps DEF LandRotate, RotateTypes
  <2>7. KeyTypes'
    BY <2>2, <2>4 DEF KeyTypes
  <2>8. QED
    BY <2>3, <2>4, <2>5, <2>6, <2>7, SameTypes DEF creating, CreateTypes, RotateTypes
<1>5. ASSUME NEW i \in DOMAIN rotations, ServeRotate(i) PROVE CatalogInv' /\ selectedApp' = selectedApp
  <2>1. PICK r \in Rotation : r = rotations[i]
    BY DEF RotateTypes
  <2>2. UNCHANGED <<catalog, creating, rotate, stored, selectedApp>> /\ trusted' \subseteq trusted
    BY <1>5 DEF ServeRotate
  <2>3. PICK key \in KeyOrNothing : /\ rotations' = [rotations EXCEPT ![i].issued = key]
                                    /\ keyOf' \in [Apps -> 0..MaxKeys]
    <3>1. r.app \in Apps /\ keyOf[r.app] \in 0..MaxKeys /\ MaxKeys \in Nat
      BY KeysAssumption, Counts DEF Rotation, Apps, KeyTypes
    <3>2. CASE /\ keyOf[r.app] < MaxKeys /\ keyOf' = [keyOf EXCEPT ![r.app] = @ + 1]
               /\ rotations' = [rotations EXCEPT ![i].issued = keyOf'[r.app]]
      <4>1. keyOf'[r.app] \in KeyOrNothing /\ keyOf' \in [Apps -> 0..MaxKeys]
        BY <3>1, <3>2 DEF KeyTypes, KeyOrNothing, WrongKey
      <4>2. QED
        BY <3>2, <4>1
    <3>3. CASE rotations' = [rotations EXCEPT ![i].issued = WrongKey] /\ keyOf' = keyOf
      <4>1. WrongKey \in KeyOrNothing
        BY <3>1 DEF KeyOrNothing, WrongKey
      <4>2. QED
        BY <3>3, <4>1 DEF KeyTypes
    <3>4. QED
      BY <1>5, <2>1, <3>2, <3>3 DEF ServeRotate
  <2>4. PICK served : served = [r EXCEPT !.issued = key] /\ rotations' = [rotations EXCEPT ![i] = served]
    BY <2>1, <2>3
  <2>5. rotations' \in Seq(Rotation)
    <3>1. served \in Rotation
      BY <2>4, ServedRotations
    <3>2. i \in 1..Len(rotations)
      BY DEF RotateTypes
    <3>3. QED
      BY <2>4, <3>1, <3>2, ExceptSeq DEF RotateTypes
  <2>6. QED
    BY <2>2, <2>3, <2>5, SameTypes DEF catalog, creating, CreateTypes, RotateTypes, KeyTypes
<1>6. QED
  BY <1>1, <1>2, <1>3, <1>4, <1>5 DEF RotateStep

(* EventSimulatorModal reloads the list and changes nothing else here.     *)
LEMMA SimulatorKeepsCatalog ==
    ASSUME CatalogInv, SimulatorTypes, SimulatorStep
    PROVE  CatalogInv' /\ selectedApp' = selectedApp
<1>1. CASE OpenSimulator \/ Send \/ CloseSimulator \/ \E i \in DOMAIN sends : FailSend(i)
  <2>1. UNCHANGED <<catalog, creating, rotating, stored, keyOf, trusted, selectedApp>>
    BY <1>1 DEF OpenSimulator, Send, CloseSimulator, FailSend, analytics
  <2>2. QED
    BY <2>1, CatalogUntouched DEF CatalogInv, ServerTypes
<1>2. ASSUME NEW i \in DOMAIN sends, LandSend(i) PROVE CatalogInv' /\ selectedApp' = selectedApp
  <2>1. sends[i].blind \in BOOLEAN
    <3>1. sends[i] \in Sending
      BY DEF SimulatorTypes
    <3>2. QED
      BY <3>1 DEF Sending
  <2>2. bases' \in Seq(Reload) /\ registered' = registered /\ applications' = applications
    BY <1>2, <2>1, ReloadStarts DEF LandSend, CatalogInv
  <2>3. UNCHANGED <<stored, keyOf, trusted, creating, rotating, selectedApp>>
    BY <1>2 DEF LandSend
  <2>4. QED
    BY <2>2, <2>3, SameTypes
       DEF creating, rotating, CatalogInv, ServerTypes, CreateTypes, RotateTypes, KeyTypes
<1>3. QED
  BY <1>1, <1>2 DEF SimulatorStep

(* The selector chooses from the list.                                     *)
LEMMA ChoiceKeepsCatalog ==
    ASSUME CatalogInv, ChooseApp
    PROVE  CatalogInv' /\ selectedApp' \in Apps
<1>1. PICK app \in 1..applications : Select(app)
  BY DEF ChooseApp
<1>2. app \in 1..registered /\ app \in 0..registered /\ app \in Apps
  BY RangesAssumption DEF CatalogInv, ServerTypes, Apps
<1>3. UNCHANGED <<catalog, creating, rotating, stored, keyOf, trusted>> /\ selectedApp' = app
  BY <1>1 DEF ChooseApp, Select, workspace
<1>4. QED
  BY <1>2, <1>3, CatalogUntouched

(* The form of OverviewView stores a key.                                  *)
LEMMA SavedKeys ==
    ASSUME CatalogInv, SaveKey
    PROVE  /\ CatalogInv' /\ selectedApp' = selectedApp
           /\ selectedApp \in 1..registered /\ selectedApp \in Apps
<1> USE DEF CatalogInv, ServerTypes
<1>1. selectedApp \in 1..registered /\ selectedApp \in Apps
  BY Counts DEF SaveKey, Overview, NoApp
<1>2. PICK key \in {keyOf[selectedApp], WrongKey} :
         /\ stored' = [stored EXCEPT ![selectedApp] = key]
         /\ trusted' = IF key = WrongKey THEN trusted ELSE trusted \cup {selectedApp}
  BY DEF SaveKey
<1>3. key \in KeyOrNothing
  BY <1>1, KeysAssumption DEF KeyTypes, KeyOrNothing, WrongKey
<1>4. KeyTypes' /\ trusted' \subseteq 1..registered
  BY <1>1, <1>2, <1>3 DEF SaveKey, KeyTypes
<1>5. UNCHANGED <<catalog, creating, rotating, selectedApp>>
  BY DEF SaveKey
<1>6. QED
  BY <1>1, <1>4, <1>5, SameTypes DEF catalog, creating, rotating, CreateTypes, RotateTypes

(* Every step keeps the catalog, and selects an application or nothing new. *)
LEMMA NextCatalog ==
    ASSUME CatalogInv, SimulatorTypes, [Next]_vars
    PROVE  CatalogInv' /\ (selectedApp' # selectedApp => selectedApp' \in Apps)
<1>1. CASE ViewStep \/ Retry
  <2>1. UNCHANGED <<selectedApp, stored, keyOf, workspace>>
    BY <1>1 DEF ViewStep, PickRange, ToggleCompare, Poll, Land, Settle, EventArrives, Retry
  <2>2. QED
    BY <2>1, CatalogUntouched DEF workspace, CatalogInv, ServerTypes
<1>2. CASE UNCHANGED <<analytics, workspace>>
  BY <1>2, CatalogUntouched DEF analytics, workspace, CatalogInv, ServerTypes
<1>3. QED
  BY <1>1, <1>2, EveryStep, ListKeepsCatalog, CreateKeepsCatalog, RotateKeepsCatalog,
     SimulatorKeepsCatalog, ChoiceKeepsCatalog, SavedKeys DEF ListStep

-----------------------------------------------------------------------------
(* The figures. *)

Request == [asks : {q \in Asked : q.app # NoApp}, keyed : BOOLEAN]

(* The selection, its interval and the loads in flight.                    *)
FigureTypes ==
    /\ Current \in Asked /\ arrived \subseteq Apps
    /\ timers = {Current}
    /\ loads \in Seq(Request)
    /\ loading \in BOOLEAN /\ error \in BOOLEAN /\ astray \in BOOLEAN
    /\ metrics \in Asked \cup {Nothing} /\ recentEvents \in Apps \cup {Nothing}

(* Unless it went astray, the newest load asks what is selected, and when  *)
(* it was the last to end it failed or is what the figures answer.         *)
NewestFollows ==
    selectedApp # NoApp /\ ~astray =>
        /\ loads # <<>> => Last(loads).asks = Current
        /\ loads = <<>> => error \/ metrics = Current

(* An application is loading, or its last load failed, or it has figures.  *)
SomethingToShow ==
    /\ selectedApp # NoApp => loading \/ error \/ metrics # Nothing
    /\ NewestFollows

FigureInv == FigureTypes /\ SimulatorTypes /\ SomethingToShow

(* Loads that start are well formed, and the screen says so.               *)
LEMMA LoadsStart ==
    ASSUME FigureTypes, NEW qs \in Seq(Asked), qs # <<>>,
           \A i \in DOMAIN qs : qs[i].app = qs[1].app, LoadAnalytics(qs)
    PROVE  /\ loads' \in Seq(Request) /\ loading' \in BOOLEAN /\ error' \in BOOLEAN
           /\ metrics' \in Asked \cup {Nothing} /\ recentEvents' \in Apps \cup {Nothing}
           /\ qs[1].app # NoApp => loading'
           /\ astray' \in BOOLEAN
           /\ qs[1].app # NoApp \/ selectedApp' = NoApp => NewestFollows'
<1>1. CASE ShowNothing(qs)
  BY <1>1 DEF ShowNothing, FigureTypes, NewestFollows
<1>2. CASE Ask(qs)
  <2> DEFINE started == [i \in DOMAIN qs |->
                           [asks |-> qs[i], keyed |-> stored'[qs[i].app] = keyOf[qs[i].app]]]
  <2>1. started \in Seq(Request)
    <3>1. \A i \in DOMAIN qs : qs[i] \in Asked /\ qs[i].app # NoApp
      BY <1>2 DEF Ask
    <3>2. \A i \in DOMAIN qs :
             [asks |-> qs[i], keyed |-> stored'[qs[i].app] = keyOf[qs[i].app]] \in Request
      BY <3>1 DEF Request
    <3>3. started \in [1..Len(qs) -> Request] /\ Len(qs) \in Nat
      BY <3>2
    <3>4. QED
      BY <3>3, SeqDef
  <2>2. loads' = loads \o started
    BY <1>2 DEF Ask
  <2> HIDE DEF started
  <2>3. loads' \in Seq(Request)
    BY <2>1, <2>2 DEF FigureTypes
  <2>4. NewestFollows'
    <3>1. Len(qs) \in Nat /\ Len(qs) > 0 /\ Last(qs) = qs[Len(qs)]
      BY EmptySeq DEF Last
    <3>2. Len(started) = Len(qs) /\ started[Len(qs)].asks = qs[Len(qs)]
      BY <3>1 DEF started
    <3>3. Last(loads') = started[Len(qs)] /\ loads' # <<>>
      BY <2>1, <2>2, <3>1, <3>2 DEF FigureTypes, Last
    <3>4. ~astray' => Last(qs) = Current'
      BY <1>2 DEF Ask
    <3>5. QED
      BY <3>1, <3>2, <3>3, <3>4 DEF NewestFollows
  <2>5. QED
    BY <1>2, <2>3, <2>4 DEF Ask, FigureTypes
<1>3. QED
  BY <1>1, <1>2 DEF LoadAnalytics

(* What is asked next: well formed, and about the selected application.     *)
LEMMA Restarts ==
    ASSUME FigureTypes, NEW qs \in Seq(Asked), qs # <<>>,
           \A i \in DOMAIN qs : qs[i].app = qs[1].app,
           Restart(qs), Last(qs) = Current', Current' \in Asked, arrived' \subseteq Apps
    PROVE  FigureTypes' /\ SomethingToShow'
<1>1. Len(qs) \in DOMAIN qs /\ Last(qs) = qs[Len(qs)]
  BY EmptySeq DEF Last
<1>2. qs[1].app = selectedApp'
  <2>1. Current'.app = selectedApp'
    BY DEF Current, Question
  <2>2. QED
    BY <1>1, <2>1
<1>3. /\ loads' \in Seq(Request) /\ loading' \in BOOLEAN /\ error' \in BOOLEAN
      /\ metrics' \in Asked \cup {Nothing} /\ recentEvents' \in Apps \cup {Nothing}
      /\ qs[1].app # NoApp => loading'
      /\ astray' \in BOOLEAN /\ NewestFollows'
  BY <1>2, LoadsStart DEF Restart
<1>4. timers' = {Current'}
  BY DEF Restart
<1>5. FigureTypes'
  BY <1>3, <1>4 DEF FigureTypes
<1>6. QED
  BY <1>2, <1>3, <1>5 DEF SomethingToShow

(* The fields of the question that is asked now.                           *)
LEMMA CurrentFields ==
    Current \in Asked <=>
        /\ selectedApp \in Apps \cup {NoApp} /\ dateRange \in Ranges /\ until \subseteq Apps
        /\ granularity \in {"hour", "day"} /\ comparePeriod \in BOOLEAN
  BY DEF Current, Question, Asked

(* The sequence of one question.                                           *)
LEMMA OneQuestion ==
    ASSUME NEW q \in Asked
    PROVE  /\ <<q>> \in Seq(Asked) /\ <<q>> # <<>> /\ <<q>>[1] = q /\ Last(<<q>>) = q
           /\ \A i \in DOMAIN <<q>> : <<q>>[i].app = <<q>>[1].app
  BY DEF Last

(* A selection.                                                            *)
LEMMA SelectKeepsFigures ==
    ASSUME FigureTypes, SomethingToShow, NEW app \in Apps, Select(app), arrived' = arrived
    PROVE  FigureTypes' /\ SomethingToShow' /\ selectedApp' = app
<1>0. selectedApp' = app /\ UNCHANGED <<dateRange, granularity, comparePeriod, until>>
  BY DEF Select, choices
<1>1. CASE app = selectedApp
  <2>1. UNCHANGED <<timers, loads, loading, error, metrics, recentEvents, astray, selectedApp>>
    BY <1>0, <1>1 DEF Select, figures
  <2>2. Current' = Current
    BY <1>0, <2>1 DEF Current, Question
  <2>3. QED
    BY <1>0, <2>1, <2>2 DEF FigureTypes, SomethingToShow, NewestFollows
<1>2. CASE app # selectedApp
  <2>1. Current' = [Current EXCEPT !.app = app]
    BY <1>0 DEF Current, Question
  <2>2. Current' \in Asked
    BY <1>0, CurrentFields DEF FigureTypes, Asked, Current, Question
  <2>3. Restart(<<Current'>>)
    BY <1>2, <2>1 DEF Select
  <2>4. PICK q \in Asked : q = Current'
    BY <2>2
  <2>5. FigureTypes' /\ SomethingToShow'
    BY <2>2, <2>3, <2>4, OneQuestion, Restarts DEF FigureTypes
  <2>6. QED
    BY <1>0, <2>5
<1>3. QED
  BY <1>1, <1>2

(* A range, with the granularity that follows it.                          *)
LEMMA PickRangeKeepsFigures ==
    ASSUME FigureTypes, NEW range \in Ranges, PickRange(range)
    PROVE  FigureTypes' /\ SomethingToShow'
<1>1. PICK early : early = Question(selectedApp, range, arrived, granularity, comparePeriod)
  OBVIOUS
<1>2. PICK late : late = Question(selectedApp, range, arrived, Fits(range), comparePeriod)
  OBVIOUS
<1>3. early \in Asked /\ late \in Asked /\ early.app = selectedApp /\ late.app = selectedApp
  BY <1>1, <1>2, CurrentFields DEF FigureTypes, Question, Asked, Fits
<1>4. Current' = late /\ arrived' = arrived
  BY <1>2 DEF PickRange, Current, Question
<1>5. CASE early = late /\ Restart(<<late>>)
  BY <1>3, <1>4, <1>5, OneQuestion, Restarts DEF FigureTypes
<1>6. CASE Restart(<<early, late>>)
  <2> DEFINE qs == <<early, late>>
  <2>1. qs \in Seq(Asked) /\ qs # <<>> /\ Last(qs) = late
    BY <1>3 DEF Last
  <2>2. \A i \in DOMAIN qs : qs[i].app = qs[1].app
    BY <1>3
  <2> HIDE DEF qs
  <2>3. Restart(qs)
    BY <1>6 DEF qs
  <2>4. QED
    BY <1>3, <1>4, <2>1, <2>2, <2>3, Restarts DEF FigureTypes
<1>7. QED
  BY <1>1, <1>2, <1>5, <1>6 DEF PickRange

(* The comparison, on or off.                                              *)
LEMMA ToggleKeepsFigures ==
    ASSUME FigureTypes, ToggleCompare
    PROVE  FigureTypes' /\ SomethingToShow'
<1>1. PICK q : q = Question(selectedApp, dateRange, until, granularity, ~comparePeriod)
  OBVIOUS
<1>2. q = [Current EXCEPT !.compare = ~comparePeriod]
  BY <1>1 DEF Current, Question
<1>3. q \in Asked
  BY <1>1, CurrentFields DEF FigureTypes, Question, Asked
<1>4. Current' = q /\ arrived' = arrived
  BY <1>1 DEF ToggleCompare, Current, Question
<1>5. Restart(<<q>>)
  BY <1>2 DEF ToggleCompare
<1>6. QED
  BY <1>3, <1>4, <1>5, OneQuestion, Restarts DEF FigureTypes

(* A load of the selected application that leaves the interval as it is.    *)
LEMMA ReloadKeepsFigures ==
    ASSUME FigureTypes, SomethingToShow, NEW q \in Asked, LoadAnalytics(<<q>>),
           q.app # NoApp \/ selectedApp = NoApp,
           UNCHANGED <<selectedApp, choices, timers, arrived>>
    PROVE  FigureTypes' /\ SomethingToShow'
<1>1. Current' = Current /\ timers' = timers /\ arrived' = arrived /\ selectedApp' = selectedApp
  BY DEF choices, Current, Question
<1>2. /\ loads' \in Seq(Request) /\ loading' \in BOOLEAN /\ error' \in BOOLEAN
      /\ metrics' \in Asked \cup {Nothing} /\ recentEvents' \in Apps \cup {Nothing}
      /\ q.app # NoApp => loading'
      /\ astray' \in BOOLEAN /\ NewestFollows'
  BY <1>1, OneQuestion, LoadsStart
<1>3. FigureTypes'
  BY <1>1, <1>2 DEF FigureTypes
<1>4. QED
  BY <1>1, <1>2, <1>3 DEF SomethingToShow

(* A load that ends shows its figures or an error.                         *)
LEMMA LandKeepsFigures ==
    ASSUME FigureTypes, SomethingToShow, NEW i \in DOMAIN loads, Land(i)
    PROVE  FigureTypes' /\ SomethingToShow'
<1>1. loads[i] \in Request
  BY DEF FigureTypes
<1>2. /\ loads' \in Seq(Request) /\ loading' = FALSE
      /\ Current' = Current /\ timers' = timers /\ arrived' = arrived
      /\ selectedApp' = selectedApp /\ loads' = RemoveAt(loads, i)
      /\ astray' = (astray \/ (i = Len(loads) /\ i > 1))
  BY RemoveAtKeeps DEF Land, Settle, choices, Current, Question, FigureTypes
<1>3. NewestFollows'
  <2> SUFFICES ASSUME selectedApp # NoApp, ~astray'
               PROVE  /\ loads' # <<>> => Last(loads').asks = Current
                      /\ loads' = <<>> => error' \/ metrics' = Current
    BY <1>2 DEF NewestFollows
  <2>0. ~astray /\ ~(i = Len(loads) /\ i > 1)
    BY <1>2, Zenon
  <2>1. /\ loads # <<>> /\ Last(loads).asks = Current
        /\ Len(loads) \in Nat /\ i \in 1..Len(loads)
        /\ i = Len(loads) => i = 1
    BY <2>0 DEF SomethingToShow, NewestFollows, FigureTypes
  <2>2. CASE i = Len(loads)
    <3>1. loads' = <<>> /\ loads[i] = Last(loads)
      BY <1>2, <2>1, <2>2, EmptySeq, RemoveAtKeeps DEF FigureTypes, Last
    <3>2. QED
      BY <2>1, <3>1 DEF Land, Show, Throw
  <2>3. CASE i < Len(loads)
    BY <1>2, <2>1, <2>3, LastStays DEF FigureTypes
  <2>4. QED
    BY <2>1, <2>2, <2>3
<1>4. CASE Show(loads[i])
  <2>1. metrics' \in Asked /\ recentEvents' \in Apps \cup {Nothing} /\ error' = error
    BY <1>1, <1>4 DEF Show, Request, Asked
  <2>2. metrics' # Nothing
    BY <2>1, BeforeAssumption
  <2>3. QED
    BY <1>2, <1>3, <2>1, <2>2 DEF FigureTypes, SomethingToShow
<1>5. CASE Throw(loads[i])
  BY <1>2, <1>5, <1>3 DEF Throw, FigureTypes, SomethingToShow
<1>6. QED
  BY <1>4, <1>5 DEF Land

(* A step that changes neither the selection nor the figures.              *)
LEMMA FiguresUntouched ==
    ASSUME FigureTypes, SomethingToShow, UNCHANGED <<selectedApp, choices, timers, figures>>,
           arrived' \subseteq Apps
    PROVE  FigureTypes' /\ SomethingToShow'
<1>1. Current' = Current /\ UNCHANGED <<loads, loading, error, metrics, recentEvents, astray>>
  BY DEF choices, figures, Current, Question
<1>2. QED
  BY <1>1 DEF FigureTypes, SomethingToShow, NewestFollows

(* Every step keeps the figures.                                           *)
LEMMA NextFigures ==
    ASSUME CatalogInv, SimulatorTypes, FigureTypes, SomethingToShow, [Next]_vars
    PROVE  FigureTypes' /\ SomethingToShow'
<1>0. Current \in Asked /\ Current.app = selectedApp /\ timers = {Current} /\ arrived \subseteq Apps
  BY DEF FigureTypes, Current, Question
<1>1. CASE ViewStep
  <2>1. ASSUME NEW range \in Ranges, PickRange(range) PROVE FigureTypes' /\ SomethingToShow'
    BY <2>1, PickRangeKeepsFigures
  <2>2. CASE Poll
    BY <1>0, <2>2, ReloadKeepsFigures DEF Poll
  <2>3. ASSUME NEW i \in DOMAIN loads, Land(i) PROVE FigureTypes' /\ SomethingToShow'
    BY <2>3, LandKeepsFigures
  <2>4. ASSUME NEW app \in Apps, EventArrives(app) PROVE FigureTypes' /\ SomethingToShow'
    <3>1. arrived' \subseteq Apps
      BY <1>0, <2>4 DEF EventArrives
    <3>2. QED
      BY <2>4, <3>1, FiguresUntouched DEF EventArrives
  <2>5. QED
    BY <1>1, <2>1, <2>2, <2>3, <2>4, ToggleKeepsFigures DEF ViewStep
<1>2. CASE Retry
  BY <1>0, <1>2, ReloadKeepsFigures DEF Retry
<1>3. CASE SaveKey
  BY <1>0, <1>3, ReloadKeepsFigures DEF SaveKey
<1>4. CASE ChooseApp
  <2>1. PICK app \in 1..applications : Select(app)
    BY <1>4 DEF ChooseApp
  <2>2. app \in Apps
    BY RangesAssumption DEF CatalogInv, ServerTypes, Apps
  <2>3. QED
    BY <1>4, <2>1, <2>2, SelectKeepsFigures DEF ChooseApp
<1>5. ASSUME NEW i \in DOMAIN bases, ServeList(i) \/ LandList(i) PROVE FigureTypes' /\ SomethingToShow'
  <2>1. CASE ServeList(i)
    BY <1>0, <2>1, FiguresUntouched DEF ServeList, analytics
  <2>2. CASE LandList(i) /\ UNCHANGED <<selectedApp, choices, timers, figures>>
    BY <1>0, <2>2, FiguresUntouched DEF LandList
  <2>3. CASE LandList(i) /\ bases[i].list > 0 /\ Select(bases[i].list)
    <3>1. PICK base \in Reload : base = bases[i]
      BY DEF CatalogInv, ServerTypes
    <3>2. base.list \in Apps
      BY <2>3, <3>1, RangesAssumption DEF Reload, Apps, CatalogInv, ServerTypes
    <3>3. QED
      BY <2>3, <3>1, <3>2, SelectKeepsFigures DEF LandList
  <2>4. QED
    BY <1>5, <2>1, <2>2, <2>3 DEF LandList
<1>6. CASE CreateStep
  <2>1. ASSUME NEW i \in DOMAIN creations, LandCreate(i) PROVE FigureTypes' /\ SomethingToShow'
    <3>1. PICK creation \in Creation : creation = creations[i]
      BY DEF CatalogInv, CreateTypes
    <3>2. creation.made \in Apps /\ Select(creation.made) /\ arrived' = arrived
      BY <2>1, <3>1, Counts DEF LandCreate, Creation, CatalogInv, NoApp
    <3>3. QED
      BY <3>2, SelectKeepsFigures
  <2>2. CASE UNCHANGED analytics
    BY <1>0, <2>2, FiguresUntouched DEF analytics
  <2>3. QED
    BY <1>6, <2>1, <2>2 DEF CreateStep, OpenCreate, SubmitCreate, CancelCreate, FinishCreate,
       FailCreate, ServeCreate
<1>7. CASE RotateStep
  <2>1. UNCHANGED <<selectedApp, choices, timers, figures, arrived>>
    BY <1>7 DEF RotateStep, OpenRotate, SubmitRotate, CloseRotate, LandRotate, FailRotate,
       ServeRotate, analytics
  <2>2. QED
    BY <1>0, <2>1, FiguresUntouched
<1>8. CASE SimulatorStep
  <2>1. ASSUME NEW i \in DOMAIN sends, LandSend(i) PROVE FigureTypes' /\ SomethingToShow'
    <3>1. PICK send \in Sending : send = sends[i]
      BY DEF SimulatorTypes
    <3>2. send.asks \in Asked /\ send.asks.app # NoApp
      BY DEF Sending
    <3>3. LoadAnalytics(<<send.asks>>) /\ UNCHANGED <<selectedApp, choices, timers, arrived>>
      BY <2>1, <3>1 DEF LandSend
    <3>4. QED
      BY <3>2, <3>3, ReloadKeepsFigures
  <2>2. CASE UNCHANGED analytics
    BY <1>0, <2>2, FiguresUntouched DEF analytics
  <2>3. QED
    BY <1>8, <2>1, <2>2 DEF SimulatorStep, OpenSimulator, Send, CloseSimulator, FailSend
<1>9. CASE UNCHANGED <<analytics, workspace>>
  BY <1>0, <1>9, FiguresUntouched DEF analytics
<1>10. QED
  BY <1>1, <1>2, <1>3, <1>4, <1>5, <1>6, <1>7, <1>8, <1>9, EveryStep DEF ListStep

(* NoApp is no application. *)
LEMMA NoAppIsNone == NoApp \notin Apps
  BY RangesAssumption DEF NoApp, Apps

(* Every step keeps the simulator about an application.                    *)
LEMMA NextSimulator ==
    ASSUME CatalogInv, SimulatorTypes, FigureTypes, [Next]_vars
    PROVE  SimulatorTypes'
<1>0. selectedApp # NoApp => selectedApp' # NoApp
  BY NextCatalog, NoAppIsNone
<1>1. CASE UNCHANGED sending
  BY <1>0, <1>1 DEF sending, SimulatorTypes
<1>2. CASE OpenSimulator
  <2>1. simulator' = [simulator EXCEPT !.open = TRUE] /\ sends' = sends /\ selectedApp # NoApp
    BY <1>2 DEF OpenSimulator
  <2>2. QED
    BY <1>0, <2>1 DEF SimulatorTypes
<1>3. CASE Send
  <2>1. Current \in Asked /\ Current.app # NoApp /\ simulator.open
    BY <1>3 DEF Send, SimulatorTypes, FigureTypes, Current, Question
  <2>2. PICK send : send = [blind |-> Blind, asks |-> Current]
    OBVIOUS
  <2>3. send \in Sending
    BY <2>1, <2>2 DEF Sending, Blind
  <2>4. sends' \in Seq(Sending)
    BY <1>3, <2>2, <2>3, AppendAdds DEF Send, SimulatorTypes
  <2>5. simulator' = [simulator EXCEPT !.loading = TRUE]
    BY <1>3 DEF Send
  <2>6. QED
    BY <1>0, <2>4, <2>5 DEF SimulatorTypes
<1>4. CASE CloseSimulator
  <2>1. simulator' = [simulator EXCEPT !.open = FALSE] /\ sends' = sends
    BY <1>4 DEF CloseSimulator
  <2>2. QED
    BY <2>1 DEF SimulatorTypes
<1>5. ASSUME NEW i \in DOMAIN sends, LandSend(i) \/ FailSend(i) PROVE SimulatorTypes'
  <2>1. simulator' = [simulator EXCEPT !.loading = FALSE] /\ sends' = RemoveAt(sends, i)
    BY <1>5 DEF LandSend, FailSend
  <2>2. sends' \in Seq(Sending)
    BY <2>1, RemoveAtKeeps DEF SimulatorTypes
  <2>3. QED
    BY <1>0, <2>1, <2>2 DEF SimulatorTypes
<1>6. CASE CreateStep
  BY <1>1, <1>6 DEF CreateStep, OpenCreate, SubmitCreate, CancelCreate, FinishCreate,
     LandCreate, FailCreate, ServeCreate
<1>7. CASE RotateStep
  BY <1>1, <1>7 DEF RotateStep, OpenRotate, SubmitRotate, CloseRotate, LandRotate, FailRotate,
     ServeRotate
<1>8. CASE SimulatorStep
  BY <1>2, <1>3, <1>4, <1>5, <1>8 DEF SimulatorStep
<1>9. QED
  BY <1>1, <1>6, <1>7, <1>8, WhoStepsWhere

-----------------------------------------------------------------------------
(* The first state. *)

(* The page opens on a server with applications and no dialog open.        *)
LEMMA InitCatalog ==
    ASSUME Init
    PROVE  CatalogInv
<1>1. PICK b \in Before : /\ registered = b.registered
                          /\ stored = [a \in Apps |-> IF a \in b.stored THEN 0 ELSE Nothing]
                          /\ trusted = b.stored
  BY DEF Init
<1>2. registered \in 0..MaxApps /\ trusted \subseteq 1..registered /\ MaxApps \in Nat /\ MaxKeys \in Nat
  BY <1>1, BeforeAssumption, RangesAssumption, KeysAssumption
<1>3. 0 \in 0..registered /\ 0 \in 0..MaxKeys
  BY <1>2
<1>4. ServerTypes
  <2>1. [blind |-> TRUE, read |-> FALSE, list |-> 0] \in Reload
    BY <1>3 DEF Reload
  <2>2. bases \in Seq(Reload)
    BY <2>1 DEF Init
  <2>3. QED
    BY <1>2, <1>3, <2>2 DEF Init, ServerTypes, NoApp
<1>5. CreateTypes
  <2>1. create = [open |-> FALSE, loading |-> FALSE, result |-> 0] /\ creations = <<>>
    BY DEF Init, NoApp
  <2>2. QED
    BY <1>3, <2>1 DEF CreateTypes
<1>6. RotateTypes
  <2>1. rotate = [open |-> FALSE, loading |-> FALSE, result |-> 0, app |-> 0] /\ rotations = <<>>
    BY DEF Init, NoApp
  <2>2. QED
    BY <1>3, <2>1 DEF RotateTypes
<1>7. KeyTypes
  <2>1. 0 \in KeyOrNothing /\ Nothing \in KeyOrNothing
    BY <1>2 DEF KeyOrNothing, WrongKey
  <2>2. QED
    BY <1>1, <1>3, <2>1 DEF Init, KeyTypes
<1>8. QED
  BY <1>4, <1>5, <1>6, <1>7 DEF CatalogInv

(* Nothing is selected and nothing is shown.                               *)
LEMMA InitFigures ==
    ASSUME Init
    PROVE  FigureInv
<1>1. Current \in Asked
  BY RangesAssumption, CurrentFields DEF Init
<1>2. FigureTypes
  <2>1. loads = <<>> /\ arrived = {} /\ metrics = Nothing /\ recentEvents = Nothing /\ timers = {Current}
    BY DEF Init
  <2>2. loading = FALSE /\ error = FALSE /\ astray = FALSE
    BY DEF Init
  <2>3. loads \in Seq(Request) /\ arrived \subseteq Apps
    BY <2>1
  <2>4. loading \in BOOLEAN /\ error \in BOOLEAN /\ astray \in BOOLEAN
    BY <2>2
  <2>5. QED
    BY <1>1, <2>1, <2>3, <2>4, Zenon DEF FigureTypes
<1>3. SimulatorTypes
  <2>1. simulator = [open |-> FALSE, loading |-> FALSE] /\ sends = <<>>
    BY DEF Init
  <2>2. simulator.open = FALSE /\ simulator \in [open : BOOLEAN, loading : BOOLEAN]
    BY <2>1
  <2>3. QED
    BY <2>1, <2>2 DEF SimulatorTypes
<1>4. SomethingToShow
  BY DEF Init, SomethingToShow, NewestFollows
<1>5. QED
  BY <1>2, <1>3, <1>4 DEF FigureInv

-----------------------------------------------------------------------------
(* The theorems about what is shown. *)

(* The invariants of the catalog and of the figures hold together.         *)
LEMMA ScreenInvariance == Spec => [](CatalogInv /\ FigureInv)
<1>1. Init => CatalogInv /\ FigureInv
  BY InitCatalog, InitFigures
<1>2. CatalogInv /\ FigureInv /\ [Next]_vars => (CatalogInv /\ FigureInv)'
  BY NextCatalog, NextSimulator, NextFigures DEF FigureInv
<1>3. QED
  BY <1>1, <1>2, PTL DEF Spec

(* The variables of the dashboard are well typed, exactly one interval runs *)
(* and it asks what is selected now, and dialogs and requests only name     *)
(* applications the server has (App, useAnalytics and the three modals).    *)
THEOREM ScreenTypeCorrect == Spec => []TypeOK
<1>1. CatalogInv /\ FigureInv => TypeOK
  <2> SUFFICES ASSUME CatalogInv, FigureInv PROVE TypeOK
    OBVIOUS
  <2>1. \A i \in DOMAIN loads : loads[i].asks \in Asked /\ loads[i].keyed \in BOOLEAN
    <3>1. \A i \in DOMAIN loads : loads[i] \in Request
      BY DEF FigureInv, FigureTypes
    <3>2. QED
      BY <3>1 DEF Request
  <2>2. \A a \in Apps : keyOf[a] \in 0..MaxKeys /\ stored[a] \in (WrongKey..MaxKeys) \cup {Nothing}
    BY DEF CatalogInv, KeyTypes, KeyOrNothing
  <2>3. create.result \in 0..registered /\ rotate.result \in 0..registered
    BY DEF CatalogInv, CreateTypes, RotateTypes
  <2>4. QED
    BY <2>1, <2>2, <2>3 DEF TypeOK, CatalogInv, ServerTypes, FigureInv, FigureTypes
<1>2. QED
  BY <1>1, ScreenInvariance, PTL

(* What OverviewView shows of a selected application is an answer, the      *)
(* empty screen one without rows, and with no load in flight the answer to  *)
(* what is selected, unless the newest load was overtaken or asked for an   *)
(* earlier selection (useAnalytics).                                        *)
THEOREM ScreensShowAnswers == Spec => []ScreensAreAnswers
<1>1. FigureInv => ScreensAreAnswers
  BY DEF FigureInv, SomethingToShow, NewestFollows, ScreensAreAnswers, Overview
<1>2. QED
  BY <1>1, ScreenInvariance, PTL

-----------------------------------------------------------------------------
(* The keys. *)

(* A rotation in flight was sent with the key that was stored, and answers *)
(* with the valid key while the browser is trusted to know it.             *)
RotationsKnow ==
    \A r \in ToSet(rotations) :
        /\ r.key # Nothing => stored[r.app] # Nothing
        /\ r.issued # Nothing => r.key \in 0..MaxKeys
        /\ r.issued # Nothing /\ r.app \in trusted => r.issued = keyOf[r.app]

(* Nobody has the key of an application whose creation is unanswered.      *)
CreationsAreSecret ==
    \A c \in ToSet(creations) : c.made # NoApp =>
        /\ c.made \notin trusted
        /\ keyOf[c.made] = FirstKey /\ stored[c.made] \in {Nothing, WrongKey}
        /\ \A r \in ToSet(rotations) : r.app = c.made => r.key \in {Nothing, WrongKey}

(* What is not registered has no key.                                      *)
NewAppsAreNew == \A a \in Apps : a > registered => stored[a] = Nothing /\ keyOf[a] = FirstKey

(* KeysAreKept, with the rotations as a set.                               *)
TrustedKeysAreKept ==
    \A a \in trusted :
        Opens(a) \/ \E r \in ToSet(rotations) : r.app = a /\ r.issued = keyOf[a]

KeysInv == TrustedKeysAreKept /\ RotationsKnow /\ CreationsAreSecret /\ NewAppsAreNew

(* What is in flight, as a set of well formed requests.                    *)
LEMMA InFlight ==
    ASSUME CatalogInv
    PROVE  /\ ToSet(rotations) \subseteq Rotation /\ ToSet(creations) \subseteq Creation
           /\ \A i \in DOMAIN rotations : rotations[i] \in ToSet(rotations)
           /\ \A i \in DOMAIN creations : creations[i] \in ToSet(creations)
  BY ElementsAreValues DEF CatalogInv, RotateTypes, CreateTypes, ToSet

(* The one request of a dialog ends.                                       *)
LEMMA NoneLeft ==
    ASSUME NEW s, AtMostOne(s), NEW i \in DOMAIN s
    PROVE  ToSet(RemoveAt(s, i)) = {} /\ ToSet(s) = {s[i]}
<1>1. RemoveAt(s, i) = <<>>
  BY Ended
<1>2. s = <<s[1]>> /\ i = 1
  BY DEF AtMostOne
<1>3. \A x : ToSet(<<x>>) = {x}
  BY DEF ToSet
<1>4. QED
  BY <1>1, <1>2, <1>3, ElementsOfEmpty

(* The one request of a dialog is served.                                  *)
LEMMA OneServed ==
    ASSUME NEW s, AtMostOne(s), NEW i \in DOMAIN s, NEW x
    PROVE  ToSet([s EXCEPT ![i] = x]) = {x}
<1>1. s = <<s[1]>> /\ i = 1
  BY DEF AtMostOne
<1>2. [s EXCEPT ![i] = x] = <<x>>
  BY <1>1
<1>3. QED
  BY <1>2 DEF ToSet

(* The one request of a dialog starts.                                     *)
LEMMA OneStarted ==
    ASSUME NEW x
    PROVE  ToSet(Append(<<>>, x)) = {x}
<1>1. Append(<<>>, x) = <<x>>
  OBVIOUS
<1>2. QED
  BY <1>1 DEF ToSet

(* Keys are numbers, and Nothing is none.                                  *)
LEMMA KeysDiffer ==
    ASSUME CatalogInv
    PROVE  /\ WrongKey # Nothing /\ FirstKey # Nothing /\ WrongKey # FirstKey
           /\ WrongKey \notin 0..MaxKeys /\ Nothing \notin 0..MaxKeys
           /\ \A a \in Apps : keyOf[a] \in 0..MaxKeys /\ keyOf[a] # Nothing /\ keyOf[a] # WrongKey
           /\ trusted \subseteq Apps /\ 1..registered \subseteq Apps
  BY KeysAssumption, RangesAssumption
     DEF CatalogInv, KeyTypes, ServerTypes, WrongKey, FirstKey, Apps

(* A step that leaves the keys and their requests alone.                   *)
LEMMA KeysUntouched ==
    ASSUME KeysInv, UNCHANGED <<registered, creations, rotations, stored, keyOf, trusted>>
    PROVE  KeysInv'
  BY DEF KeysInv, TrustedKeysAreKept, RotationsKnow, CreationsAreSecret, NewAppsAreNew, Opens

(* CreateAppModal and the creation on the server.                          *)
LEMMA CreateKeepsKeys ==
    ASSUME CatalogInv, DialogsInv, KeysInv, CreateStep
    PROVE  KeysInv'
<1>0. AtMostOne(creations)
  BY DEF DialogsInv, Waits
<1>1. CASE OpenCreate \/ CancelCreate \/ FinishCreate
  <2>1. UNCHANGED <<catalog, creations, rotating, stored, keyOf, trusted>>
    BY <1>1 DEF OpenCreate, CancelCreate, FinishCreate, analytics
  <2>2. QED
    BY <2>1, KeysUntouched DEF catalog, rotating
<1>2. CASE SubmitCreate
  <2>1. UNCHANGED <<registered, rotations, stored, keyOf, trusted>>
    BY <1>2 DEF SubmitCreate, analytics, catalog, rotating
  <2>2. creations = <<>>
    BY <1>2 DEF SubmitCreate, DialogsInv, Waits
  <2>3. \A c \in ToSet(creations') : c.made = NoApp
    <3>1. PICK c : c = [blind |-> Blind, made |-> NoApp]
      OBVIOUS
    <3>2. creations' = Append(<<>>, c) /\ c.made = NoApp
      BY <1>2, <2>2, <3>1 DEF SubmitCreate
    <3>3. QED
      BY <3>2, OneStarted
  <2>4. QED
    BY <2>1, <2>3 DEF KeysInv, TrustedKeysAreKept, RotationsKnow, CreationsAreSecret, NewAppsAreNew, Opens
<1>3. ASSUME NEW i \in DOMAIN creations, FailCreate(i) PROVE KeysInv'
  <2>1. UNCHANGED <<registered, rotations, stored, keyOf, trusted>>
    BY <1>3 DEF FailCreate, analytics, catalog, rotating
  <2>2. ToSet(creations') = {}
    BY <1>0, <1>3, NoneLeft DEF FailCreate
  <2>3. QED
    BY <2>1, <2>2 DEF KeysInv, TrustedKeysAreKept, RotationsKnow, CreationsAreSecret, NewAppsAreNew, Opens
<1>4. ASSUME NEW i \in DOMAIN creations, ServeCreate(i) PROVE KeysInv'
  <2>1. UNCHANGED <<rotations, stored, keyOf, trusted>>
    BY <1>4 DEF ServeCreate, analytics, rotating
  <2>2. registered' = registered + 1 /\ registered \in Nat /\ registered' \in Apps
    BY <1>4, RangesAssumption DEF ServeCreate, Apps, CatalogInv, ServerTypes
  <2>3. PICK c : c = [creations[i] EXCEPT !.made = registered'] /\ creations' = [creations EXCEPT ![i] = c]
    BY <1>4 DEF ServeCreate
  <2>4. ToSet(creations') = {c} /\ c.made = registered'
    <3>1. creations[i] \in Creation
      BY InFlight
    <3>2. QED
      BY <1>0, <2>3, <3>1, OneServed DEF Creation
  <2>5. /\ registered' \notin trusted
        /\ \A r \in ToSet(rotations) : r.app # registered'
    <3>1. \A a \in 1..registered : a # registered'
      BY <2>2
    <3>2. \A r \in ToSet(rotations) : r.app \in 1..registered
      BY InFlight DEF Rotation
    <3>3. QED
      BY <3>1, <3>2 DEF CatalogInv, ServerTypes
  <2>6. keyOf[registered'] = FirstKey /\ stored[registered'] = Nothing
    BY <2>2 DEF KeysInv, NewAppsAreNew
  <2>7. CreationsAreSecret'
    BY <2>1, <2>4, <2>5, <2>6 DEF CreationsAreSecret
  <2>8. NewAppsAreNew'
    BY <2>1, <2>2 DEF KeysInv, NewAppsAreNew, Apps
  <2>9. QED
    BY <2>1, <2>7, <2>8 DEF KeysInv, TrustedKeysAreKept, RotationsKnow, Opens
<1>5. ASSUME NEW i \in DOMAIN creations, LandCreate(i) PROVE KeysInv'
  <2>1. PICK c \in Creation : c = creations[i] /\ c \in ToSet(creations)
    BY InFlight
  <2>2. PICK app : app = c.made
    OBVIOUS
  <2>3. app # NoApp /\ app \in 1..registered /\ app \in Apps
    BY <1>5, <2>1, <2>2, Counts DEF LandCreate, Creation, CatalogInv, NoApp
  <2>4. /\ stored' = [stored EXCEPT ![app] = FirstKey] /\ trusted' = trusted \cup {app}
        /\ UNCHANGED <<registered, rotations, keyOf>>
    BY <1>5, <2>1, <2>2 DEF LandCreate, LoadBaseData, rotating
  <2>5. ToSet(creations') = {}
    BY <1>0, <1>5, NoneLeft DEF LandCreate
  <2>6. keyOf[app] = FirstKey /\ \A r \in ToSet(rotations) : r.app = app => r.key \in {Nothing, WrongKey}
    BY <2>1, <2>2, <2>3 DEF KeysInv, CreationsAreSecret
  <2>7. stored'[app] = FirstKey /\ \A a \in Apps : a # app => stored'[a] = stored[a]
    BY <2>3, <2>4 DEF CatalogInv, KeyTypes
  <2>8. TrustedKeysAreKept'
    BY <2>3, <2>4, <2>6, <2>7, KeysDiffer DEF KeysInv, TrustedKeysAreKept, Opens
  <2>9. RotationsKnow'
    <3>1. ASSUME NEW r \in ToSet(rotations)
          PROVE  /\ r.key # Nothing => stored'[r.app] # Nothing
                 /\ r.issued # Nothing => r.key \in 0..MaxKeys
                 /\ r.issued # Nothing /\ r.app \in trusted' => r.issued = keyOf[r.app]
      <4>1. r.app \in Apps
        BY InFlight, KeysDiffer DEF Rotation
      <4>2. CASE r.app = app
        BY <2>6, <2>7, <4>2, KeysDiffer DEF KeysInv, RotationsKnow
      <4>3. CASE r.app # app
        BY <2>4, <2>7, <4>1, <4>3 DEF KeysInv, RotationsKnow
      <4>4. QED
        BY <4>2, <4>3
    <3>2. QED
      BY <2>4, <3>1 DEF RotationsKnow
  <2>10. NewAppsAreNew'
    <3>1. ASSUME NEW a \in Apps, a > registered PROVE stored'[a] = Nothing /\ keyOf[a] = FirstKey
      <4>1. a # app
        BY <2>3, <3>1, Counts DEF CatalogInv, Apps
      <4>2. QED
        BY <2>7, <3>1, <4>1 DEF KeysInv, NewAppsAreNew
    <3>2. QED
      BY <2>4, <3>1 DEF NewAppsAreNew
  <2>11. QED
    BY <2>5, <2>8, <2>9, <2>10 DEF KeysInv, CreationsAreSecret
<1>6. QED
  BY <1>1, <1>2, <1>3, <1>4, <1>5 DEF CreateStep

(* RotateKeyModal and the rotation on the server.                          *)
LEMMA RotateKeepsKeys ==
    ASSUME CatalogInv, DialogsInv, KeysInv, RotateStep
    PROVE  KeysInv'
<1>0. AtMostOne(rotations)
  BY DEF DialogsInv, Waits
<1>1. CASE OpenRotate \/ CloseRotate
  <2>1. UNCHANGED <<catalog, creating, rotations, stored, keyOf, trusted>>
    BY <1>1 DEF OpenRotate, CloseRotate, analytics
  <2>2. QED
    BY <2>1, KeysUntouched DEF catalog, creating
<1>2. CASE SubmitRotate
  <2>1. UNCHANGED <<registered, creations, stored, keyOf, trusted>>
    BY <1>2 DEF SubmitRotate, analytics, catalog, creating
  <2>2. rotations = <<>>
    BY <1>2 DEF SubmitRotate, DialogsInv, Waits
  <2>3. PICK r : r = [app |-> rotate.app, blind |-> Blind, key |-> stored[rotate.app], issued |-> Nothing]
    OBVIOUS
  <2>4. ToSet(rotations') = {r}
    BY <1>2, <2>2, <2>3, OneStarted DEF SubmitRotate
  <2>5. r.key = stored[r.app] /\ r.issued = Nothing
    BY <2>3
  <2>6. TrustedKeysAreKept'
    BY <2>1, <2>2, ElementsOfEmpty DEF KeysInv, TrustedKeysAreKept, Opens
  <2>7. RotationsKnow'
    BY <2>1, <2>4, <2>5 DEF RotationsKnow
  <2>8. CreationsAreSecret'
    BY <2>1, <2>4, <2>5 DEF KeysInv, CreationsAreSecret
  <2>9. QED
    BY <2>1, <2>6, <2>7, <2>8 DEF KeysInv, NewAppsAreNew
<1>3. ASSUME NEW i \in DOMAIN rotations, FailRotate(i) PROVE KeysInv'
  <2>1. PICK r \in Rotation : r = rotations[i] /\ ToSet(rotations) = {r}
    BY <1>0, InFlight, NoneLeft
  <2>2. /\ UNCHANGED <<registered, creations, stored, keyOf>>
        /\ trusted' = IF r.issued = Nothing THEN trusted ELSE trusted \ {r.app}
    BY <1>3, <2>1 DEF FailRotate, analytics, catalog, creating
  <2>3. ToSet(rotations') = {}
    BY <1>0, <1>3, NoneLeft DEF FailRotate
  <2>4. TrustedKeysAreKept'
    <3>1. ASSUME NEW a \in trusted' PROVE Opens(a)
      <4>1. a \in trusted /\ a \in Apps /\ keyOf[a] # Nothing
        BY <2>2, KeysDiffer
      <4>2. r.app = a => r.issued = Nothing
        BY <2>2
      <4>3. QED
        BY <2>1, <4>1, <4>2 DEF KeysInv, TrustedKeysAreKept
    <3>2. QED
      BY <2>2, <3>1 DEF TrustedKeysAreKept, Opens
  <2>5. CreationsAreSecret'
    BY <2>2, <2>3 DEF KeysInv, CreationsAreSecret
  <2>6. QED
    BY <2>2, <2>3, <2>4, <2>5 DEF KeysInv, RotationsKnow, NewAppsAreNew
<1>4. ASSUME NEW i \in DOMAIN rotations, LandRotate(i) PROVE KeysInv'
  <2>1. PICK r \in Rotation : r = rotations[i] /\ ToSet(rotations) = {r}
    BY <1>0, InFlight, NoneLeft
  <2>2. /\ UNCHANGED <<registered, creations, keyOf, trusted>>
        /\ stored' = [stored EXCEPT ![r.app] = r.issued] /\ r.issued # Nothing
    BY <1>4, <2>1 DEF LandRotate, LoadBaseData, creating
  <2>3. ToSet(rotations') = {}
    BY <1>0, <1>4, NoneLeft DEF LandRotate
  <2>4. r.app \in 1..registered /\ r.app \in Apps
    BY KeysDiffer DEF Rotation
  <2>5. r.key \in 0..MaxKeys /\ (r.app \in trusted => r.issued = keyOf[r.app])
    BY <2>1, <2>2 DEF KeysInv, RotationsKnow
  <2>6. stored'[r.app] = r.issued /\ \A a \in Apps : a # r.app => stored'[a] = stored[a]
    BY <2>2, <2>4 DEF CatalogInv, KeyTypes
  <2>7. TrustedKeysAreKept'
    <3>1. ASSUME NEW a \in trusted PROVE stored'[a] = keyOf[a]
      <4>1. a \in Apps
        BY KeysDiffer
      <4>2. CASE a = r.app
        BY <2>5, <2>6, <4>2
      <4>3. CASE a # r.app
        BY <2>1, <2>6, <4>1, <4>3 DEF KeysInv, TrustedKeysAreKept, Opens
      <4>4. QED
        BY <4>2, <4>3
    <3>2. QED
      BY <2>2, <3>1 DEF TrustedKeysAreKept, Opens
  <2>8. CreationsAreSecret'
    <3>1. ASSUME NEW c \in ToSet(creations), c.made # NoApp
          PROVE  /\ c.made \notin trusted
                 /\ keyOf[c.made] = FirstKey /\ stored'[c.made] \in {Nothing, WrongKey}
      <4>1. /\ c.made \notin trusted /\ keyOf[c.made] = FirstKey /\ stored[c.made] \in {Nothing, WrongKey}
            /\ r.app = c.made => r.key \in {Nothing, WrongKey}
        BY <2>1, <3>1 DEF KeysInv, CreationsAreSecret
      <4>2. c.made # r.app
        BY <2>5, <4>1, KeysDiffer
      <4>3. c.made \in Apps
        BY <3>1, InFlight, Counts DEF Creation, CatalogInv, NoApp
      <4>4. QED
        BY <2>6, <4>1, <4>2, <4>3
    <3>2. QED
      BY <2>2, <2>3, <3>1 DEF CreationsAreSecret
  <2>9. NewAppsAreNew'
    <3>1. ASSUME NEW a \in Apps, a > registered PROVE stored'[a] = Nothing /\ keyOf[a] = FirstKey
      <4>1. a # r.app
        BY <2>4, <3>1, Counts DEF CatalogInv, Apps
      <4>2. QED
        BY <2>6, <3>1, <4>1 DEF KeysInv, NewAppsAreNew
    <3>2. QED
      BY <2>2, <3>1 DEF NewAppsAreNew
  <2>10. QED
    BY <2>3, <2>7, <2>8, <2>9 DEF KeysInv, RotationsKnow
<1>5. ASSUME NEW i \in DOMAIN rotations, ServeRotate(i) PROVE KeysInv'
  <2>1. PICK r \in Rotation : r = rotations[i] /\ ToSet(rotations) = {r}
    BY <1>0, InFlight, NoneLeft
  <2>2. r.app \in 1..registered /\ r.app \in Apps
    BY KeysDiffer DEF Rotation
  <2>3. /\ UNCHANGED <<registered, creations, stored>>
        /\ r.issued = Nothing /\ r.key = keyOf[r.app]
    BY <1>5, <2>1 DEF ServeRotate, catalog, creating
  <2>4. r.key \in 0..MaxKeys /\ r.key # Nothing /\ stored[r.app] # Nothing
    BY <2>1, <2>2, <2>3, KeysDiffer DEF KeysInv, RotationsKnow
  <2>5. \A a \in trusted : stored[a] = keyOf[a]
    BY <2>1, <2>3, KeysDiffer DEF KeysInv, TrustedKeysAreKept, Opens
  <2>6. PICK key : /\ rotations' = [rotations EXCEPT ![i].issued = key]
                   /\ keyOf' \in [Apps -> 0..MaxKeys]
                   /\ \A a \in Apps : a # r.app => keyOf'[a] = keyOf[a]
                   /\ trusted' \subseteq trusted
                   /\ r.app \in trusted' => key = keyOf'[r.app]
    <3>1. CASE /\ keyOf[r.app] < MaxKeys /\ keyOf' = [keyOf EXCEPT ![r.app] = @ + 1]
               /\ rotations' = [rotations EXCEPT ![i].issued = keyOf'[r.app]] /\ trusted' = trusted
      <4>1. keyOf' \in [Apps -> 0..MaxKeys] /\ \A a \in Apps : a # r.app => keyOf'[a] = keyOf[a]
        BY <2>2, <3>1, KeysAssumption DEF CatalogInv, KeyTypes
      <4>2. QED
        BY <3>1, <4>1
    <3>2. CASE /\ rotations' = [rotations EXCEPT ![i].issued = WrongKey]
               /\ trusted' = trusted \ {r.app} /\ keyOf' = keyOf
      BY <3>2 DEF CatalogInv, KeyTypes
    <3>3. QED
      BY <1>5, <2>1, <3>1, <3>2 DEF ServeRotate
  <2>7. PICK served : served = [r EXCEPT !.issued = key] /\ rotations' = [rotations EXCEPT ![i] = served]
    BY <2>1, <2>6
  <2>8. ToSet(rotations') = {served}
    BY <1>0, <2>7, OneServed
  <2>9. served.app = r.app /\ served.key = r.key /\ served.issued = key
    BY <2>7 DEF Rotation
  <2>10. TrustedKeysAreKept'
    <3>1. ASSUME NEW a \in trusted'
          PROVE  stored[a] = keyOf'[a] \/ (served.app = a /\ served.issued = keyOf'[a])
      <4>1. a \in trusted /\ a \in Apps
        BY <2>6, KeysDiffer
      <4>2. CASE a = r.app
        BY <2>6, <2>9, <4>2
      <4>3. CASE a # r.app
        BY <2>5, <2>6, <4>1, <4>3
      <4>4. QED
        BY <4>2, <4>3
    <3>2. QED
      BY <2>3, <2>8, <3>1 DEF TrustedKeysAreKept, Opens
  <2>11. RotationsKnow'
    BY <2>3, <2>4, <2>6, <2>8, <2>9 DEF RotationsKnow
  <2>12. CreationsAreSecret'
    <3>1. ASSUME NEW c \in ToSet(creations), c.made # NoApp
          PROVE  /\ c.made \notin trusted'
                 /\ keyOf'[c.made] = FirstKey /\ stored[c.made] \in {Nothing, WrongKey}
                 /\ served.app # c.made
      <4>1. /\ c.made \notin trusted /\ keyOf[c.made] = FirstKey /\ stored[c.made] \in {Nothing, WrongKey}
            /\ r.app = c.made => r.key \in {Nothing, WrongKey}
        BY <2>1, <3>1 DEF KeysInv, CreationsAreSecret
      <4>2. c.made # r.app
        BY <2>4, <4>1, KeysDiffer
      <4>3. c.made \in Apps
        BY <3>1, InFlight, Counts DEF Creation, CatalogInv, NoApp
      <4>4. QED
        BY <2>6, <2>9, <4>1, <4>2, <4>3
    <3>2. QED
      BY <2>3, <2>8, <3>1 DEF CreationsAreSecret
  <2>13. NewAppsAreNew'
    <3>1. ASSUME NEW a \in Apps, a > registered PROVE stored[a] = Nothing /\ keyOf'[a] = FirstKey
      <4>1. a # r.app
        BY <2>2, <3>1, Counts DEF CatalogInv, Apps
      <4>2. QED
        BY <2>6, <3>1, <4>1 DEF KeysInv, NewAppsAreNew
    <3>2. QED
      BY <2>3, <3>1 DEF NewAppsAreNew
  <2>14. QED
    BY <2>10, <2>11, <2>12, <2>13 DEF KeysInv
<1>6. QED
  BY <1>1, <1>2, <1>3, <1>4, <1>5 DEF RotateStep

(* The form of OverviewView stores a key where there was none.             *)
LEMMA SavingKeepsKeys ==
    ASSUME CatalogInv, KeysInv, SaveKey
    PROVE  KeysInv'
<1>1. PICK app : app = selectedApp
  OBVIOUS
<1>2. app \in 1..registered /\ app \in Apps /\ stored[app] = Nothing
  BY <1>1, SavedKeys DEF SaveKey, Overview
<1>3. PICK key \in {keyOf[app], WrongKey} :
         /\ \A i \in DOMAIN creations : creations[i].made = app => key = WrongKey
         /\ stored' = [stored EXCEPT ![app] = key]
         /\ trusted' = IF key = WrongKey THEN trusted ELSE trusted \cup {app}
  BY <1>1 DEF SaveKey
<1>4. UNCHANGED <<registered, creations, rotations, keyOf>>
  BY DEF SaveKey, catalog, creating, rotating
<1>5. key # Nothing /\ stored'[app] = key /\ \A a \in Apps : a # app => stored'[a] = stored[a]
  BY <1>2, <1>3, KeysDiffer DEF CatalogInv, KeyTypes
<1>6. \A r \in ToSet(rotations) : r.app = app => r.key = Nothing /\ r.issued = Nothing
  BY <1>2, KeysDiffer DEF KeysInv, RotationsKnow
<1>7. app \notin trusted
  BY <1>2, <1>6, KeysDiffer DEF KeysInv, TrustedKeysAreKept, Opens
<1>8. TrustedKeysAreKept'
  <2>1. ASSUME NEW a \in trusted'
        PROVE  stored'[a] = keyOf[a] \/ \E r \in ToSet(rotations) : r.app = a /\ r.issued = keyOf[a]
    <3>1. CASE a = app
      BY <1>3, <1>5, <1>7, <2>1, <3>1
    <3>2. CASE a # app
      <4>1. a \in trusted /\ a \in Apps
        BY <1>3, <3>2, KeysDiffer
      <4>2. QED
        BY <1>5, <3>2, <4>1 DEF KeysInv, TrustedKeysAreKept, Opens
    <3>3. QED
      BY <3>1, <3>2
  <2>2. QED
    BY <1>4, <2>1 DEF TrustedKeysAreKept, Opens
<1>9. RotationsKnow'
  <2>1. ASSUME NEW r \in ToSet(rotations)
        PROVE  /\ r.key # Nothing => stored'[r.app] # Nothing
               /\ r.issued # Nothing => r.key \in 0..MaxKeys
               /\ r.issued # Nothing /\ r.app \in trusted' => r.issued = keyOf[r.app]
    <3>1. r.app \in Apps
      BY InFlight, KeysDiffer DEF Rotation
    <3>2. CASE r.app = app
      BY <1>6, <3>2
    <3>3. CASE r.app # app
      BY <1>3, <1>5, <3>1, <3>3 DEF KeysInv, RotationsKnow
    <3>4. QED
      BY <3>2, <3>3
  <2>2. QED
    BY <1>4, <2>1 DEF RotationsKnow
<1>10. CreationsAreSecret'
  <2>1. ASSUME NEW c \in ToSet(creations), c.made # NoApp
        PROVE  /\ c.made \notin trusted'
               /\ keyOf[c.made] = FirstKey /\ stored'[c.made] \in {Nothing, WrongKey}
    <3>1. c.made \notin trusted /\ keyOf[c.made] = FirstKey /\ stored[c.made] \in {Nothing, WrongKey}
      BY <2>1 DEF KeysInv, CreationsAreSecret
    <3>2. c.made \in Apps
      BY <2>1, InFlight, Counts DEF Creation, CatalogInv, NoApp
    <3>3. CASE c.made = app
      <4>1. key = WrongKey
        BY <1>3, <3>3 DEF ToSet
      <4>2. QED
        BY <1>3, <1>5, <3>1, <3>3, <4>1
    <3>4. CASE c.made # app
      BY <1>3, <1>5, <3>1, <3>2, <3>4
    <3>5. QED
      BY <3>3, <3>4
  <2>2. QED
    BY <1>4, <2>1 DEF KeysInv, CreationsAreSecret
<1>11. NewAppsAreNew'
  <2>1. ASSUME NEW a \in Apps, a > registered PROVE stored'[a] = Nothing /\ keyOf[a] = FirstKey
    <3>1. a # app
      BY <1>2, <2>1, Counts DEF CatalogInv, Apps
    <3>2. QED
      BY <1>5, <2>1, <3>1 DEF KeysInv, NewAppsAreNew
  <2>2. QED
    BY <1>4, <2>1 DEF NewAppsAreNew
<1>12. QED
  BY <1>8, <1>9, <1>10, <1>11 DEF KeysInv

(* Every step keeps the keys.                                              *)
LEMMA NextKeys ==
    ASSUME CatalogInv, DialogsInv, KeysInv, [Next]_vars
    PROVE  KeysInv'
<1>1. CASE ListStep \/ SimulatorStep \/ ViewStep \/ ChooseApp \/ Retry \/ UNCHANGED <<analytics, workspace>>
  <2>1. UNCHANGED <<creating, rotating, stored, keyOf, trusted>>
    <3>1. CASE ListStep
      BY <3>1 DEF ListStep, ServeList, LandList, analytics
    <3>2. CASE SimulatorStep
      BY <3>2 DEF SimulatorStep, OpenSimulator, Send, CloseSimulator, LandSend, FailSend, analytics
    <3>3. CASE ViewStep
      BY <3>3 DEF ViewStep, workspace, PickRange, ToggleCompare, Poll, Land, Settle, EventArrives
    <3>4. CASE ChooseApp \/ Retry \/ UNCHANGED <<analytics, workspace>>
      BY <3>4 DEF ChooseApp, Retry, workspace, analytics
    <3>5. QED
      BY <1>1, <3>1, <3>2, <3>3, <3>4
  <2>2. registered' = registered
    <3>1. CASE ListStep
      BY <3>1 DEF ListStep, ServeList, LandList
    <3>2. CASE SimulatorStep
      BY <3>2 DEF SimulatorStep, OpenSimulator, Send, CloseSimulator, LandSend, FailSend,
         LoadBaseData, catalog
    <3>3. CASE ViewStep \/ ChooseApp \/ Retry \/ UNCHANGED <<analytics, workspace>>
      BY <3>3 DEF ViewStep, ChooseApp, Retry, workspace, catalog
    <3>4. QED
      BY <1>1, <3>1, <3>2, <3>3
  <2>3. QED
    BY <2>1, <2>2, KeysUntouched DEF creating, rotating
<1>2. QED
  BY <1>1, EveryStep, CreateKeepsKeys, RotateKeepsKeys, SavingKeepsKeys

(* What the page opens with: nobody is trusted with a key that is not stored. *)
LEMMA InitKeys ==
    ASSUME Init
    PROVE  KeysInv
<1>1. PICK b \in Before : /\ registered = b.registered
                          /\ stored = [a \in Apps |-> IF a \in b.stored THEN 0 ELSE Nothing]
                          /\ trusted = b.stored
  BY DEF Init
<1>2. keyOf = [a \in Apps |-> 0] /\ rotations = <<>> /\ creations = <<>>
  BY DEF Init
<1>3. ToSet(rotations) = {} /\ ToSet(creations) = {}
  BY <1>2, ElementsOfEmpty
<1>4. TrustedKeysAreKept
  <2>1. trusted \subseteq Apps
    BY InitCatalog, KeysDiffer
  <2>2. QED
    BY <1>1, <1>2, <2>1 DEF TrustedKeysAreKept, Opens
<1>5. NewAppsAreNew
  <2>1. \A a \in Apps : a > registered => a \notin b.stored
    BY <1>1, BeforeAssumption, RangesAssumption DEF Apps
  <2>2. QED
    BY <1>1, <1>2, <2>1 DEF NewAppsAreNew, FirstKey
<1>6. QED
  BY <1>3, <1>4, <1>5 DEF KeysInv, RotationsKnow, CreationsAreSecret

-----------------------------------------------------------------------------
(* The theorem about keys. *)

(* A valid key this browser was handed and not lost is in localStorage under *)
(* the application it opens, or its rotation has not been answered yet,     *)
(* whatever dialog is closed, reopened or abandoned meanwhile (rotateApiKey, *)
(* createApplication, handleSubmit of the modals).                          *)
THEOREM KeysReachTheirPlace == Spec => []KeysAreKept
<1>1. Init => CatalogInv /\ FigureInv /\ DialogsInv /\ KeysInv
  <2>1. Init => DialogsInv
    BY DEF Init, DialogsInv, Waits, AtMostOne
  <2>2. QED
    BY <2>1, InitCatalog, InitFigures, InitKeys
<1>2. CatalogInv /\ FigureInv /\ DialogsInv /\ KeysInv /\ [Next]_vars
        => (CatalogInv /\ FigureInv /\ DialogsInv /\ KeysInv)'
  BY NextCatalog, NextSimulator, NextFigures, NextDialogs, NextKeys DEF FigureInv
<1>3. KeysInv => KeysAreKept
  BY DEF KeysInv, TrustedKeysAreKept, KeysAreKept, ToSet
<1>4. QED
  BY <1>1, <1>2, <1>3, PTL DEF Spec

=============================================================================
