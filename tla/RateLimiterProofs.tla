-------------------------- MODULE RateLimiterProofs --------------------------
(***************************************************************************)
(* Theorems about RateLimiter for any finite number of calls, any limit,   *)
(* window and slack, and any delay of a call.                              *)
(***************************************************************************)
EXTENDS RateLimiter, FiniteSetTheorems, TLAPS

InTime(w)   == {c \in InWindow(w) \ late : state[c] = "admitted"}
Hits(w)     == InWindow(w) \cap counted

(* The counter of the window cannot have expired. *)
Lasts(w) == now < (w + 1) * Window + Slack

(* Nobody read a clock of the future. *)
ClocksInv == \A c \in Calls : read[c] <= now

(* A counter outlives its window by the slack, and until then it counts at *)
(* least the calls that were admitted in time.                             *)
CountersInv ==
    \A w \in Windows :
        /\ count[w] > 0 => dies[w] >= (w + 1) * Window + Slack
        /\ Lasts(w) => Cardinality(InTime(w)) <= count[w]

(* A counter counts calls, each once. *)
HitsInv ==
    /\ \A c \in Calls : state[c] \in {"new", "counting"} => c \notin counted
    /\ \A w \in Windows : count[w] <= Cardinality(Hits(w))

Inv ==
    /\ TypeOK /\ ClocksInv /\ CountersInv /\ HitsInv
    /\ LimitPerWindow /\ RefusedOnlyWhenFull

-----------------------------------------------------------------------------
(* Facts about windows and sets of calls. *)

(* An instant lies inside its window. *)
LEMMA WindowHolds ==
    ASSUME NEW t \in Nat
    PROVE  /\ WindowOf(t) \in Nat
           /\ WindowOf(t) * Window <= t /\ t < (WindowOf(t) + 1) * Window
  BY LimiterAssumption, Z3 DEF WindowOf

(* The windows of the model are those of its instants. *)
LEMMA WindowsOfInstants ==
    ASSUME NEW t \in 0..MaxTime
    PROVE  WindowOf(t) \in Windows
<1>1. MaxTime \in Nat /\ Window \in Nat \ {0} /\ t \in Nat
  BY LimiterAssumption
<1>2. WindowOf(t) * Window <= t /\ t <= MaxTime
  BY <1>1, WindowHolds
<1>3. MaxTime < (WindowOf(MaxTime) + 1) * Window
  BY <1>1, WindowHolds
<1>4. WindowOf(t) \in Nat /\ WindowOf(MaxTime) \in Nat
  BY <1>1, WindowHolds
<1>5. WindowOf(t) <= WindowOf(MaxTime)
  <2> SUFFICES ASSUME WindowOf(MaxTime) < WindowOf(t) PROVE FALSE
    BY <1>4
  <2>1. WindowOf(MaxTime) + 1 <= WindowOf(t)
    BY <1>4
  <2> DEFINE v == WindowOf(MaxTime)
             u == WindowOf(t)
  <2>2. (v + 1) * Window <= u * Window
    <3> HIDE DEF u, v
    <3>1. u \in Nat /\ v \in Nat /\ v + 1 <= u
      BY <1>4, <2>1 DEF u, v
    <3>2. QED
      BY <3>1, <1>1, Z3
  <2>3. (v + 1) * Window \in Nat /\ u * Window \in Nat
    BY <1>1, <1>4
  <2>4. QED
    BY <1>1, <1>2, <1>3, <2>2, <2>3
<1>6. QED
  BY <1>4, <1>5 DEF Windows, WindowOf

(* Sets of calls have sizes, which grow with them. *)
LEMMA Sizes ==
    ASSUME NEW S \in SUBSET Calls
    PROVE  /\ IsFiniteSet(S) /\ Cardinality(S) \in Nat
           /\ \A T \in SUBSET S : Cardinality(T) <= Cardinality(S)
           /\ \A c \in Calls \ S : Cardinality(S \cup {c}) = Cardinality(S) + 1
<1>1. IsFiniteSet(S)
  BY LimiterAssumption, FS_Subset
<1>2. QED
  BY <1>1, FS_CardinalityType, FS_Subset, FS_AddElement

(* What is under way in a good state. *)
LEMMA Facts ==
    ASSUME Inv
    PROVE  /\ now \in 0..MaxTime /\ now \in Nat /\ MaxTime \in Nat
           /\ \A c \in Calls : read[c] \in 0..MaxTime /\ read[c] \in Nat /\ WindowOf(read[c]) \in Windows
           /\ \A w \in Windows : /\ w \in Nat /\ count[w] \in Nat /\ dies[w] \in Nat
                                 /\ InTime(w) \in SUBSET Calls /\ Hits(w) \in SUBSET Calls
<1>1. now \in 0..MaxTime /\ MaxTime \in Nat /\ now \in Nat
  BY LimiterAssumption DEF Inv, TypeOK
<1>2. ASSUME NEW c \in Calls
      PROVE  read[c] \in 0..MaxTime /\ read[c] \in Nat /\ WindowOf(read[c]) \in Windows
  <2>1. read[c] \in 0..MaxTime
    BY DEF Inv, TypeOK
  <2>2. QED
    BY <1>1, <2>1, WindowsOfInstants
<1>3. ASSUME NEW w \in Windows
      PROVE  /\ w \in Nat /\ count[w] \in Nat /\ dies[w] \in Nat
             /\ InTime(w) \in SUBSET Calls /\ Hits(w) \in SUBSET Calls
  BY DEF Windows, Inv, TypeOK, InTime, Hits, InWindow
<1>4. QED
  BY <1>1, <1>2, <1>3

-----------------------------------------------------------------------------
(* The steps. *)

(* Whatever the reply becomes, a call that was counted leaves everything in *)
(* order.                                                                   *)
LEMMA CountedKeepsInv ==
    ASSUME Inv, NEW c \in Calls, state[c] = "counting", Incr(c),
           NEW s \in {"admitted", "refused", "open"}, Goto(c, s), UNCHANGED <<now, read>>,
           s = "admitted" => count[WindowOf(read[c])] + 1 <= Limit,
           s = "refused" => count[WindowOf(read[c])] + 1 > Limit
    PROVE  Inv'
<1> DEFINE w == WindowOf(read[c])
           d == now + TimeLeft(read[c]) + Slack
<1>1. w \in Windows /\ w \in Nat /\ read[c] \in Nat /\ now \in Nat /\ read[c] <= now
  BY Facts DEF Inv, ClocksInv
<1>2. /\ count' = [count EXCEPT ![w] = @ + 1] /\ dies' = [dies EXCEPT ![w] = d]
      /\ counted' = counted \cup {c} /\ state' = [state EXCEPT ![c] = s]
      /\ late' = IF Lasts(w) THEN late ELSE late \cup {c}
  BY DEF Incr, Record, Goto, Lasts, Reset
<1>3. d \in Nat /\ d >= (w + 1) * Window + Slack
  <2>1. read[c] < (w + 1) * Window /\ (w + 1) * Window \in Nat
    BY <1>1, WindowHolds, LimiterAssumption
  <2> DEFINE reset == (w + 1) * Window
  <2>2. d = now + (reset - read[c]) + Slack
    BY DEF TimeLeft, Reset
  <2> HIDE DEF d, reset
  <2>3. reset \in Nat /\ read[c] < reset
    BY <2>1 DEF reset
  <2>4. d \in Nat /\ d >= reset + Slack
    BY <1>1, <2>2, <2>3, LimiterAssumption
  <2>5. QED
    BY <2>4 DEF reset
<1> HIDE DEF d
<1>4. TypeOK'
  BY <1>1, <1>2, <1>3 DEF Inv, TypeOK, States
<1>5. /\ \A x \in Calls : state'[x] = IF x = c THEN s ELSE state[x]
      /\ \A v \in Windows : count'[v] = IF v = w THEN count[v] + 1 ELSE count[v]
      /\ \A v \in Windows : dies'[v] = IF v = w THEN d ELSE dies[v]
  BY <1>2 DEF Inv, TypeOK
<1>6. ClocksInv'
  BY <1>5 DEF Inv, ClocksInv
<1>7. /\ \A v \in Windows : InWindow(v)' = InWindow(v)
      /\ c \in InWindow(w) /\ \A v \in Windows : v # w => c \notin InWindow(v)
  BY <1>5 DEF InWindow
<1>8. \A v \in Windows : Lasts(v)' <=> Lasts(v)
  BY DEF Lasts
<1>9. c \notin late /\ c \notin InTime(w)
  BY DEF Inv, TypeOK, HitsInv, InTime
<1>10. /\ \A v \in Windows : v # w \/ s # "admitted" \/ ~Lasts(w) => InTime(v)' = InTime(v)
       /\ s = "admitted" /\ Lasts(w) => InTime(w)' = InTime(w) \cup {c}
  <2>1. \A v \in Windows : InWindow(v) \subseteq Calls
    BY DEF InWindow
  <2>2. ASSUME NEW v \in Windows, v # w \/ s # "admitted" \/ ~Lasts(w) PROVE InTime(v)' = InTime(v)
    <3>1. \A x \in InWindow(v) : state'[x] = "admitted" /\ x \notin late'
                              <=> state[x] = "admitted" /\ x \notin late
      BY <1>2, <1>5, <1>7, <2>1, <2>2
    <3>2. QED
      BY <1>7, <3>1 DEF InTime
  <2>3. ASSUME s = "admitted", Lasts(w) PROVE InTime(w)' = InTime(w) \cup {c}
    <3>1. late' = late
      BY <1>2, <2>3
    <3>2. \A x \in InWindow(w) : state'[x] = "admitted" <=> x = c \/ state[x] = "admitted"
      BY <1>1, <1>5, <2>1, <2>3
    <3>3. QED
      BY <1>1, <1>7, <1>9, <3>1, <3>2 DEF InTime
  <2>4. QED
    BY <2>2, <2>3
<1>11. /\ \A v \in Windows : v # w => Hits(v)' = Hits(v)
       /\ Hits(w)' = Hits(w) \cup {c} /\ c \notin Hits(w)
  BY <1>1, <1>2, <1>7 DEF Hits, Inv, HitsInv
<1>12. /\ count[w] \in Nat /\ Limit \in Nat
       /\ Cardinality(InTime(w)) \in Nat
       /\ Cardinality(InTime(w) \cup {c}) = Cardinality(InTime(w)) + 1
       /\ Cardinality(Hits(w)) \in Nat /\ count[w] <= Cardinality(Hits(w))
       /\ Cardinality(Hits(w) \cup {c}) = Cardinality(Hits(w)) + 1
  BY <1>1, <1>9, <1>10, <1>11, Facts, Sizes, LimiterAssumption DEF Inv, HitsInv
<1>12a. Lasts(w) => Cardinality(InTime(w)) <= count[w]
  BY <1>1 DEF Inv, CountersInv
<1>13. CountersInv'
  <2>1. ASSUME NEW v \in Windows, v # w
        PROVE  /\ count'[v] > 0 => dies'[v] >= (v + 1) * Window + Slack
               /\ Lasts(v)' => Cardinality(InTime(v)') <= count'[v]
    BY <1>5, <1>8, <1>10, <2>1 DEF Inv, CountersInv
  <2>2. dies'[w] >= (w + 1) * Window + Slack
    BY <1>1, <1>3, <1>5
  <2>3. ASSUME Lasts(w)' PROVE Cardinality(InTime(w)') <= count'[w]
    <3>1. Lasts(w) /\ count'[w] = count[w] + 1 /\ Cardinality(InTime(w)) <= count[w]
      BY <1>1, <1>5, <1>8, <1>12a, <2>3
    <3>2. CASE s = "admitted"
      <4>1. InTime(w)' = InTime(w) \cup {c}
        BY <1>10, <3>1, <3>2
      <4>2. QED
        BY <1>12, <3>1, <4>1
    <3>3. CASE s # "admitted"
      BY <1>1, <1>10, <1>12, <3>1, <3>3
    <3>4. QED
      BY <3>2, <3>3
  <2>4. QED
    BY <2>1, <2>2, <2>3 DEF CountersInv
<1>14. HitsInv'
  <2>1. \A x \in Calls : state'[x] \in {"new", "counting"} => x \notin counted'
    BY <1>2, <1>5 DEF Inv, HitsInv
  <2>2. \A v \in Windows : count'[v] <= Cardinality(Hits(v)')
    BY <1>1, <1>5, <1>11, <1>12 DEF Inv, HitsInv
  <2>3. QED
    BY <2>1, <2>2 DEF HitsInv
<1>15. LimitPerWindow'
  <2>1. ASSUME NEW v \in Windows PROVE Cardinality(InTime(v)') <= Limit
    <3>1. CASE v = w /\ s = "admitted" /\ Lasts(w)
      <4>1. Cardinality(InTime(w)) + 1 <= Limit
        BY <1>12, <1>12a, <3>1
      <4>2. InTime(v)' = InTime(w) \cup {c}
        BY <1>10, <3>1
      <4>3. QED
        BY <1>12, <4>1, <4>2
    <3>2. CASE v # w \/ s # "admitted" \/ ~Lasts(w)
      <4>1. Cardinality(InTime(v)) <= Limit
        BY DEF Inv, LimitPerWindow, InTime
      <4>2. QED
        BY <1>10, <3>2, <4>1
    <3>3. QED
      BY <3>1, <3>2
  <2>2. QED
    BY <2>1 DEF LimitPerWindow, InTime
<1>16. RefusedOnlyWhenFull'
  <2>1. ASSUME NEW x \in Calls, state'[x] = "refused"
        PROVE  Cardinality(Hits(WindowOf(read[x]))') > Limit
    <3> DEFINE v == WindowOf(read[x])
    <3>1. v \in Windows
      BY Facts
    <3>2. CASE x = c
      <4>1. s = "refused" /\ count[w] + 1 > Limit
        BY <1>5, <2>1, <3>2
      <4>2. Hits(v)' = Hits(w) \cup {c}
        BY <1>11, <3>2
      <4>3. Cardinality(Hits(w) \cup {c}) > Limit
        BY <1>12, <4>1
      <4>4. QED
        BY <4>2, <4>3, Zenon
    <3>3. CASE x # c
      <4>1. Cardinality(Hits(v)) > Limit
        BY <1>5, <2>1, <3>3 DEF Inv, RefusedOnlyWhenFull, Hits
      <4>2. CASE v = w
        <5>1. Cardinality(Hits(w) \cup {c}) > Limit
          BY <1>12, <4>1, <4>2
        <5>2. Hits(v)' = Hits(w) \cup {c}
          BY <1>11, <4>2
        <5>3. QED
          BY <5>1, <5>2, Zenon
      <4>3. CASE v # w
        BY <1>11, <3>1, <4>1, <4>3
      <4>4. QED
        BY <4>2, <4>3
    <3>4. QED
      BY <3>2, <3>3
  <2>2. QED
    BY <2>1 DEF RefusedOnlyWhenFull, Hits
<1>17. QED
  BY <1>4, <1>6, <1>13, <1>14, <1>15, <1>16 DEF Inv

(* A call that fails open uncounted changes no set of the properties.       *)
LEMMA UncountedKeepsInv ==
    ASSUME Inv, NEW c \in Calls, state[c] = "counting", Goto(c, "open"),
           UNCHANGED <<now, count, dies, read, history>>
    PROVE  Inv'
<1>1. \A x \in Calls : state'[x] = IF x = c THEN "open" ELSE state[x]
  BY DEF Goto, Inv, TypeOK
<1>0. UNCHANGED <<counted, late>>
  BY DEF history
<1>2. \A v \in Windows : /\ InWindow(v)' = InWindow(v) /\ InTime(v)' = InTime(v)
                         /\ Hits(v)' = Hits(v) /\ (Lasts(v)' <=> Lasts(v))
  BY <1>0, <1>1 DEF InWindow, InTime, Hits, Lasts
<1>3. TypeOK'
  BY <1>0 DEF Goto, Inv, TypeOK, States
<1>4. ClocksInv' /\ CountersInv' /\ HitsInv'
  BY <1>0, <1>1, <1>2 DEF Inv, ClocksInv, CountersInv, HitsInv
<1>5. LimitPerWindow'
  BY <1>2 DEF Inv, LimitPerWindow, InTime
<1>6. RefusedOnlyWhenFull'
  BY <1>1, <1>2, Facts DEF Inv, RefusedOnlyWhenFull, Hits
<1>7. QED
  BY <1>3, <1>4, <1>5, <1>6 DEF Inv

(* A call that reads the clock is in the present window.                    *)
LEMMA ReadClockKeepsInv ==
    ASSUME Inv, NEW c \in Calls, ReadClock(c)
    PROVE  Inv'
<1>1. /\ \A x \in Calls : state'[x] = IF x = c THEN "counting" ELSE state[x]
      /\ \A x \in Calls : read'[x] = IF x = c THEN now ELSE read[x]
      /\ state[c] = "new" /\ UNCHANGED <<now, count, dies, counted, late>>
  BY DEF ReadClock, Goto, history, Inv, TypeOK
<1>2. TypeOK'
  BY DEF ReadClock, history, Goto, Inv, TypeOK, States
<1>3. c \notin counted /\ now \in Nat
  BY <1>1, Facts DEF Inv, HitsInv
<1>4. \A v \in Windows : InTime(v)' = InTime(v) /\ Hits(v)' = Hits(v)
  BY <1>1, <1>3 DEF InWindow, InTime, Hits
<1>5. \A v \in Windows : Lasts(v)' <=> Lasts(v)
  BY <1>1 DEF Lasts
<1>6. ClocksInv'
  BY <1>1, <1>3, LimiterAssumption DEF Inv, ClocksInv
<1>7. CountersInv' /\ HitsInv'
  BY <1>1, <1>3, <1>4, <1>5 DEF Inv, CountersInv, HitsInv
<1>8. LimitPerWindow'
  BY <1>4 DEF Inv, LimitPerWindow, InTime
<1>9. RefusedOnlyWhenFull'
  BY <1>1, <1>4, Facts DEF Inv, RefusedOnlyWhenFull, Hits
<1>10. QED
  BY <1>2, <1>6, <1>7, <1>8, <1>9 DEF Inv

(* A counter that expires is that of a window whose slack is over.           *)
LEMMA TickKeepsInv ==
    ASSUME Inv, Tick
    PROVE  Inv'
<1>1. /\ now' = now + 1 /\ now < MaxTime /\ now \in Nat /\ MaxTime \in Nat
      /\ UNCHANGED <<dies, state, read, counted, late>>
      /\ \A w \in Windows : count'[w] = IF dies[w] <= now + 1 THEN 0 ELSE count[w]
  BY Facts DEF Tick, history
<1>2. TypeOK'
  BY <1>1 DEF Tick, Inv, TypeOK
<1>3. ClocksInv'
  BY <1>1, Facts DEF Inv, ClocksInv
<1>4. \A w \in Windows : InWindow(w)' = InWindow(w) /\ InTime(w)' = InTime(w) /\ Hits(w)' = Hits(w)
  BY <1>1 DEF InWindow, InTime, Hits
<1>5. ASSUME NEW w \in Windows, Lasts(w)'
      PROVE  Lasts(w) /\ now + 1 < (w + 1) * Window + Slack
  <2> DEFINE end == (w + 1) * Window + Slack
  <2>1. now + 1 < end /\ end \in Nat
    BY <1>1, <1>5, Facts, LimiterAssumption DEF Lasts
  <2> HIDE DEF end
  <2>2. now < end
    BY <1>1, <2>1
  <2>3. QED
    BY <2>1, <2>2 DEF end, Lasts
<1>6. CountersInv'
  <2> SUFFICES ASSUME NEW w \in Windows
               PROVE  /\ count'[w] > 0 => dies'[w] >= (w + 1) * Window + Slack
                      /\ Lasts(w)' => Cardinality(InTime(w)') <= count'[w]
    BY DEF CountersInv
  <2>1. /\ count[w] \in Nat /\ dies[w] \in Nat /\ dies'[w] = dies[w]
        /\ count[w] > 0 => dies[w] >= (w + 1) * Window + Slack
        /\ Lasts(w) => Cardinality(InTime(w)) <= count[w]
    BY <1>1, Facts DEF Inv, CountersInv
  <2>2. count'[w] > 0 => dies'[w] >= (w + 1) * Window + Slack
    BY <1>1, <2>1
  <2>3. ASSUME Lasts(w)' PROVE Cardinality(InTime(w)') <= count'[w]
    <3>1. now + 1 < (w + 1) * Window + Slack /\ Cardinality(InTime(w)') <= count[w]
      BY <1>4, <1>5, <2>1, <2>3
    <3>2. count'[w] = count[w]
      <4> DEFINE end == (w + 1) * Window + Slack
      <4>1. end \in Nat /\ now + 1 < end /\ (count[w] > 0 => dies[w] >= end)
        BY <2>1, <3>1, Facts, LimiterAssumption
      <4> HIDE DEF end
      <4>2. dies[w] <= now + 1 => count[w] = 0
        BY <1>1, <2>1, <4>1
      <4>3. QED
        BY <1>1, <4>2
    <3>3. QED
      BY <3>1, <3>2
  <2>4. QED
    BY <2>2, <2>3
<1>7. HitsInv'
  <2>1. \A w \in Windows : count'[w] <= Cardinality(Hits(w)')
    <3> SUFFICES ASSUME NEW w \in Windows PROVE count'[w] <= Cardinality(Hits(w))
      BY <1>4
    <3>1. count[w] \in Nat /\ Cardinality(Hits(w)) \in Nat /\ count[w] <= Cardinality(Hits(w))
      BY Facts, Sizes DEF Inv, HitsInv
    <3>2. QED
      BY <1>1, <3>1
  <2>2. QED
    BY <1>1, <2>1 DEF Inv, HitsInv
<1>8. LimitPerWindow'
  BY <1>4 DEF Inv, LimitPerWindow, InTime
<1>9. RefusedOnlyWhenFull'
  BY <1>1, <1>4, Facts DEF Inv, RefusedOnlyWhenFull, Hits
<1>10. QED
  BY <1>2, <1>3, <1>6, <1>7, <1>8, <1>9 DEF Inv

-----------------------------------------------------------------------------
(* The theorems. *)

(* The invariant holds throughout. *)
LEMMA Invariance == Spec => []Inv
<1>1. Init => Inv
  <2> SUFFICES ASSUME Init PROVE Inv
    OBVIOUS
  <2>1. TypeOK
    BY LimiterAssumption DEF Init, TypeOK, States
  <2>2. \A w \in Windows : InTime(w) = {} /\ Hits(w) = {}
    BY DEF Init, InTime, Hits, InWindow
  <2>3. Cardinality({}) = 0
    BY FS_EmptySet
  <2>4. ClocksInv /\ CountersInv /\ HitsInv
    BY <2>2, <2>3 DEF Init, ClocksInv, CountersInv, HitsInv
  <2>5. LimitPerWindow
    BY <2>2, <2>3, LimiterAssumption DEF LimitPerWindow, InTime
  <2>6. RefusedOnlyWhenFull
    BY DEF Init, RefusedOnlyWhenFull
  <2>7. QED
    BY <2>1, <2>4, <2>5, <2>6 DEF Inv
<1>2. Inv /\ [Next]_vars => Inv'
  <2> SUFFICES ASSUME Inv, [Next]_vars PROVE Inv'
    OBVIOUS
  <2>1. ASSUME NEW c \in Calls, ReadClock(c) PROVE Inv'
    BY <2>1, ReadClockKeepsInv
  <2>2. ASSUME NEW c \in Calls, Count(c) PROVE Inv'
    <3>1. count[WindowOf(read[c])] + 1 \in Nat /\ Limit \in Nat
      BY Facts, LimiterAssumption
    <3>2. CASE count[WindowOf(read[c])] + 1 > Limit
      BY <2>2, <3>2, CountedKeepsInv DEF Count
    <3>3. CASE count[WindowOf(read[c])] + 1 <= Limit
      BY <2>2, <3>1, <3>3, CountedKeepsInv DEF Count
    <3>4. QED
      BY <3>1, <3>2, <3>3
  <2>3. ASSUME NEW c \in Calls, FailOpen(c) PROVE Inv'
    BY <2>3, CountedKeepsInv, UncountedKeepsInv DEF FailOpen
  <2>4. CASE Tick
    BY <2>4, TickKeepsInv
  <2>5. CASE UNCHANGED vars
    BY <2>5 DEF vars, Inv, TypeOK, ClocksInv, CountersInv, HitsInv, Lasts, InTime, Hits, history,
                InWindow, LimitPerWindow, RefusedOnlyWhenFull
  <2>6. QED
    BY <2>1, <2>2, <2>3, <2>4, <2>5 DEF Next
<1>3. QED
  BY <1>1, <1>2, PTL DEF Spec

(* Every reachable state of the limiter is well typed, for any finite       *)
(* number of calls.                                                         *)
THEOREM LimiterTypeCorrect == Spec => []TypeOK
  BY Invariance, PTL DEF Inv

(* None of the clock windows admits more than the limit of the calls that   *)
(* reach Redis before the slack of the TTL is over, whatever time calls     *)
(* take and however those that come later restart a counter                 *)
(* (check_rate_limit).                                                      *)
THEOREM LimitHolds == Spec => []LimitPerWindow
  BY Invariance, PTL DEF Inv

(* Nobody is refused below the limit (check_rate_limit).                    *)
THEOREM RefusalsAreDeserved == Spec => []RefusedOnlyWhenFull
  BY Invariance, PTL DEF Inv
=============================================================================
