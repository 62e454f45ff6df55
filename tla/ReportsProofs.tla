---------------------------- MODULE ReportsProofs ----------------------------
(***************************************************************************)
(* Facts about the operators of Reports: the periods, what rounding loses, *)
(* and the sums over the rows of an answer.                                *)
(***************************************************************************)
EXTENDS Reports, FiniteSetTheorems, WellFoundedInduction, TLAPS

-----------------------------------------------------------------------------
(* The clock. *)

(* Quotient and remainder.                                                 *)
LEMMA DivMod ==
    ASSUME NEW a \in Int, NEW b \in Nat \ {0}
    PROVE  /\ a \div b \in Int /\ a % b \in 0..(b - 1)
           /\ a = b * (a \div b) + (a % b)
  OBVIOUS

(* A smaller multiple is smaller by m at least.                             *)
LEMMA Multiples ==
    ASSUME NEW m \in Nat \ {0}, NEW j \in Int, NEW k \in Int, m * j < m * k
    PROVE  m * j <= m * k - m
<1>1. j < k
  OBVIOUS
<1>2. m * j <= m * (k - 1)
  BY <1>1
<1>3. QED
  BY <1>2

(* What an instant of the browser's clock is.                              *)
Ticks == {at \in Int : \E k \in Int : at = Millisecond * k}

(* Instants of whole milliseconds are those ticks.                         *)
LEMMA WholeMilliseconds ==
    ASSUME NEW at \in Int, at % Millisecond = 0
    PROVE  at \in Ticks
<1>1. at = Millisecond * (at \div Millisecond) + (at % Millisecond) /\ at \div Millisecond \in Int
  BY DivMod, TimeAssumption
<1>2. at = Millisecond * (at \div Millisecond)
  BY <1>1, TimeAssumption
<1>3. QED
  BY <1>1, <1>2 DEF Ticks

(* Ticks have a distance of ticks.                                         *)
LEMMA TicksAdd ==
    ASSUME NEW a \in Ticks, NEW b \in Ticks
    PROVE  a + b \in Ticks /\ a - b \in Ticks
<1>1. PICK j \in Int, k \in Int : a = Millisecond * j /\ b = Millisecond * k
  BY DEF Ticks
<1>2. Millisecond \in Int
  BY TimeAssumption
<1>3. a + b = Millisecond * (j + k) /\ a - b = Millisecond * (j - k)
  BY <1>1, <1>2
<1>4. a + b \in Int /\ a - b \in Int /\ j + k \in Int /\ j - k \in Int
  BY <1>1, <1>2
<1>5. QED
  BY <1>3, <1>4 DEF Ticks

(* So do multiples of a tick.                                              *)
LEMMA TicksScale ==
    ASSUME NEW a \in Ticks, NEW n \in Int
    PROVE  n * a \in Ticks
<1>1. PICK j \in Int : a = Millisecond * j
  BY DEF Ticks
<1>2. Millisecond \in Int
  BY TimeAssumption
<1>3. n * a = Millisecond * (n * j) /\ n * a \in Int /\ n * j \in Int
  BY <1>1, <1>2
<1>4. QED
  BY <1>3 DEF Ticks

(* An hour, a day and a millisecond are ticks.                             *)
LEMMA UnitsAreTicks == Millisecond \in Ticks /\ Hour \in Ticks /\ Day \in Ticks
<1>1. Millisecond \in Nat \ {0} /\ Hour \in Nat \ {0} /\ Day \in Nat \ {0}
  BY TimeAssumption
<1>2. Millisecond \in Ticks
  BY <1>1 DEF Ticks
<1>3. Hour \in Ticks
  BY <1>1, TimeAssumption, WholeMilliseconds
<1>4. Day \in Ticks
  <2>1. Day = Hour * (Day \div Hour) + (Day % Hour) /\ Day \div Hour \in Int
    BY <1>1, DivMod
  <2>2. Day = (Day \div Hour) * Hour
    BY <1>1, <2>1, TimeAssumption
  <2>3. QED
    BY <1>3, <2>1, <2>2, TicksScale
<1>5. QED
  BY <1>2, <1>3, <1>4

(* Ticks that differ, differ by a millisecond.                             *)
LEMMA TicksApart ==
    ASSUME NEW a \in Ticks, NEW b \in Ticks, a < b
    PROVE  a <= b - Millisecond
<1>1. PICK j \in Int, k \in Int : a = Millisecond * j /\ b = Millisecond * k
  BY DEF Ticks
<1>2. QED
  BY <1>1, Multiples, TimeAssumption

(* The period that is shown begins and ends with a tick.                   *)
LEMMA WindowsAreTicks ==
    ASSUME NEW view, view.now \in Ticks,
           view.start \in Ticks \cup {None}, view.end \in Ticks \cup {None}
    PROVE  Window(view) \in [from : Ticks, to : Ticks]
<1>1. Millisecond \in Ticks /\ Day \in Ticks /\ Day \in Nat \ {0}
  BY UnitsAreTicks, TimeAssumption
<1>2. PICK now \in Ticks : now = view.now
  OBVIOUS
<1>3. PICK midnight \in Ticks : midnight = Trunc(now, "day")
  <2>1. now \in Int
    BY DEF Ticks
  <2>2. /\ now \div Day \in Int /\ now % Day \in 0..(Day - 1)
        /\ now = Day * (now \div Day) + (now % Day)
    BY <1>1, <2>1, DivMod
  <2>3. PICK q \in Int, m \in Int : now % Day = m /\ now = Day * q + m
    <3>1. now % Day \in Int
      BY <1>1, <2>2
    <3>2. QED
      BY <2>2, <3>1, Zenon
  <2>4. Trunc(now, "day") = q * Day
    BY <1>1, <2>1, <2>3 DEF Trunc, Length
  <2>5. QED
    BY <1>1, <2>4, TicksScale
<1>4. ASSUME NEW n \in Nat PROVE now - n * Day \in Ticks
  <2>1. PICK days \in Ticks : days = n * Day
    BY <1>1, TicksScale
  <2>2. QED
    BY <2>1, TicksAdd
<1>5. midnight - Day \in Ticks /\ midnight - Millisecond \in Ticks
  BY <1>1, TicksAdd
<1>6. \A a, b \in Ticks : Period(a, b) \in [from : Ticks, to : Ticks]
  BY DEF Period
<1>7. CASE view.range = "today"
  BY <1>2, <1>3, <1>6, <1>7 DEF Window
<1>8. CASE view.range = "yesterday"
  BY <1>2, <1>3, <1>5, <1>6, <1>8 DEF Window
<1>9. CASE view.range = "30d"
  BY <1>2, <1>4, <1>6, <1>9 DEF Window
<1>10. CASE view.range = "90d"
  BY <1>2, <1>4, <1>6, <1>10 DEF Window
<1>11. CASE view.range = "custom"
  <2>1. /\ (IF view.start = None THEN view.now ELSE view.start) \in Ticks
        /\ (IF view.end = None THEN view.now ELSE view.end) \in Ticks
    OBVIOUS
  <2>2. QED
    BY <1>6, <1>11, <2>1 DEF Window
<1>12. CASE view.range \notin {"today", "yesterday", "30d", "90d", "custom"}
  BY <1>2, <1>4, <1>6, <1>12 DEF Window
<1>13. QED
  BY <1>7, <1>8, <1>9, <1>10, <1>11, <1>12

(* An instant is in one of two periods that follow each other, not in both. *)
LEMMA PeriodsFollow ==
    ASSUME NEW p \in [from : Ticks, to : Ticks], NEW at \in Int
    PROVE  /\ ~(Within(at, p) /\ Within(at, Previous(p)))
           /\ at \in Ticks /\ Within(at, Period(Previous(p).from, p.to))
                => Within(at, p) \/ Within(at, Previous(p))
<1>1. p.from \in Ticks /\ p.from \in Int /\ p.to \in Int /\ Millisecond \in Nat \ {0}
  BY TimeAssumption DEF Ticks
<1>2. /\ Previous(p).to = p.from - Millisecond
      /\ Previous(p).from = p.from - Millisecond - (p.to - p.from)
      /\ Period(Previous(p).from, p.to).from = Previous(p).from
      /\ Period(Previous(p).from, p.to).to = p.to
  BY DEF Previous, Period
<1>3. at \in Ticks /\ at < p.from => at <= p.from - Millisecond
  BY <1>1, TicksApart
<1>4. QED
  BY <1>1, <1>2, <1>3 DEF Within

-----------------------------------------------------------------------------
(* Rounding. *)

(* What is rounded is off by half a unit at most, so a number per day, or a *)
(* share, fits what it was divided from (useAnalytics).                     *)
LEMMA RoundsToNearest ==
    ASSUME NEW a \in Int, NEW b \in Nat \ {0}
    PROVE  Round(a, b) \in Int /\ 2 * (Round(a, b) * b - a) \in (-b)..b
<1> DEFINE d == (2 * a + b) \div (2 * b)
           m == (2 * a + b) % (2 * b)
<1>1. 2 * a + b \in Int /\ 2 * b \in Nat \ {0}
  OBVIOUS
<1>2. d \in Int /\ m \in 0..(2 * b - 1) /\ 2 * a + b = (2 * b) * d + m
  BY <1>1, DivMod
<1> HIDE DEF d, m
<1>3. PICK x \in Int : x = d * b
  BY <1>2
<1>4. (2 * b) * d = 2 * x
  BY <1>2, <1>3
<1>5. 2 * (x - a) = b - m
  BY <1>2, <1>3, <1>4
<1>6. 2 * (x - a) \in (-b)..b
  BY <1>2, <1>3, <1>5
<1>7. QED
  BY <1>2, <1>3, <1>6 DEF Round, d

(* A change above zero says that there are more events than before, one     *)
(* below zero that there are fewer: rounding never turns a change around    *)
(* (calculateChange in useAnalytics).                                       *)
LEMMA ChangesHaveDirection ==
    ASSUME NEW count \in Nat, NEW before \in Nat
    PROVE  /\ Change(count, before) \in Int
           /\ Change(count, before) > 0 => count > before
           /\ Change(count, before) < 0 => count < before
<1>1. CASE before = 0
  BY <1>1 DEF Change
<1>2. CASE before > 0
  <2> DEFINE x == 1000 * (count - before)
             y == Round(x, before)
  <2>1. x \in Int /\ before \in Nat \ {0}
    BY <1>2
  <2>2. y \in Int /\ 2 * (y * before - x) \in (-before)..before
    BY <2>1, RoundsToNearest
  <2>3. Change(count, before) = y
    BY <1>2 DEF Change, Tenths
  <2> HIDE DEF y
  <2>4. PICK z \in Int : z = y * before
    BY <2>2
  <2>5. y > 0 => z >= before
    BY <1>2, <2>2, <2>4
  <2>6. y < 0 => z <= -before
    BY <1>2, <2>2, <2>4
  <2>7. z - x <= before /\ x - z <= before
    BY <2>2, <2>4
  <2>8. 2 * (z - x) <= before /\ 2 * (x - z) <= before
    BY <2>2, <2>4
  <2>9. y > 0 => 2 * x >= before
    BY <1>2, <2>5, <2>8, <2>4, <2>1
  <2>10. y < 0 => 2 * x <= -before
    BY <1>2, <2>6, <2>8, <2>4, <2>1
  <2>11. QED
    BY <1>2, <2>2, <2>3, <2>9, <2>10
<1>3. QED
  BY <1>1, <1>2

(* Rounding keeps the order: what is more after rounding was more before.  *)
LEMMA RoundingKeepsOrder ==
    ASSUME NEW a \in Int, NEW b \in Int, NEW n \in Nat \ {0}, Round(a, n) > Round(b, n)
    PROVE  a > b
<1>1. PICK x \in Int : x = Round(a, n) /\ 2 * (x * n - a) \in (-n)..n
  BY RoundsToNearest
<1>2. PICK y \in Int : y = Round(b, n) /\ 2 * (y * n - b) \in (-n)..n
  BY RoundsToNearest
<1>3. PICK k \in Nat \ {0} : x = y + k
  <2>1. x - y \in Nat \ {0} /\ x = y + (x - y)
    BY <1>1, <1>2
  <2>2. QED
    BY <2>1
<1>4. PICK z \in Int, w \in Int, u \in Int : z = x * n /\ w = y * n /\ u = k * n
  OBVIOUS
<1>5. z = w + u /\ u >= n
  <2>1. x * n = y * n + k * n
    BY <1>3
  <2>2. k * n >= n
    BY <1>3
  <2>3. QED
    BY <1>4, <2>1, <2>2
<1>6. 2 * (z - a) <= n /\ 2 * (w - b) >= -n
  <2>1. 2 * (z - a) \in (-n)..n /\ 2 * (w - b) \in (-n)..n
    BY <1>1, <1>2, <1>4, Zenon
  <2>2. QED
    BY <2>1
<1>7. a >= b
  BY <1>5, <1>6
<1>8. a # b
  <2>1. x # y
    BY <1>3
  <2>2. QED
    BY <1>1, <1>2, <2>1, Zenon
<1>9. QED
  BY <1>7, <1>8

(* What is not negative is not rounded below zero.                         *)
LEMMA RoundsToNat ==
    ASSUME NEW a \in Nat, NEW n \in Nat \ {0}
    PROVE  Round(a, n) \in Nat
<1>1. PICK x \in Int : x = Round(a, n) /\ 2 * (x * n - a) \in (-n)..n
  <2>1. a \in Int
    OBVIOUS
  <2>2. QED
    BY <2>1, RoundsToNearest
<1>2. PICK z \in Int : z = x * n
  OBVIOUS
<1>3. 2 * (z - a) >= -n
  <2>1. 2 * (z - a) \in (-n)..n
    BY <1>1, <1>2, Zenon
  <2>2. QED
    BY <2>1
<1>4. x < 0 => z <= -n
  <2>1. ASSUME x < 0 PROVE x * n <= -n
    <3>1. PICK m \in Nat : x = -1 - m
      <4>1. -1 - x \in Nat /\ x = -1 - (-1 - x)
        BY <2>1
      <4>2. QED
        BY <4>1
    <3>2. x * n = -n - m * n /\ m * n >= 0
      BY <3>1
    <3>3. QED
      BY <3>2
  <2>2. QED
    BY <1>2, <2>1
<1>5. QED
  BY <1>1, <1>3, <1>4

-----------------------------------------------------------------------------
(* Sums over finite sets, as FiniteSetsExt computes them: by recursion, one *)
(* chosen element after the other.  Induction is over the set of those      *)
(* subsets for which a fact holds.                                          *)

AnyOf(S) == CHOOSE x \in S : TRUE

(* f adds up the weights w of every subset of S.                           *)
AddsUp(w, S, f) ==
    f = [T \in SUBSET S |-> IF T = {} THEN 0 ELSE w[AnyOf(T)] + f[T \ {AnyOf(T)}]]

SumOf(w, S) == (CHOOSE f : AddsUp(w, S, f))[S]

(* Among any subsets of a finite set there is one with no other below it.  *)
LEMMA SmallestExists ==
    ASSUME NEW S, IsWellFoundedOn(StrictSubsetOrdering(S), SUBSET S),
           NEW B, B \subseteq SUBSET S, B # {}
    PROVE  \E T \in B : \A U \in B : ~ (<<U, T>> \in StrictSubsetOrdering(S))
BY WFMin, Zenon

(* What holds for a set whenever it holds for all its proper subsets, holds *)
(* for every finite set.                                                    *)
LEMMA SubsetInduction ==
    ASSUME NEW S, IsFiniteSet(S), NEW Good,
           \A T \in SUBSET S : (\A U \in SUBSET T : U # T => U \in Good) => T \in Good
    PROVE  SUBSET S \subseteq Good
<1> DEFINE Bad == (SUBSET S) \ Good
<1>1. SUFFICES ASSUME Bad # {} PROVE FALSE
  BY Zenon
<1>2. IsWellFoundedOn(StrictSubsetOrdering(S), SUBSET S)
  BY FS_StrictSubsetOrderingWellFounded, FS_FiniteSubsetsOfFinite
<1>3. PICK T \in Bad : \A U \in Bad : <<U, T>> \notin StrictSubsetOrdering(S)
  BY <1>1, <1>2, SmallestExists
<1>4. ASSUME NEW U \in SUBSET T, U # T PROVE U \in Good
  BY <1>3, <1>4 DEF StrictSubsetOrdering
<1>5. QED
  BY <1>3, <1>4

(* What is chosen from a set is in it, and the rest is smaller.            *)
LEMMA Chosen ==
    ASSUME NEW S, S # {}
    PROVE  AnyOf(S) \in S /\ S \ {AnyOf(S)} \in SUBSET S /\ S \ {AnyOf(S)} # S
  BY DEF AnyOf

(* Two ways to add the same weights up agree where both are defined.       *)
LEMMA SumsAgree ==
    ASSUME NEW R, NEW S, NEW f, NEW g, NEW v, NEW w, AddsUp(v, R, f), AddsUp(w, S, g),
           NEW U, IsFiniteSet(U), U \subseteq R, U \subseteq S, \A x \in U : v[x] = w[x]
    PROVE  f[U] = g[U]
<1> DEFINE Good == {T \in SUBSET U : f[T] = g[T]}
<1>1. ASSUME NEW T \in SUBSET U, \A V \in SUBSET T : V # T => V \in Good
      PROVE  T \in Good
  <2>1. /\ f[T] = IF T = {} THEN 0 ELSE v[AnyOf(T)] + f[T \ {AnyOf(T)}]
        /\ g[T] = IF T = {} THEN 0 ELSE w[AnyOf(T)] + g[T \ {AnyOf(T)}]
    BY Zenon DEF AddsUp
  <2>2. CASE T = {}
    BY <2>1, <2>2
  <2>3. CASE T # {}
    <3>1. AnyOf(T) \in U /\ T \ {AnyOf(T)} \in Good
      BY <1>1, <2>3, Chosen
    <3>2. QED
      BY <2>1, <2>3, <3>1
  <2>4. QED
    BY <2>2, <2>3
<1> HIDE DEF Good
<1>2. SUBSET U \subseteq Good
  BY <1>1, SubsetInduction
<1>3. QED
  BY <1>2 DEF Good

(* Weights that are numbers can be added up.                               *)
LEMMA SumsExist ==
    ASSUME NEW S, IsFiniteSet(S), NEW w, \A x \in S : w[x] \in Nat
    PROVE  \E f \in [SUBSET S -> Nat] : AddsUp(w, S, f)
<1> DEFINE Good == {T \in SUBSET S : \E f \in [SUBSET T -> Nat] : AddsUp(w, T, f)}
<1>1. ASSUME NEW T \in SUBSET S, \A U \in SUBSET T : U # T => U \in Good
      PROVE  T \in Good
  <2> DEFINE Part(U) == CHOOSE f : f \in [SUBSET U -> Nat] /\ AddsUp(w, U, f)
             whole == IF T = {} THEN 0 ELSE w[AnyOf(T)] + Part(T \ {AnyOf(T)})[T \ {AnyOf(T)}]
             sum == [U \in SUBSET T |-> IF U = T THEN whole ELSE Part(U)[U]]
  <2>1. ASSUME NEW U \in SUBSET T, U # T
        PROVE  Part(U) \in [SUBSET U -> Nat] /\ AddsUp(w, U, Part(U))
    BY <1>1, <2>1, Zenon
  <2> HIDE DEF Part
  <2>2. \A U \in SUBSET T : sum[U] = IF U = T THEN whole ELSE Part(U)[U]
    OBVIOUS
  <2>3. ASSUME T # {} PROVE w[AnyOf(T)] \in Nat /\ Part(T \ {AnyOf(T)})[T \ {AnyOf(T)}] \in Nat
    <3>1. AnyOf(T) \in S /\ T \ {AnyOf(T)} \in SUBSET T /\ T \ {AnyOf(T)} # T
      BY <2>3, Chosen
    <3>2. Part(T \ {AnyOf(T)}) \in [SUBSET (T \ {AnyOf(T)}) -> Nat]
      BY <2>1, <3>1
    <3>3. QED
      BY <3>1, <3>2
  <2>4. whole \in Nat
    BY <2>3
  <2>5. \A U \in SUBSET T : U # T => Part(U)[U] \in Nat
    BY <2>1
  <2>6. sum \in [SUBSET T -> Nat]
    BY <2>4, <2>5
  <2>7. ASSUME NEW U \in SUBSET T
        PROVE  sum[U] = IF U = {} THEN 0 ELSE w[AnyOf(U)] + sum[U \ {AnyOf(U)}]
    <3>1. CASE U = T
      <4>1. CASE T = {}
        BY <2>2, <3>1, <4>1
      <4>2. CASE T # {}
        <5>1. T \ {AnyOf(T)} \in SUBSET T /\ T \ {AnyOf(T)} # T
          BY <4>2, Chosen
        <5>2. sum[T \ {AnyOf(T)}] = Part(T \ {AnyOf(T)})[T \ {AnyOf(T)}]
          BY <2>2, <5>1
        <5>3. QED
          BY <2>2, <3>1, <4>2, <5>2
      <4>3. QED
        BY <4>1, <4>2
    <3>2. CASE U # T
      <4>1. AddsUp(w, U, Part(U)) /\ sum[U] = Part(U)[U]
        BY <2>1, <2>2, <3>2
      <4>2. Part(U)[U] = IF U = {} THEN 0 ELSE w[AnyOf(U)] + Part(U)[U \ {AnyOf(U)}]
        BY <4>1, Zenon DEF AddsUp
      <4>3. CASE U = {}
        BY <4>1, <4>2, <4>3
      <4>4. CASE U # {}
        <5> DEFINE V == U \ {AnyOf(U)}
        <5>1. V \in SUBSET U /\ V # U /\ V \in SUBSET T /\ V # T
          BY <3>2, <4>4, Chosen
        <5>2. AddsUp(w, V, Part(V)) /\ sum[V] = Part(V)[V]
          BY <2>1, <2>2, <5>1
        <5>3. IsFiniteSet(V)
          BY <5>1, FS_Subset
        <5>4. Part(U)[V] = Part(V)[V]
          BY <4>1, <5>1, <5>2, <5>3, SumsAgree
        <5>5. QED
          BY <4>1, <4>2, <4>4, <5>2, <5>4
      <4>5. QED
        BY <4>3, <4>4
    <3>3. QED
      BY <3>1, <3>2
  <2> HIDE DEF sum
  <2>8. AddsUp(w, T, sum)
    BY <2>6, <2>7 DEF AddsUp
  <2>9. QED
    BY <2>6, <2>8
<1>2. SUBSET S \subseteq Good
  BY <1>1, SubsetInduction
<1>3. QED
  BY <1>2

(* So SumOf adds up, and a sum of numbers is a number.                     *)
LEMMA SumIsNumber ==
    ASSUME NEW S, IsFiniteSet(S), NEW w, \A x \in S : w[x] \in Nat
    PROVE  /\ AddsUp(w, S, CHOOSE f : AddsUp(w, S, f))
           /\ SumOf(w, S) \in Nat
<1>1. PICK f \in [SUBSET S -> Nat] : AddsUp(w, S, f)
  BY SumsExist
<1>2. PICK g : g = CHOOSE h : AddsUp(w, S, h)
  OBVIOUS
<1>3. AddsUp(w, S, g)
  BY <1>1, <1>2, Zenon
<1>4. g[S] = f[S]
  BY <1>1, <1>3, SumsAgree
<1>5. QED
  BY <1>1, <1>2, <1>3, <1>4 DEF SumOf

(* The sum over a smaller set, and with weights that are the same there.   *)
LEMMA SumOfPart ==
    ASSUME NEW S, IsFiniteSet(S), NEW w, \A x \in S : w[x] \in Nat,
           NEW v, NEW f, AddsUp(v, S, f), \A x \in S : v[x] = w[x], NEW T \in SUBSET S
    PROVE  f[T] = SumOf(w, T)
<1>1. IsFiniteSet(T) /\ \A x \in T : w[x] \in Nat /\ v[x] = w[x]
  BY FS_Subset
<1>2. PICK g : g = CHOOSE h : AddsUp(w, T, h)
  OBVIOUS
<1>3. AddsUp(w, T, g) /\ SumOf(w, T) = g[T]
  BY <1>1, <1>2, SumIsNumber DEF SumOf
<1>4. QED
  BY <1>1, <1>3, SumsAgree

(* The sum of nothing, and the sum with what was chosen taken off.         *)
LEMMA SumStep ==
    ASSUME NEW S, IsFiniteSet(S), NEW w, \A x \in S : w[x] \in Nat
    PROVE  SumOf(w, S) = IF S = {} THEN 0 ELSE w[AnyOf(S)] + SumOf(w, S \ {AnyOf(S)})
<1>1. PICK f : f = CHOOSE h : AddsUp(w, S, h)
  OBVIOUS
<1>2. AddsUp(w, S, f) /\ SumOf(w, S) = f[S]
  BY <1>1, SumIsNumber DEF SumOf
<1>3. f[S] = IF S = {} THEN 0 ELSE w[AnyOf(S)] + f[S \ {AnyOf(S)}]
  BY <1>2, Zenon DEF AddsUp
<1>4. S # {} => f[S \ {AnyOf(S)}] = SumOf(w, S \ {AnyOf(S)})
  BY <1>2, Chosen, SumOfPart
<1>5. QED
  BY <1>2, <1>3, <1>4

(* Weights that are equal have equal sums.                                 *)
LEMMA SumsEqual ==
    ASSUME NEW S, IsFiniteSet(S), NEW v, NEW w, \A x \in S : w[x] \in Nat /\ v[x] = w[x]
    PROVE  SumOf(v, S) = SumOf(w, S)
<1>1. PICK f, g : f = (CHOOSE h : AddsUp(v, S, h)) /\ g = CHOOSE h : AddsUp(w, S, h)
  OBVIOUS
<1>2. AddsUp(v, S, f) /\ AddsUp(w, S, g) /\ SumOf(v, S) = f[S] /\ SumOf(w, S) = g[S]
  BY <1>1, SumIsNumber DEF SumOf
<1>3. QED
  BY <1>2, SumsAgree

(* Any element can be taken off, not only the chosen one.                  *)
LEMMA SumRemove ==
    ASSUME NEW S, IsFiniteSet(S), NEW w, \A x \in S : w[x] \in Nat, NEW x \in S
    PROVE  SumOf(w, S) = w[x] + SumOf(w, S \ {x})
<1> DEFINE Good == {T \in SUBSET S : \A y \in T : SumOf(w, T) = w[y] + SumOf(w, T \ {y})}
<1>1. ASSUME NEW T \in SUBSET S, \A U \in SUBSET T : U # T => U \in Good
      PROVE  T \in Good
  <2>1. \A U \in SUBSET T : IsFiniteSet(U) /\ (\A y \in U : w[y] \in Nat) /\ SumOf(w, U) \in Nat
    BY FS_Subset, SumIsNumber
  <2>2. ASSUME NEW y \in T PROVE SumOf(w, T) = w[y] + SumOf(w, T \ {y})
    <3>1. PICK a \in T : a = AnyOf(T)
      BY <2>2, Chosen
    <3>2. SumOf(w, T) = w[a] + SumOf(w, T \ {a})
      BY <2>1, <3>1, SumStep
    <3>3. CASE y = a
      BY <3>2, <3>3
    <3>4. CASE y # a
      <4>1. T \ {a} \in Good /\ T \ {y} \in Good
        BY <1>1
      <4>2. SumOf(w, T \ {a}) = w[y] + SumOf(w, (T \ {a}) \ {y})
        BY <3>4, <4>1
      <4>3. SumOf(w, T \ {y}) = w[a] + SumOf(w, (T \ {y}) \ {a})
        BY <3>4, <4>1
      <4>4. (T \ {a}) \ {y} = (T \ {y}) \ {a}
        OBVIOUS
      <4>5. PICK U \in SUBSET T : U = (T \ {y}) \ {a}
        OBVIOUS
      <4>6. SumOf(w, U) \in Nat /\ w[y] \in Nat /\ w[a] \in Nat
        BY <2>1
      <4>7. QED
        BY <3>2, <4>2, <4>3, <4>4, <4>5, <4>6
    <3>5. QED
      BY <3>3, <3>4
  <2>3. QED
    BY <2>2
<1> HIDE DEF Good
<1>2. SUBSET S \subseteq Good
  BY <1>1, SubsetInduction
<1>3. QED
  BY <1>2 DEF Good

(* The sum over two sets that have nothing in common.                      *)
LEMMA SumUnion ==
    ASSUME NEW A, NEW B, IsFiniteSet(A), IsFiniteSet(B), A \cap B = {},
           NEW w, \A x \in A \cup B : w[x] \in Nat
    PROVE  SumOf(w, A \cup B) = SumOf(w, A) + SumOf(w, B)
<1> DEFINE Good == {T \in SUBSET A : SumOf(w, T \cup B) = SumOf(w, T) + SumOf(w, B)}
<1>1. ASSUME NEW T \in SUBSET A, \A U \in SUBSET T : U # T => U \in Good
      PROVE  T \in Good
  <2>1. IsFiniteSet(A \cup B)
    BY FS_Union
  <2>2. \A U \in SUBSET (A \cup B) : IsFiniteSet(U) /\ SumOf(w, U) \in Nat
    <3> SUFFICES ASSUME NEW U \in SUBSET (A \cup B) PROVE IsFiniteSet(U) /\ SumOf(w, U) \in Nat
      OBVIOUS
    <3>1. IsFiniteSet(U) /\ \A x \in U : w[x] \in Nat
      BY <2>1, FS_Subset
    <3>2. QED
      BY <3>1, SumIsNumber
  <2>3. CASE T = {}
    <3>1. SumOf(w, T) = 0
      BY <2>3, <2>2, SumStep
    <3>2. T \cup B = B /\ SumOf(w, B) \in Nat
      BY <2>2, <2>3
    <3>3. QED
      BY <3>1, <3>2
  <2>4. CASE T # {}
    <3>1. PICK y \in T : TRUE
      BY <2>4
    <3> DEFINE U == T \ {y}
    <3>2. U \in Good /\ U \in SUBSET T
      BY <1>1
    <3>3. SumOf(w, T) = w[y] + SumOf(w, U)
      BY <2>2, SumRemove
    <3>4. SumOf(w, T \cup B) = w[y] + SumOf(w, (T \cup B) \ {y})
      BY <2>2, SumRemove
    <3>5. (T \cup B) \ {y} = U \cup B
      OBVIOUS
    <3>6. SumOf(w, U) \in Nat /\ SumOf(w, B) \in Nat /\ w[y] \in Nat
      BY <2>2, <3>2
    <3>7. SumOf(w, U \cup B) = SumOf(w, U) + SumOf(w, B)
      BY <3>2
    <3> HIDE DEF U
    <3>8. QED
      BY <3>3, <3>4, <3>5, <3>6, <3>7
  <2>5. QED
    BY <2>3, <2>4
<1> HIDE DEF Good
<1>2. SUBSET A \subseteq Good
  BY <1>1, SubsetInduction
<1>3. QED
  BY <1>2 DEF Good

(* Weights in groups: h says to which group of G an element of S belongs,   *)
(* and c holds the sums of the groups.                                      *)
Grouped(w, S, h, G, c) ==
    \A g \in G : \E P \in SUBSET S : (\A x \in S : x \in P <=> h[x] = g) /\ c[g] = SumOf(w, P)

(* The sums of the groups add up to the sum.                                *)
LEMMA SumOfGroups ==
    ASSUME NEW S, IsFiniteSet(S), NEW w, \A x \in S : w[x] \in Nat,
           NEW G, IsFiniteSet(G), NEW h, \A x \in S : h[x] \in G,
           NEW c, Grouped(w, S, h, G, c)
    PROVE  SumOf(c, G) = SumOf(w, S)
<1> DEFINE Part(T) == {x \in S : h[x] \in T}
           Good == {T \in SUBSET G : SumOf(c, T) = SumOf(w, Part(T))}
<1>1. ASSUME NEW T PROVE /\ IsFiniteSet(Part(T)) /\ SumOf(w, Part(T)) \in Nat
                         /\ Part(T) \subseteq S
  <2>1. Part(T) \in SUBSET S
    OBVIOUS
  <2>2. IsFiniteSet(Part(T)) /\ \A x \in Part(T) : w[x] \in Nat
    BY <2>1, FS_Subset
  <2>3. QED
    BY <2>1, <2>2, SumIsNumber
<1>2. ASSUME NEW g \in G PROVE c[g] = SumOf(w, Part({g})) /\ c[g] \in Nat
  <2>1. PICK P \in SUBSET S : (\A x \in S : x \in P <=> h[x] = g) /\ c[g] = SumOf(w, P)
    BY DEF Grouped
  <2>2. P = Part({g})
    BY <2>1
  <2>3. c[g] = SumOf(w, P)
    BY <2>1
  <2> HIDE DEF Part
  <2>4. SumOf(w, P) \in Nat
    BY <1>1, <2>2
  <2>5. QED
    BY <2>2, <2>3, <2>4
<1>3. ASSUME NEW T \in SUBSET G, \A U \in SUBSET T : U # T => U \in Good
      PROVE  T \in Good
  <2>1. IsFiniteSet(T)
    BY FS_Subset
  <2>2. CASE T = {}
    <3>1. Part(T) = {} /\ IsFiniteSet({})
      BY <2>2, FS_EmptySet
    <3>2. SumOf(c, {}) = 0 /\ SumOf(w, {}) = 0
      BY <3>1, SumStep
    <3>3. QED
      BY <2>2, <3>1, <3>2
  <2>3. CASE T # {}
    <3>1. PICK g \in T : TRUE
      BY <2>3
    <3> DEFINE U == T \ {g}
    <3>2. U \in Good /\ U \in SUBSET T
      BY <1>3
    <3>3. SumOf(c, T) = c[g] + SumOf(c, U)
      BY <1>2, <2>1, SumRemove
    <3>4. Part(T) = Part({g}) \cup Part(U) /\ Part({g}) \cap Part(U) = {}
      OBVIOUS
    <3>5. \A x \in Part({g}) \cup Part(U) : w[x] \in Nat
      OBVIOUS
    <3>6. SumOf(c, U) = SumOf(w, Part(U))
      BY <3>2
    <3> HIDE DEF Part, U
    <3>7. SumOf(w, Part(T)) = SumOf(w, Part({g})) + SumOf(w, Part(U))
      <4>1. PICK A, B : A = Part({g}) /\ B = Part(U)
        OBVIOUS
      <4>2. IsFiniteSet(A) /\ IsFiniteSet(B)
        BY <1>1, <4>1
      <4>3. A \cap B = {} /\ \A x \in A \cup B : w[x] \in Nat
        BY <3>4, <3>5, <4>1
      <4>4. SumOf(w, A \cup B) = SumOf(w, A) + SumOf(w, B)
        BY <4>2, <4>3, SumUnion
      <4>5. QED
        BY <3>4, <4>1, <4>4
    <3>8. SumOf(c, T) = SumOf(w, Part(T))
      BY <1>2, <3>3, <3>6, <3>7
    <3>9. QED
      BY <3>8
  <2>4. QED
    BY <2>2, <2>3
<1> HIDE DEF Good
<1>4. SUBSET G \subseteq Good
  BY <1>3, SubsetInduction
<1>5. SumOf(c, G) = SumOf(w, Part(G)) /\ Part(G) = S
  BY <1>4 DEF Good
<1>6. QED
  BY <1>5

(* Weights that differ by n at most have sums that differ by n for each.   *)
LEMMA SumsApart ==
    ASSUME NEW S, IsFiniteSet(S), NEW n \in Nat,
           NEW v, NEW w, \A x \in S : v[x] \in Nat /\ w[x] \in Nat /\ v[x] - w[x] \in (-n)..n
    PROVE  SumOf(v, S) - SumOf(w, S) \in (-(n * Cardinality(S)))..(n * Cardinality(S))
<1> DEFINE Fits(T) == SumOf(v, T) - SumOf(w, T) \in (-(n * Cardinality(T)))..(n * Cardinality(T))
           Good == {T \in SUBSET S : Fits(T)}
<1>1. ASSUME NEW T \in SUBSET S, \A U \in SUBSET T : U # T => U \in Good
      PROVE  T \in Good
  <2>1. \A U \in SUBSET T : /\ IsFiniteSet(U) /\ Cardinality(U) \in Nat
                            /\ SumOf(v, U) \in Nat /\ SumOf(w, U) \in Nat
    <3> SUFFICES ASSUME NEW U \in SUBSET T
                 PROVE  /\ IsFiniteSet(U) /\ Cardinality(U) \in Nat
                        /\ SumOf(v, U) \in Nat /\ SumOf(w, U) \in Nat
      OBVIOUS
    <3>1. IsFiniteSet(U)
      BY FS_Subset
    <3>2. QED
      BY <3>1, SumIsNumber, FS_CardinalityType
  <2>2. CASE T = {}
    <3>1. SumOf(v, T) = 0 /\ SumOf(w, T) = 0
      BY <2>1, <2>2, SumStep
    <3>2. Cardinality(T) = 0
      BY <2>2, FS_EmptySet
    <3>3. QED
      BY <3>1, <3>2
  <2>3. CASE T # {}
    <3>1. PICK y \in T : TRUE
      BY <2>3
    <3>2. PICK U \in SUBSET T : U = T \ {y}
      OBVIOUS
    <3>3. Fits(U)
      BY <1>1, <3>2
    <3>4. SumOf(v, T) = v[y] + SumOf(v, U) /\ SumOf(w, T) = w[y] + SumOf(w, U)
      BY <2>1, <3>2, SumRemove
    <3>5. Cardinality(T) = Cardinality(U) + 1
      BY <2>1, <3>2, FS_RemoveElement
    <3>6. PICK k \in Nat, m \in Nat : k = Cardinality(U) /\ m = n * k
      BY <2>1
    <3>7. n * Cardinality(T) = m + n
      BY <3>5, <3>6
    <3>8. SumOf(v, U) - SumOf(w, U) \in (-m)..m
      BY <3>3, <3>6
    <3>9. SumOf(v, T) - SumOf(w, T) \in (-(m + n))..(m + n)
      <4>1. PICK a \in Nat, b \in Nat : a = SumOf(v, U) /\ b = SumOf(w, U)
        BY <2>1
      <4>2. PICK i \in Nat, j \in Nat : i = v[y] /\ j = w[y] /\ i - j \in (-n)..n
        OBVIOUS
      <4>3. QED
        BY <3>4, <3>8, <4>1, <4>2, <3>6
    <3>10. QED
      BY <3>7, <3>9
  <2>4. QED
    BY <2>2, <2>3
<1> HIDE DEF Good
<1>2. SUBSET S \subseteq Good
  BY <1>1, SubsetInduction
<1>3. QED
  BY <1>2 DEF Good

(* A multiple of the weights has that multiple of the sum.                 *)
LEMMA SumScales ==
    ASSUME NEW S, IsFiniteSet(S), NEW n \in Nat, NEW v, NEW w,
           \A x \in S : w[x] \in Nat /\ v[x] = n * w[x]
    PROVE  SumOf(v, S) = n * SumOf(w, S)
<1> DEFINE Good == {T \in SUBSET S : SumOf(v, T) = n * SumOf(w, T)}
<1>1. ASSUME NEW T \in SUBSET S, \A U \in SUBSET T : U # T => U \in Good
      PROVE  T \in Good
  <2>1. \A x \in S : v[x] \in Nat
    OBVIOUS
  <2>2. \A U \in SUBSET T : IsFiniteSet(U) /\ SumOf(w, U) \in Nat
    BY FS_Subset, SumIsNumber
  <2>3. CASE T = {}
    <3>1. SumOf(v, T) = 0 /\ SumOf(w, T) = 0
      BY <2>2, <2>3, SumStep
    <3>2. QED
      BY <3>1
  <2>4. CASE T # {}
    <3>1. PICK y \in T : TRUE
      BY <2>4
    <3>2. PICK U \in SUBSET T : U = T \ {y}
      OBVIOUS
    <3>3. SumOf(v, U) = n * SumOf(w, U)
      BY <1>1, <3>2
    <3>4. SumOf(v, T) = v[y] + SumOf(v, U) /\ SumOf(w, T) = w[y] + SumOf(w, U)
      BY <2>1, <2>2, <3>2, SumRemove
    <3>5. PICK a \in Nat, b \in Nat : a = SumOf(w, U) /\ b = w[y]
      BY <2>2
    <3>6. n * (b + a) = n * b + n * a
      BY <3>5
    <3>7. QED
      BY <3>3, <3>4, <3>5, <3>6
  <2>5. QED
    BY <2>3, <2>4
<1> HIDE DEF Good
<1>2. SUBSET S \subseteq Good
  BY <1>1, SubsetInduction
<1>3. QED
  BY <1>2 DEF Good

-----------------------------------------------------------------------------
(* Rows. *)

Counted(rows) == IsFiniteSet(rows) /\ \A r \in rows : r.count \in Nat

Counts(rows) == [r \in rows |-> r.count]

(* The recursion in Total.                                                 *)
Totals(rows, f) ==
    f = [T \in SUBSET rows |-> IF T = {} THEN 0 ELSE AnyOf(T).count + f[T \ {AnyOf(T)}]]

(* Total is the sum of the counts, and a number.                           *)
LEMMA TotalAddsUp ==
    ASSUME NEW rows, Counted(rows)
    PROVE  Total(rows) = SumOf(Counts(rows), rows) /\ Total(rows) \in Nat
<1> DEFINE w == Counts(rows)
<1>1. IsFiniteSet(rows) /\ \A r \in rows : w[r] \in Nat
  BY DEF Counted, Counts
<1>2. ASSUME NEW f PROVE Totals(rows, f) <=> AddsUp(w, rows, f)
  <2>1. \A T \in SUBSET rows : T # {} => w[AnyOf(T)] = AnyOf(T).count
    BY Chosen DEF Counts
  <2> HIDE DEF w
  <2>2. [T \in SUBSET rows |-> IF T = {} THEN 0 ELSE AnyOf(T).count + f[T \ {AnyOf(T)}]]
        = [T \in SUBSET rows |-> IF T = {} THEN 0 ELSE w[AnyOf(T)] + f[T \ {AnyOf(T)}]]
    BY <2>1
  <2>3. QED
    BY <2>2, Zenon DEF Totals, AddsUp
<1> HIDE DEF w
<1>3. PICK g : g = CHOOSE f : AddsUp(w, rows, f)
  OBVIOUS
<1>4. AddsUp(w, rows, g) /\ g[rows] = SumOf(w, rows) /\ g[rows] \in Nat
  BY <1>1, <1>3, SumIsNumber, Zenon DEF SumOf
<1>5. PICK t : t = CHOOSE f : Totals(rows, f)
  OBVIOUS
<1>6. AddsUp(w, rows, t)
  BY <1>2, <1>4, <1>5, Zenon
<1>7. t[rows] = g[rows]
  BY <1>1, <1>4, <1>6, SumsAgree
<1>8. Total(rows) = (CHOOSE f : Totals(rows, f))[rows]
  BY DEF Total, MapThenSumSet, MapThenFoldSet, Totals, AnyOf
<1>9. QED
  BY <1>4, <1>5, <1>7, <1>8 DEF w

-----------------------------------------------------------------------------
(* Rows of a table. *)

Copies(t, I) == MapThenSumSet(LAMBDA i : t[i].copies, I)

CopiesOf(t, I) == [i \in I |-> t[i].copies]

(* The recursion in Copies.                                                *)
CopiesAdd(t, I, f) ==
    f = [T \in SUBSET I |-> IF T = {} THEN 0 ELSE t[AnyOf(T)].copies + f[T \ {AnyOf(T)}]]

(* The copies of the entries of a table are added up, to a number.         *)
LEMMA CopiesAddUp ==
    ASSUME NEW t, NEW I, IsFiniteSet(I), \A i \in I : t[i].copies \in Nat
    PROVE  Copies(t, I) = SumOf(CopiesOf(t, I), I) /\ Copies(t, I) \in Nat
<1> DEFINE w == CopiesOf(t, I)
<1>1. \A i \in I : w[i] \in Nat
  BY DEF CopiesOf
<1>2. ASSUME NEW f PROVE CopiesAdd(t, I, f) <=> AddsUp(w, I, f)
  <2>1. \A T \in SUBSET I : T # {} => w[AnyOf(T)] = t[AnyOf(T)].copies
    BY Chosen DEF CopiesOf
  <2> HIDE DEF w
  <2>2. [T \in SUBSET I |-> IF T = {} THEN 0 ELSE t[AnyOf(T)].copies + f[T \ {AnyOf(T)}]]
        = [T \in SUBSET I |-> IF T = {} THEN 0 ELSE w[AnyOf(T)] + f[T \ {AnyOf(T)}]]
    BY <2>1
  <2>3. QED
    BY <2>2, Zenon DEF CopiesAdd, AddsUp
<1> HIDE DEF w
<1>3. PICK g : g = CHOOSE f : AddsUp(w, I, f)
  OBVIOUS
<1>4. AddsUp(w, I, g) /\ g[I] = SumOf(w, I) /\ g[I] \in Nat
  BY <1>1, <1>3, SumIsNumber, Zenon DEF SumOf
<1>5. PICK c : c = CHOOSE f : CopiesAdd(t, I, f)
  OBVIOUS
<1>6. AddsUp(w, I, c)
  BY <1>2, <1>4, <1>5, Zenon
<1>7. c[I] = g[I]
  BY <1>1, <1>4, <1>6, SumsAgree
<1>8. Copies(t, I) = (CHOOSE f : CopiesAdd(t, I, f))[I]
  BY DEF Copies, MapThenSumSet, MapThenFoldSet, CopiesAdd, AnyOf
<1>9. QED
  BY <1>4, <1>5, <1>7, <1>8 DEF w

(* What is known of the table: instants are integers, and an entry stands   *)
(* for one copy at least.                                                   *)
Recorded(t) ==
    /\ IsFiniteSet(DOMAIN t)
    /\ \A i \in DOMAIN t : t[i].at \in Int /\ t[i].copies \in Nat \ {0}

Hits(t, q)        == {i \in DOMAIN t : Covers(q, t[i])}
GroupOf(t, q, i)  == <<Trunc(t[i].at, q.unit), t[i].event_name>>
Groups(t, q)      == {GroupOf(t, q, i) : i \in Hits(t, q)}
Members(t, q, g)  == {i \in Hits(t, q) : GroupOf(t, q, i) = g}
RowOf(t, q, g)    == [bucket |-> g[1], event_name |-> g[2], count |-> Copies(t, Members(t, q, g))]

(* The aggregation, in these terms.                                        *)
LEMMA AggregateIsRows ==
    ASSUME NEW t, NEW q
    PROVE  Aggregate(t, q) = {RowOf(t, q, g) : g \in Groups(t, q)}
BY DEF Aggregate, RowOf, Groups, Members, GroupOf, Hits, Copies

(* An answer has finitely many rows, each with a number above zero.        *)
LEMMA RowsAreCounted ==
    ASSUME NEW t, NEW q, Recorded(t)
    PROVE  /\ Counted(Aggregate(t, q))
           /\ \A r \in Aggregate(t, q) : r.count > 0 /\ r.bucket \in Int
<1>1. IsFiniteSet(Hits(t, q))
  BY FS_Subset DEF Hits, Recorded
<1>2. IsFiniteSet(Aggregate(t, q))
  <2> DEFINE h == [i \in Hits(t, q) |-> RowOf(t, q, GroupOf(t, q, i))]
  <2>1. h \in Surjection(Hits(t, q), Aggregate(t, q))
    BY AggregateIsRows, Zenon DEF Surjection, Groups
  <2>2. QED
    BY <1>1, <2>1, FS_Surjection
<1>3. ASSUME NEW r \in Aggregate(t, q)
      PROVE  r.count \in Nat /\ r.count > 0 /\ r.bucket \in Int
  <2>1. PICK i \in Hits(t, q) : r = RowOf(t, q, GroupOf(t, q, i))
    BY AggregateIsRows DEF Groups
  <2> DEFINE M == Members(t, q, GroupOf(t, q, i))
             w == CopiesOf(t, M)
  <2>2. i \in M /\ IsFiniteSet(M) /\ M \subseteq DOMAIN t
    BY <1>1, FS_Subset DEF Members, Hits
  <2>3. \A m \in M : t[m].copies \in Nat /\ t[m].copies > 0
    BY <2>2 DEF Recorded
  <2> HIDE DEF M
  <2>4. r.count = Copies(t, M)
    BY <2>1 DEF RowOf, M
  <2>5. \A m \in M : w[m] \in Nat /\ w[m] > 0
    BY <2>3 DEF CopiesOf
  <2> HIDE DEF w
  <2>6. Copies(t, M) = SumOf(w, M) /\ Copies(t, M) \in Nat
    BY <2>2, <2>3, CopiesAddUp DEF w
  <2>7. SumOf(w, M) > 0
    <3>1. SumOf(w, M) = w[AnyOf(M)] + SumOf(w, M \ {AnyOf(M)})
      BY <2>2, <2>5, SumStep
    <3>2. AnyOf(M) \in M /\ M \ {AnyOf(M)} \in SUBSET M
      BY <2>2, Chosen
    <3>3. SumOf(w, M \ {AnyOf(M)}) \in Nat
      BY <2>2, <2>5, <3>2, SumIsNumber, FS_Subset
    <3>4. QED
      BY <2>5, <3>1, <3>2, <3>3
  <2>8. r.bucket = Trunc(t[i].at, q.unit)
    BY <2>1 DEF RowOf, GroupOf
  <2>9. Trunc(t[i].at, q.unit) \in Int
    BY <2>2, TimeAssumption DEF Recorded, Trunc, Length
  <2>10. QED
    BY <2>4, <2>6, <2>7, <2>8, <2>9
<1>4. QED
  BY <1>2, <1>3 DEF Counted

-----------------------------------------------------------------------------
(* What the summary says of the rows. *)

(* Some of the rows, too, have a total.                                    *)
LEMMA PartsAreCounted ==
    ASSUME NEW rows, Counted(rows), NEW part \in SUBSET rows
    PROVE  Counted(part) /\ Total(part) \in Nat
<1>1. Counted(part)
  BY FS_Subset DEF Counted
<1>2. QED
  BY <1>1, TotalAddsUp

(* The breakdown reports a rise only of an event that rose, and a fall only *)
(* of one that fell (WhatsChangedSection, biggestChange in useAnalytics).   *)
LEMMA ChangesAreTrue ==
    ASSUME NEW rows, NEW before, Counted(rows), Counted(before), NEW b \in Breakdown(rows, before)
    PROVE  /\ b.delta \in Int
           /\ b.delta > 0 => b.events > Total(Of(before, b.event_name))
           /\ b.delta < 0 => b.events < Total(Of(before, b.event_name))
<1>1. PICK n \in Names(rows) :
        b = [event_name |-> n,
             events     |-> Total(Of(rows, n)),
             share      |-> Tenths(Total(Of(rows, n)), Total(rows)),
             delta      |-> Delta(Total(Of(rows, n)), Total(Of(before, n)))]
  BY DEF Breakdown
<1>2. PICK now \in Nat, ago \in Nat : now = Total(Of(rows, n)) /\ ago = Total(Of(before, n))
  BY PartsAreCounted DEF Of
<1>3. b.event_name = n /\ b.events = now /\ b.delta = Delta(now, ago)
  BY <1>1, <1>2
<1>4. QED
  BY <1>2, <1>3, ChangesHaveDirection DEF Delta

(* The total of some rows is the sum of their counts among all.            *)
LEMMA TotalOfPart ==
    ASSUME NEW rows, Counted(rows), NEW part \in SUBSET rows
    PROVE  Total(part) = SumOf(Counts(rows), part)
<1>1. Counted(part) /\ IsFiniteSet(part)
  BY PartsAreCounted DEF Counted
<1>2. Total(part) = SumOf(Counts(part), part)
  BY <1>1, TotalAddsUp
<1>3. PICK v, w : v = Counts(part) /\ w = Counts(rows)
  OBVIOUS
<1>4. \A r \in part : v[r] \in Nat /\ w[r] = v[r]
  BY <1>3 DEF Counted, Counts
<1>5. SumOf(w, part) = SumOf(v, part)
  BY <1>1, <1>4, SumsEqual
<1>6. QED
  BY <1>2, <1>3, <1>5

(* The shares of a breakdown.                                              *)
Shares(list) == MapThenSumSet(LAMBDA b : b.share, list)

ShareOf(list) == [b \in list |-> b.share]

(* The recursion in Shares.                                                *)
SharesAdd(list, f) ==
    f = [T \in SUBSET list |-> IF T = {} THEN 0 ELSE AnyOf(T).share + f[T \ {AnyOf(T)}]]

(* Shares are added up, too.                                               *)
LEMMA SharesAddUp ==
    ASSUME NEW list, IsFiniteSet(list), \A b \in list : b.share \in Nat
    PROVE  Shares(list) = SumOf(ShareOf(list), list)
<1> DEFINE w == ShareOf(list)
<1>1. \A b \in list : w[b] \in Nat
  BY DEF ShareOf
<1>2. ASSUME NEW f PROVE SharesAdd(list, f) <=> AddsUp(w, list, f)
  <2>1. \A T \in SUBSET list : T # {} => w[AnyOf(T)] = AnyOf(T).share
    BY Chosen DEF ShareOf
  <2> HIDE DEF w
  <2>2. [T \in SUBSET list |-> IF T = {} THEN 0 ELSE AnyOf(T).share + f[T \ {AnyOf(T)}]]
        = [T \in SUBSET list |-> IF T = {} THEN 0 ELSE w[AnyOf(T)] + f[T \ {AnyOf(T)}]]
    BY <2>1
  <2>3. QED
    BY <2>2, Zenon DEF SharesAdd, AddsUp
<1> HIDE DEF w
<1>3. PICK g : g = CHOOSE f : AddsUp(w, list, f)
  OBVIOUS
<1>4. AddsUp(w, list, g) /\ g[list] = SumOf(w, list)
  BY <1>1, <1>3, SumIsNumber, Zenon DEF SumOf
<1>5. PICK c : c = CHOOSE f : SharesAdd(list, f)
  OBVIOUS
<1>6. AddsUp(w, list, c)
  BY <1>2, <1>4, <1>5, Zenon
<1>7. c[list] = g[list]
  BY <1>1, <1>4, <1>6, SumsAgree
<1>8. Shares(list) = (CHOOSE f : SharesAdd(list, f))[list]
  BY DEF Shares, MapThenSumSet, MapThenFoldSet, SharesAdd, AnyOf
<1>9. QED
  BY <1>4, <1>5, <1>7, <1>8 DEF w

(* A rounded share is no less than nothing, and off by half at most.       *)
LEMMA SharesAreNumbers ==
    ASSUME NEW part \in Nat, NEW whole \in Nat \ {0}, NEW share, share = Tenths(part, whole)
    PROVE  share \in Nat /\ (2 * whole) * share - 2000 * part \in (-whole)..whole
<1>1. PICK a \in Nat : a = 1000 * part
  OBVIOUS
<1>2. PICK y \in Int : y = Round(a, whole) /\ 2 * (y * whole - a) \in (-whole)..whole
  <2>1. a \in Int
    OBVIOUS
  <2>2. Round(a, whole) \in Int /\ 2 * (Round(a, whole) * whole - a) \in (-whole)..whole
    BY <2>1, RoundsToNearest
  <2>3. QED
    BY <2>2, Zenon
<1>3. y = share
  BY <1>1, <1>2 DEF Tenths
<1>4. PICK z \in Int : z = y * whole
  OBVIOUS
<1>5. y < 0 => z <= -whole
  BY <1>4
<1>6. y >= 0
  BY <1>2, <1>4, <1>5
<1>7. (2 * whole) * y = 2 * z
  BY <1>4
<1>8. QED
  BY <1>1, <1>2, <1>3, <1>4, <1>6, <1>7

(* A common factor can be left out.                                        *)
LEMMA Cancels ==
    ASSUME NEW n \in Nat \ {0}, NEW a \in Int, NEW b \in Int, n * a <= n * b
    PROVE  a <= b
  OBVIOUS

(* The breakdown accounts for all events, and its shares differ from the    *)
(* whole by half a tenth of a percent for each event name, at most.         *)
LEMMA SharesFit ==
    ASSUME NEW rows, NEW before, Counted(rows), Total(rows) > 0
    PROVE  LET list == Breakdown(rows, before)
           IN 2 * (Shares(list) - 1000) \in (-Cardinality(list))..Cardinality(list)
<1> DEFINE Line(n) ==
             [event_name |-> n,
              events     |-> Total(Of(rows, n)),
              share      |-> Tenths(Total(Of(rows, n)), Total(rows)),
              delta      |-> Delta(Total(Of(rows, n)), Total(Of(before, n)))]
<1>1. PICK list : list = Breakdown(rows, before)
  OBVIOUS
<1>2. PICK w : w = Counts(rows)
  OBVIOUS
<1>3. IsFiniteSet(rows) /\ \A r \in rows : w[r] \in Nat
  BY <1>2 DEF Counted, Counts
<1>4. PICK all \in Nat \ {0} : all = Total(rows) /\ all = SumOf(w, rows)
  BY <1>2, TotalAddsUp
<1>5. list = {Line(n) : n \in Names(rows)}
  BY <1>1 DEF Breakdown
<1> DEFINE h == [r \in rows |-> Line(r.event_name)]
<1>6. IsFiniteSet(list)
  <2>1. h \in Surjection(rows, list)
    BY <1>5, Zenon DEF Surjection, Names
  <2>2. QED
    BY <1>3, <2>1, FS_Surjection
<1>7. ASSUME NEW b \in list
      PROVE  /\ \E P \in SUBSET rows : (\A r \in rows : r \in P <=> h[r] = b) /\ b.events = SumOf(w, P)
             /\ b.events \in Nat
             /\ b.share = Tenths(b.events, all)
  <2>1. PICK n \in Names(rows) : b = Line(n)
    BY <1>5
  <2>2. b.event_name = n /\ b.events = Total(Of(rows, n)) /\ b.share = Tenths(b.events, all)
    BY <1>4, <2>1
  <2>3. Of(rows, n) \in SUBSET rows /\ \A r \in rows : r \in Of(rows, n) <=> h[r] = b
    <3>1. ASSUME NEW r \in rows PROVE h[r] = b <=> r.event_name = n
      <4>1. h[r].event_name = r.event_name
        OBVIOUS
      <4>2. r.event_name = n => h[r] = b
        BY <2>1
      <4>3. QED
        BY <2>2, <4>1, <4>2
    <3>2. QED
      BY <3>1 DEF Of
  <2>4. Total(Of(rows, n)) = SumOf(w, Of(rows, n)) /\ Total(Of(rows, n)) \in Nat
    BY <1>2, TotalOfPart, PartsAreCounted DEF Of
  <2> HIDE DEF Line, h
  <2>5. QED
    BY <2>2, <2>3, <2>4
<1>8. \A r \in rows : h[r] \in list
  BY <1>5 DEF Names
<1> HIDE DEF Line, h
<1> DEFINE ev == [b \in list |-> b.events]
           lo == [b \in list |-> 2000 * b.events]
           hi == [b \in list |-> (2 * all) * b.share]
           sh == ShareOf(list)
<1>9. \A b \in list :
        /\ ev[b] \in Nat
        /\ \E P \in SUBSET rows : (\A r \in rows : r \in P <=> h[r] = b) /\ ev[b] = SumOf(w, P)
  BY <1>7
<1>10. \A b \in list : /\ sh[b] \in Nat /\ sh[b] = b.share /\ hi[b] = (2 * all) * sh[b]
                       /\ lo[b] = 2000 * ev[b]
                       /\ hi[b] \in Nat /\ lo[b] \in Nat /\ hi[b] - lo[b] \in (-all)..all
  <2> SUFFICES ASSUME NEW b \in list
               PROVE  /\ sh[b] \in Nat /\ sh[b] = b.share /\ hi[b] = (2 * all) * sh[b]
                      /\ lo[b] = 2000 * ev[b]
                      /\ hi[b] \in Nat /\ lo[b] \in Nat /\ hi[b] - lo[b] \in (-all)..all
    OBVIOUS
  <2>1. PICK e \in Nat : e = b.events /\ b.share = Tenths(e, all)
    BY <1>7
  <2>2. PICK y : y = Tenths(e, all)
    OBVIOUS
  <2>3. y = b.share
    BY <2>1, <2>2
  <2>4. y \in Nat /\ (2 * all) * y - 2000 * e \in (-all)..all
    BY <2>2, SharesAreNumbers
  <2>5. sh[b] = y /\ hi[b] = (2 * all) * y /\ lo[b] = 2000 * e /\ ev[b] = e
    BY <2>1, <2>3 DEF ShareOf
  <2> HIDE DEF sh, hi, lo, ev
  <2>6. (2 * all) * y \in Nat /\ 2000 * e \in Nat
    BY <2>4
  <2>7. QED
    BY <2>1, <2>3, <2>4, <2>5, <2>6
<1>11. Shares(list) = SumOf(sh, list)
  BY <1>6, <1>10, SharesAddUp
<1> HIDE DEF ev, lo, hi, sh
<1>12. SumOf(ev, list) = all
  <2>1. Grouped(w, rows, h, list, ev)
    BY <1>9 DEF Grouped
  <2>2. QED
    BY <1>3, <1>4, <1>6, <1>8, <2>1, SumOfGroups
<1>13. PICK x \in Nat : x = SumOf(sh, list)
  BY <1>6, <1>10, SumIsNumber
<1>14. SumOf(hi, list) = (2 * all) * x /\ SumOf(lo, list) = 2000 * all
  <2>1. PICK n \in Nat, m \in Nat : n = 2 * all /\ m = 2000
    OBVIOUS
  <2>2. \A b \in list : sh[b] \in Nat /\ hi[b] = n * sh[b]
    BY <1>10, <2>1
  <2>3. \A b \in list : ev[b] \in Nat /\ lo[b] = m * ev[b]
    <3> SUFFICES ASSUME NEW b \in list PROVE ev[b] \in Nat /\ lo[b] = m * ev[b]
      OBVIOUS
    <3>1. ev[b] \in Nat
      BY <1>9
    <3>2. lo[b] = 2000 * ev[b]
      BY <1>10
    <3>3. QED
      BY <2>1, <3>1, <3>2
  <2>4. SumOf(hi, list) = n * SumOf(sh, list)
    BY <1>6, <2>2, SumScales
  <2>5. SumOf(lo, list) = m * SumOf(ev, list)
    BY <1>6, <2>3, SumScales
  <2>6. QED
    BY <1>12, <1>13, <2>1, <2>4, <2>5
<1>15. PICK k \in Nat : k = Cardinality(list)
  BY <1>6, FS_CardinalityType
<1>16. (2 * all) * x - 2000 * all \in (-(all * k))..(all * k)
  BY <1>6, <1>10, <1>14, <1>15, SumsApart
<1>17. all * (2 * (x - 1000)) <= all * k /\ all * (-k) <= all * (2 * (x - 1000))
  <2>1. PICK y \in Int : y = all * x
    OBVIOUS
  <2>2. (2 * all) * x = 2 * y /\ all * (2 * (x - 1000)) = 2 * y - 2000 * all /\ all * (-k) = -(all * k)
    BY <2>1
  <2>3. QED
    BY <1>16, <2>1, <2>2
<1>18. 2 * (x - 1000) <= k /\ -k <= 2 * (x - 1000)
  BY <1>17, Cancels
<1>19. QED
  BY <1>1, <1>11, <1>13, <1>15, <1>18

(* The events of a line of the breakdown are the copies of those entries    *)
(* that the question would cover if it asked for that event alone.          *)
LEMMA EventsAreCopies ==
    ASSUME NEW t, NEW q, Recorded(t), q.event_name = None,
           NEW name \in STRING, NEW I, I = {i \in Hits(t, q) : t[i].event_name = name}
    PROVE  Total(Of(Aggregate(t, q), name)) = Copies(t, I)
<1> DEFINE Row(i) == RowOf(t, q, GroupOf(t, q, i))
<1>1. PICK rows, part : rows = Aggregate(t, q) /\ part = Of(rows, name)
  OBVIOUS
<1>2. Counted(rows) /\ part \in SUBSET rows
  BY <1>1, RowsAreCounted DEF Of
<1>3. Counted(part) /\ IsFiniteSet(part)
  BY <1>2, PartsAreCounted DEF Counted
<1>4. Total(part) = SumOf(Counts(part), part)
  BY <1>3, TotalAddsUp
<1>5. PICK w, c : w = CopiesOf(t, I) /\ c = Counts(part)
  OBVIOUS
<1>6. IsFiniteSet(I) /\ \A i \in I : i \in DOMAIN t /\ t[i].copies \in Nat /\ w[i] \in Nat
  <2>1. I \in SUBSET DOMAIN t
    BY DEF Hits
  <2>2. \A i \in I : t[i].copies \in Nat /\ w[i] = t[i].copies
    BY <1>5, <2>1 DEF Recorded, CopiesOf
  <2>3. QED
    BY <2>1, <2>2, FS_Subset DEF Recorded
<1> DEFINE h == [i \in I |-> Row(i)]
<1>7. ASSUME NEW i \in I PROVE h[i] \in part
  <2>1. Row(i) \in rows /\ Row(i).event_name = name
    BY <1>1, AggregateIsRows DEF Groups, RowOf, GroupOf
  <2>2. QED
    BY <1>1, <2>1 DEF Of
<1>8. ASSUME NEW r \in part
      PROVE  \E P \in SUBSET I : (\A i \in I : i \in P <=> h[i] = r) /\ c[r] = SumOf(w, P)
  <2>1. PICK k \in Hits(t, q) : r = Row(k)
    BY <1>1, AggregateIsRows DEF Groups, Of
  <2>2. PICK M : M = Members(t, q, GroupOf(t, q, k))
    OBVIOUS
  <2>3. t[k].event_name = name /\ c[r] = Copies(t, M)
    <3>1. r.event_name = t[k].event_name /\ r.count = Copies(t, M)
      BY <2>1, <2>2 DEF RowOf, GroupOf
    <3>2. QED
      BY <1>1, <1>5, <3>1 DEF Of, Counts
  <2>4. M = {i \in I : h[i] = r}
    <3>1. ASSUME NEW i \in Hits(t, q)
          PROVE  GroupOf(t, q, i) = GroupOf(t, q, k) <=> i \in I /\ Row(i) = r
      <4>1. Row(i) = r => GroupOf(t, q, i) = GroupOf(t, q, k)
        BY <2>1 DEF RowOf, GroupOf
      <4>2. GroupOf(t, q, i) = GroupOf(t, q, k) => t[i].event_name = t[k].event_name
        BY DEF GroupOf
      <4>3. GroupOf(t, q, i) = GroupOf(t, q, k) => Row(i) = r
        BY <2>1
      <4>4. QED
        BY <2>3, <4>1, <4>2, <4>3
    <3>2. I \subseteq Hits(t, q)
      OBVIOUS
    <3>3. QED
      BY <2>2, <3>1, <3>2 DEF Members
  <2>5. M \in SUBSET I
    BY <2>4
  <2>6. IsFiniteSet(M) /\ \A i \in M : t[i].copies \in Nat
    BY <1>6, <2>5, FS_Subset
  <2>7. Copies(t, M) = SumOf(CopiesOf(t, M), M)
    BY <2>6, CopiesAddUp
  <2>8. \A i \in M : w[i] \in Nat /\ CopiesOf(t, M)[i] = w[i]
    BY <1>5, <1>6, <2>5 DEF CopiesOf
  <2>9. SumOf(CopiesOf(t, M), M) = SumOf(w, M)
    BY <2>6, <2>8, SumsEqual
  <2>10. \A i \in I : i \in M <=> h[i] = r
    BY <2>4
  <2>11. QED
    BY <2>3, <2>5, <2>7, <2>9, <2>10
<1> HIDE DEF h, Row
<1>9. SumOf(c, part) = SumOf(w, I)
  <2>1. IsFiniteSet(I) /\ \A i \in I : w[i] \in Nat
    BY <1>6
  <2>2. IsFiniteSet(part) /\ \A i \in I : h[i] \in part
    BY <1>3, <1>7
  <2>3. Grouped(w, I, h, part, c)
    BY <1>8 DEF Grouped
  <2>4. QED
    BY <2>1, <2>2, <2>3, SumOfGroups
<1>10. Copies(t, I) = SumOf(w, I)
  BY <1>5, <1>6, CopiesAddUp
<1>11. QED
  BY <1>1, <1>4, <1>5, <1>9, <1>10

(* The hours of a day are those of its heatmap.                            *)
LEMMA HoursOfTheDay ==
    ASSUME NEW bucket \in Int
    PROVE  (bucket \div Day) % 7 \in 0..6 /\ (bucket % Day) \div Hour \in 0..(Day \div Hour - 1)
<1>1. Hour \in Nat \ {0} /\ Day \in Nat \ {0}
  BY TimeAssumption
<1>2. PICK k \in Int : k = Day \div Hour /\ Day = Hour * k
  <2>1. Day \div Hour \in Int /\ Day = Hour * (Day \div Hour) + (Day % Hour)
    BY <1>1, DivMod
  <2>2. Day = Hour * (Day \div Hour)
    BY <1>1, <2>1, TimeAssumption
  <2>3. QED
    BY <2>1, <2>2, Zenon
<1>3. PICK m \in Int : m = bucket % Day /\ 0 <= m /\ m < Day
  <2>1. bucket % Day \in 0..(Day - 1)
    BY <1>1, DivMod
  <2>2. QED
    BY <1>1, <2>1
<1>4. PICK d \in Int, e \in Int : d = m \div Hour /\ m = Hour * d + e /\ 0 <= e /\ e < Hour
  <2>1. /\ m \div Hour \in Int /\ m % Hour \in 0..(Hour - 1)
        /\ m = Hour * (m \div Hour) + (m % Hour)
    BY <1>1, DivMod
  <2>2. PICK e : e = m % Hour
    OBVIOUS
  <2>3. e \in Int /\ 0 <= e /\ e < Hour
    BY <1>1, <2>1, <2>2
  <2>4. QED
    BY <2>1, <2>2, <2>3, Zenon
<1>5. d < k
  <2>1. Hour * d < Hour * k
    <3>1. PICK x \in Int, y \in Int : x = Hour * d /\ y = Hour * k
      BY <1>1
    <3>2. QED
      BY <1>2, <1>3, <1>4, <3>1
  <2>2. QED
    BY <1>1, <2>1
<1>6. 0 <= d
  <2>1. Hour * (-1) < Hour * d
    <3>1. PICK x \in Int : x = Hour * d
      BY <1>1
    <3>2. Hour * (-1) = -Hour
      BY <1>1
    <3>3. QED
      BY <1>1, <1>3, <1>4, <3>1, <3>2
  <2>2. QED
    BY <1>1, <2>1
<1>7. (bucket \div Day) % 7 \in 0..6
  <2>1. PICK n \in Int : n = bucket \div Day
    BY <1>1, DivMod
  <2>2. QED
    BY <2>1
<1>8. QED
  BY <1>2, <1>3, <1>4, <1>5, <1>6, <1>7

(* The cells of a heatmap, added up.                                       *)
Cells(map) == MapThenSumSet(LAMBDA c : map[c], DOMAIN map)

(* The cells of the heatmap add up to the total (heatmapData in            *)
(* useAnalytics).                                                          *)
LEMMA HeatmapLosesNothing ==
    ASSUME NEW rows, Counted(rows), \A r \in rows : r.bucket \in Int
    PROVE  Cells(Heatmap(rows)) = Total(rows)
<1> DEFINE CellOf(r) == <<(r.bucket \div Day) % 7, (r.bucket % Day) \div Hour>>
<1>1. PICK map : map = Heatmap(rows)
  OBVIOUS
<1>2. PICK cells : cells = (0..6) \X (0..(Day \div Hour - 1))
  OBVIOUS
<1>3. IsFiniteSet(cells)
  <2>1. Day \div Hour \in Int
    BY TimeAssumption
  <2>2. IsFiniteSet(0..6) /\ IsFiniteSet(0..(Day \div Hour - 1))
    <3>1. PICK k \in Int : k = Day \div Hour - 1
      BY <2>1
    <3>2. 0 \in Int /\ 6 \in Int
      OBVIOUS
    <3>3. IsFiniteSet(0..6) /\ IsFiniteSet(0..k)
      BY <3>2, FS_Interval, Zenon
    <3>4. QED
      BY <3>1, <3>3
  <2>3. QED
    BY <1>2, <2>2, FS_Product
<1>4. PICK w : w = Counts(rows)
  OBVIOUS
<1>5. IsFiniteSet(rows) /\ (\A r \in rows : w[r] \in Nat) /\ Total(rows) = SumOf(w, rows)
  BY <1>4, TotalAddsUp DEF Counted, Counts
<1>6. PICK h : h = [r \in rows |-> CellOf(r)]
  OBVIOUS
<1>7. \A r \in rows : h[r] \in cells
  BY <1>2, <1>6, HoursOfTheDay
<1>8. ASSUME NEW c \in cells
      PROVE  \E P \in SUBSET rows : (\A r \in rows : r \in P <=> h[r] = c) /\ map[c] = SumOf(w, P)
  <2>1. PICK part : part = {r \in rows : h[r] = c}
    OBVIOUS
  <2>2. part = {r \in rows : (r.bucket \div Day) % 7 = c[1] /\ (r.bucket % Day) \div Hour = c[2]}
    <3>1. c = <<c[1], c[2]>>
      BY <1>2
    <3>2. \A r \in rows : CellOf(r) = c <=> (r.bucket \div Day) % 7 = c[1] /\ (r.bucket % Day) \div Hour = c[2]
      <4> SUFFICES ASSUME NEW r \in rows
                   PROVE  CellOf(r) = c <=> (r.bucket \div Day) % 7 = c[1] /\ (r.bucket % Day) \div Hour = c[2]
        OBVIOUS
      <4>1. PICK x, y : x = (r.bucket \div Day) % 7 /\ y = (r.bucket % Day) \div Hour
        OBVIOUS
      <4>2. <<x, y>> = c <=> x = c[1] /\ y = c[2]
        BY <3>1
      <4>3. QED
        BY <4>1, <4>2
    <3>3. QED
      BY <1>6, <2>1, <3>2
  <2>3. map[c] = Total(part)
    BY <1>1, <1>2, <2>2 DEF Heatmap
  <2>4. Total(part) = SumOf(w, part)
    BY <1>4, <2>1, TotalOfPart
  <2>5. part \in SUBSET rows /\ \A r \in rows : r \in part <=> h[r] = c
    BY <2>1
  <2>6. QED
    BY <2>3, <2>4, <2>5
<1>9. SumOf(map, cells) = SumOf(w, rows)
  <2>1. Grouped(w, rows, h, cells, map)
    BY <1>8 DEF Grouped
  <2>2. IsFiniteSet(rows) /\ \A r \in rows : w[r] \in Nat
    BY <1>5
  <2>3. QED
    BY <1>3, <1>7, <2>1, <2>2, SumOfGroups
<1>10. DOMAIN map = cells
  BY <1>1, <1>2 DEF Heatmap
<1>11. Cells(map) = SumOf(map, DOMAIN map)
  BY DEF Cells, MapThenSumSet, MapThenFoldSet, SumOf, AddsUp, AnyOf
<1>12. QED
  BY <1>1, <1>5, <1>9, <1>10, <1>11

(* An answer with rows has events.                                         *)
LEMMA RowsHaveEvents ==
    ASSUME NEW rows, Counted(rows), rows # {}, \A r \in rows : r.count > 0
    PROVE  Total(rows) > 0
<1>1. PICK r \in rows : TRUE
  OBVIOUS
<1>2. PICK w : w = Counts(rows)
  OBVIOUS
<1>3. IsFiniteSet(rows) /\ \A x \in rows : w[x] \in Nat /\ w[x] > 0
  BY <1>2 DEF Counted, Counts
<1>4. SumOf(w, rows) = w[r] + SumOf(w, rows \ {r})
  BY <1>3, SumRemove
<1>5. SumOf(w, rows \ {r}) \in Nat
  <2>1. IsFiniteSet(rows \ {r})
    BY <1>3, FS_Subset
  <2>2. QED
    BY <1>3, <2>1, SumIsNumber
<1>6. Total(rows) = SumOf(w, rows)
  BY <1>2, TotalAddsUp
<1>7. QED
  BY <1>3, <1>4, <1>5, <1>6

-----------------------------------------------------------------------------
(* Buckets in their order. *)

Earlier(S, b) == {c \in S : c < b}

(* The later of two instants has more before it.                           *)
LEMMA LaterHasMoreBefore ==
    ASSUME NEW S \in SUBSET Int, IsFiniteSet(S), NEW b \in S
    PROVE  /\ Cardinality(Earlier(S, b)) \in 0..(Cardinality(S) - 1)
           /\ \A c \in S : b < c => Cardinality(Earlier(S, b)) < Cardinality(Earlier(S, c))
<1>1. ASSUME NEW U \in SUBSET S
      PROVE  IsFiniteSet(U) /\ Cardinality(U) \in Nat
  BY FS_Subset, FS_CardinalityType
<1>2. ASSUME NEW U \in SUBSET S, NEW V \in SUBSET U, NEW x \in U, x \notin V
      PROVE  Cardinality(V) < Cardinality(U)
  <2>1. Cardinality(V) <= Cardinality(U) /\ (Cardinality(U) = Cardinality(V) => U = V)
    BY <1>1, FS_Subset
  <2>2. U # V
    BY <1>2
  <2>3. Cardinality(U) \in Nat /\ Cardinality(V) \in Nat
    BY <1>1
  <2>4. QED
    BY <2>1, <2>2, <2>3
<1>3. Earlier(S, b) \in SUBSET S /\ b \notin Earlier(S, b) /\ S \in SUBSET S
  BY DEF Earlier
<1>4. Cardinality(Earlier(S, b)) < Cardinality(S)
  BY <1>2, <1>3
<1>5. ASSUME NEW c \in S, b < c PROVE Cardinality(Earlier(S, b)) < Cardinality(Earlier(S, c))
  <2>1. Earlier(S, c) \in SUBSET S /\ Earlier(S, b) \in SUBSET Earlier(S, c) /\ b \in Earlier(S, c)
    <3>1. \A x \in S : x < b => x < c
      <4> SUFFICES ASSUME NEW x \in S, x < b PROVE x < c
        OBVIOUS
      <4>1. x \in Int /\ b \in Int /\ c \in Int
        OBVIOUS
      <4>2. QED
        BY <1>5, <4>1
    <3>2. QED
      BY <1>5, <3>1 DEF Earlier
  <2>2. QED
    BY <1>2, <1>3, <2>1
<1>6. QED
  BY <1>1, <1>3, <1>4, <1>5

(* Every place is taken, by one instant, in the order of time.              *)
LEMMA PlacesAreTaken ==
    ASSUME NEW S \in SUBSET Int, IsFiniteSet(S), NEW n, n = Cardinality(S), NEW seq,
           \A i \in 1..n : (\E b \in S : Cardinality(Earlier(S, b)) = i - 1)
                            => seq[i] \in S /\ Cardinality(Earlier(S, seq[i])) = i - 1
    PROVE  /\ n \in Nat
           /\ \A i \in 1..n : seq[i] \in S
           /\ \A b \in S : \E i \in 1..n : seq[i] = b
           /\ \A i, j \in 1..n : i < j => seq[i] < seq[j]
<1>1. n \in Nat
  BY FS_CardinalityType
<1> DEFINE place == [b \in S |-> Cardinality(Earlier(S, b))]
           Places == {place[b] : b \in S}
<1>2. \A b \in S : place[b] \in 0..(n - 1) /\ \A c \in S : b < c => place[b] < place[c]
  BY LaterHasMoreBefore
<1>3. place \in Bijection(S, Places)
  <2>1. \A b, c \in S : place[b] = place[c] => b = c
    <3> SUFFICES ASSUME NEW b \in S, NEW c \in S, b # c PROVE place[b] # place[c]
      BY Zenon
    <3>1. b \in Int /\ c \in Int /\ place[b] \in Int /\ place[c] \in Int
      BY <1>1, <1>2
    <3>2. b < c \/ c < b
      BY <3>1
    <3>3. place[b] < place[c] \/ place[c] < place[b]
      BY <1>2, <3>2
    <3> HIDE DEF place
    <3>4. QED
      BY <3>1, <3>3
  <2>2. place \in [S -> Places]
    OBVIOUS
  <2>3. IsInjective(place)
    BY <2>1 DEF IsInjective
  <2> HIDE DEF place
  <2>4. \A p \in Places : \E b \in S : place[b] = p
    BY Zenon
  <2>5. QED
    BY <2>2, <2>3, <2>4, Zenon DEF Bijection, Injection, Surjection
<1>4. Cardinality(Places) = n
  BY <1>3, FS_Bijection, Zenon DEF ExistsBijection
<1>5. Places = 0..(n - 1)
  <2>1. Places \in SUBSET (0..(n - 1))
    BY <1>2
  <2>2. PICK m \in Int : m = n - 1
    BY <1>1
  <2>3. IsFiniteSet(0..m) /\ Cardinality(0..m) = n
    <3>1. 0 \in Int
      OBVIOUS
    <3>2. IsFiniteSet(0..m) /\ Cardinality(0..m) = IF 0 > m THEN 0 ELSE m - 0 + 1
      BY <3>1, FS_Interval, Zenon
    <3>3. QED
      BY <1>1, <2>2, <3>2
  <2>4. QED
    BY <1>4, <2>1, <2>2, <2>3, FS_Subset
<1>6. \A i \in 1..n : seq[i] \in S /\ place[seq[i]] = i - 1
  <2> SUFFICES ASSUME NEW i \in 1..n PROVE seq[i] \in S /\ place[seq[i]] = i - 1
    OBVIOUS
  <2>1. i - 1 \in 0..(n - 1)
    BY <1>1
  <2>2. \E b \in S : Cardinality(Earlier(S, b)) = i - 1
    BY <1>5, <2>1
  <2>3. seq[i] \in S /\ Cardinality(Earlier(S, seq[i])) = i - 1
    BY <2>2
  <2>4. QED
    BY <2>3
<1> HIDE DEF Places
<1>7. \A b, c \in S : place[b] = place[c] => b = c
  BY <1>3, Zenon DEF Bijection, Injection, IsInjective
<1> HIDE DEF place
<1>8. ASSUME NEW b \in S PROVE \E i \in 1..n : seq[i] = b
  <2>1. PICK i : i = place[b] + 1
    OBVIOUS
  <2>2. i \in 1..n /\ place[b] = i - 1
    BY <1>1, <1>2, <2>1
  <2>3. seq[i] \in S /\ place[seq[i]] = i - 1
    BY <1>6, <2>2
  <2>4. seq[i] = b
    BY <1>7, <2>2, <2>3
  <2>5. QED
    BY <2>2, <2>4
<1>9. ASSUME NEW i \in 1..n, NEW j \in 1..n, i < j PROVE seq[i] < seq[j]
  <2>1. /\ seq[i] \in S /\ seq[j] \in S /\ seq[i] \in Int /\ seq[j] \in Int
        /\ place[seq[i]] = i - 1 /\ place[seq[j]] = j - 1
    BY <1>6
  <2>2. PICK b \in S, c \in S : b = seq[i] /\ c = seq[j] /\ place[b] = i - 1 /\ place[c] = j - 1
    BY <2>1
  <2>3. c < b => j - 1 < i - 1
    BY <1>2, <2>2
  <2>4. b # c
    <3>1. b = c => i - 1 = j - 1
      BY <2>2
    <3>2. QED
      BY <1>1, <1>9, <3>1
  <2>5. i \in Int /\ j \in Int /\ b \in Int /\ c \in Int
    OBVIOUS
  <2>6. b < c
    BY <1>9, <2>3, <2>4, <2>5
  <2>7. QED
    BY <2>2, <2>6
<1>10. QED
  BY <1>1, <1>6, <1>8, <1>9

(* There is a greatest number in a finite set of some.                     *)
LEMMA Greatest ==
    ASSUME NEW S \in SUBSET Int, IsFiniteSet(S), S # {}
    PROVE  Max(S) \in S /\ \A x \in S : Max(S) >= x
<1> DEFINE Good == {T \in SUBSET S : T # {} => \E m \in T : \A x \in T : m >= x}
<1>1. ASSUME NEW T \in SUBSET S, \A U \in SUBSET T : U # T => U \in Good
      PROVE  T \in Good
  <2>1. ASSUME T # {} PROVE \E m \in T : \A x \in T : m >= x
    <3>1. PICK y \in T : TRUE
      BY <2>1
    <3>2. PICK U \in SUBSET T : U = T \ {y}
      OBVIOUS
    <3>3. CASE U = {}
      BY <3>2, <3>3
    <3>4. CASE U # {}
      <4>1. U \in Good
        BY <1>1, <3>2
      <4>2. PICK m \in U : \A x \in U : m >= x
        BY <3>4, <4>1
      <4>3. m \in Int /\ y \in Int /\ \A x \in U : x \in Int
        OBVIOUS
      <4>4. CASE m >= y
        BY <3>2, <4>2, <4>4
      <4>5. CASE y > m
        <5>1. \A x \in U : y >= x
          BY <4>2, <4>3, <4>5
        <5>2. QED
          BY <3>2, <4>3, <5>1
      <4>6. QED
        BY <4>3, <4>4, <4>5
    <3>5. QED
      BY <3>3, <3>4
  <2>2. QED
    BY <2>1
<1> HIDE DEF Good
<1>2. SUBSET S \subseteq Good
  BY <1>1, SubsetInduction
<1>3. \E m \in S : \A x \in S : m >= x
  BY <1>2 DEF Good
<1>4. QED
  BY <1>3 DEF Max

(* The points of a series, added up from the left.                         *)
Points(seq) == FoldLeft(+, 0, seq)

(* The recursion in Points.                                                *)
PointsAdd(seq, f) ==
    f = [T \in SUBSET (DOMAIN seq) |-> IF T = {} THEN 0 ELSE f[T \ {Max(T)}] + seq[Max(T)]]

(* Adding up from the left gives the sum.                                  *)
LEMMA PointsAddUp ==
    ASSUME NEW seq, NEW n \in Nat, DOMAIN seq = 1..n, \A i \in 1..n : seq[i] \in Nat
    PROVE  Points(seq) = SumOf(seq, 1..n)
<1>1. PICK D \in SUBSET Int : D = 1..n /\ IsFiniteSet(D)
  BY FS_Interval
<1>2. \A T \in SUBSET D : IsFiniteSet(T) /\ SumOf(seq, T) \in Nat
  <2> SUFFICES ASSUME NEW T \in SUBSET D PROVE IsFiniteSet(T) /\ SumOf(seq, T) \in Nat
    OBVIOUS
  <2>1. IsFiniteSet(T) /\ \A i \in T : seq[i] \in Nat
    BY <1>1, FS_Subset
  <2>2. QED
    BY <2>1, SumIsNumber
<1>3. ASSUME NEW T \in SUBSET D, T # {}
      PROVE  Max(T) \in T /\ SumOf(seq, T) = SumOf(seq, T \ {Max(T)}) + seq[Max(T)]
  <2>1. T \in SUBSET Int /\ IsFiniteSet(T) /\ \A i \in T : seq[i] \in Nat
    BY <1>1, <1>2
  <2>2. PICK m \in T : m = Max(T)
    BY <1>3, <2>1, Greatest
  <2>3. SumOf(seq, T) = seq[m] + SumOf(seq, T \ {m})
    BY <2>1, SumRemove
  <2>4. seq[m] \in Nat /\ SumOf(seq, T \ {m}) \in Nat
    BY <1>2, <2>1
  <2>5. QED
    BY <2>2, <2>3, <2>4
<1>4. \E f : PointsAdd(seq, f)
  <2> DEFINE sums == [T \in SUBSET D |-> SumOf(seq, T)]
  <2>1. SumOf(seq, {}) = 0
    BY <1>1, FS_EmptySet, SumStep
  <2>2. \A T \in SUBSET D : sums[T] = IF T = {} THEN 0 ELSE sums[T \ {Max(T)}] + seq[Max(T)]
    BY <1>3, <2>1
  <2>3. sums = [T \in SUBSET D |-> sums[T]]
    OBVIOUS
  <2> HIDE DEF sums
  <2>4. sums = [T \in SUBSET D |-> IF T = {} THEN 0 ELSE sums[T \ {Max(T)}] + seq[Max(T)]]
    BY <2>2, <2>3
  <2>5. QED
    BY <1>1, <2>4, Zenon DEF PointsAdd
<1>5. PICK g : g = CHOOSE f : PointsAdd(seq, f)
  OBVIOUS
<1>6. PointsAdd(seq, g)
  BY <1>4, <1>5, Zenon
<1> DEFINE Good == {T \in SUBSET D : g[T] = SumOf(seq, T)}
<1>7. ASSUME NEW T \in SUBSET D, \A U \in SUBSET T : U # T => U \in Good
      PROVE  T \in Good
  <2>1. g[T] = IF T = {} THEN 0 ELSE g[T \ {Max(T)}] + seq[Max(T)]
    BY <1>1, <1>6, Zenon DEF PointsAdd
  <2>2. CASE T = {}
    BY <1>2, <2>1, <2>2, SumStep
  <2>3. CASE T # {}
    <3>1. Max(T) \in T /\ SumOf(seq, T) = SumOf(seq, T \ {Max(T)}) + seq[Max(T)]
      BY <1>3, <2>3
    <3>2. T \ {Max(T)} \in Good
      BY <1>7, <3>1
    <3>3. QED
      BY <2>1, <2>3, <3>1, <3>2
  <2>4. QED
    BY <2>2, <2>3
<1> HIDE DEF Good
<1>8. SUBSET D \subseteq Good
  <2>1. IsFiniteSet(D)
    BY <1>1
  <2>2. QED
    BY <1>7, <2>1, SubsetInduction
<1>9. g[D] = SumOf(seq, D)
  BY <1>8 DEF Good
<1>10. Points(seq) = (CHOOSE f : PointsAdd(seq, f))[DOMAIN seq]
  BY DEF Points, FoldLeft, MapThenFoldSet, PointsAdd
<1>11. QED
  BY <1>1, <1>5, <1>9, <1>10

(* seq lists the n buckets of some rows in their order.                    *)
InOrder(rows, seq, n) ==
    /\ DOMAIN seq = 1..n
    /\ \A i \in 1..n : seq[i] \in Int /\ \E r \in rows : r.bucket = seq[i]
    /\ \A r \in rows : \E i \in 1..n : seq[i] = r.bucket
    /\ \A i, j \in 1..n : i < j => seq[i] < seq[j]

(* Buckets does so.                                                        *)
LEMMA BucketsInOrder ==
    ASSUME NEW rows, Counted(rows), \A r \in rows : r.bucket \in Int
    PROVE  \E n \in Nat : InOrder(rows, Buckets(rows), n)
<1>1. PICK S, n, seq : S = {r.bucket : r \in rows} /\ n = Cardinality(S) /\ seq = Buckets(rows)
  OBVIOUS
<1>2. S \in SUBSET Int /\ IsFiniteSet(S)
  <2> DEFINE b == [r \in rows |-> r.bucket]
  <2>1. b \in Surjection(rows, S)
    BY <1>1, Zenon DEF Surjection
  <2>2. QED
    BY <1>1, <2>1, FS_Surjection DEF Counted
<1>3. seq = [i \in 1..n |-> CHOOSE b \in S : Cardinality(Earlier(S, b)) = i - 1]
  BY <1>1 DEF Buckets, Earlier
<1>4. /\ n \in Nat
      /\ \A i \in 1..n : seq[i] \in S
      /\ \A b \in S : \E i \in 1..n : seq[i] = b
      /\ \A i, j \in 1..n : i < j => seq[i] < seq[j]
  <2>1. n = Cardinality(S)
    BY <1>1
  <2>2. ASSUME NEW i \in 1..n, \E b \in S : Cardinality(Earlier(S, b)) = i - 1
        PROVE  seq[i] \in S /\ Cardinality(Earlier(S, seq[i])) = i - 1
    <3>1. seq[i] = CHOOSE b \in S : Cardinality(Earlier(S, b)) = i - 1
      BY <1>3
    <3>2. QED
      BY <2>2, <3>1, Zenon
  <2>3. QED
    BY <1>2, <2>1, <2>2, PlacesAreTaken
<1>5. DOMAIN seq = 1..n
  BY <1>3
<1>6. \A i \in 1..n : seq[i] \in Int /\ \E r \in rows : r.bucket = seq[i]
  BY <1>1, <1>2, <1>4
<1>7. \A r \in rows : \E i \in 1..n : seq[i] = r.bucket
  BY <1>1, <1>4
<1>8. InOrder(rows, seq, n)
  BY <1>4, <1>5, <1>6, <1>7 DEF InOrder
<1>9. QED
  BY <1>1, <1>4, <1>8

(* The points of the chart add up to the total (chartData in               *)
(* ChartContainer).                                                        *)
LEMMA SeriesAddsUp ==
    ASSUME NEW rows, Counted(rows), \A r \in rows : r.bucket \in Int
    PROVE  Points(Series(rows)) = Total(rows)
<1>1. PICK seq : seq = Buckets(rows)
  OBVIOUS
<1>2. PICK n \in Nat : InOrder(rows, seq, n)
  BY <1>1, BucketsInOrder
<1>3. PICK points, w : points = Series(rows) /\ w = Counts(rows)
  OBVIOUS
<1>4. DOMAIN points = 1..n /\ \A i \in 1..n : points[i] = InBucket(rows, seq[i])
  BY <1>1, <1>2, <1>3 DEF Series, InOrder
<1>5. IsFiniteSet(rows) /\ (\A r \in rows : w[r] \in Nat) /\ Total(rows) = SumOf(w, rows)
  BY <1>3, TotalAddsUp DEF Counted, Counts
<1> DEFINE Place(r) == CHOOSE i \in 1..n : seq[i] = r.bucket
<1>6. PICK h : h = [r \in rows |-> Place(r)]
  OBVIOUS
<1>7. ASSUME NEW r \in rows PROVE h[r] \in 1..n /\ seq[h[r]] = r.bucket
  <2>1. \E i \in 1..n : seq[i] = r.bucket
    BY <1>2 DEF InOrder
  <2>2. QED
    BY <1>6, <2>1
<1> HIDE DEF Place
<1>8. ASSUME NEW i \in 1..n
       PROVE  /\ points[i] \in Nat
              /\ \E P \in SUBSET rows : (\A r \in rows : r \in P <=> h[r] = i) /\ points[i] = SumOf(w, P)
  <2>1. PICK P \in SUBSET rows : P = {r \in rows : r.bucket = seq[i]}
    OBVIOUS
  <2>2. ASSUME NEW r \in rows PROVE r \in P <=> h[r] = i
    <3>1. r.bucket = seq[i] => h[r] = i
      <4>1. PICK k \in 1..n : k = h[r] /\ seq[k] = r.bucket
        BY <1>7
      <4>2. seq[i] \in Int /\ seq[k] \in Int /\ i \in Int /\ k \in Int
        BY <1>2 DEF InOrder
      <4>3. (k < i => seq[k] < seq[i]) /\ (i < k => seq[i] < seq[k])
        BY <1>2, Zenon DEF InOrder
      <4>4. QED
        BY <4>1, <4>2, <4>3
    <3>2. QED
      BY <1>7, <2>1, <3>1
  <2>3. points[i] = Total(P) /\ Total(P) = SumOf(w, P) /\ Total(P) \in Nat
    BY <1>3, <1>4, <2>1, TotalOfPart, PartsAreCounted DEF InBucket
  <2>4. QED
    BY <2>2, <2>3
<1>9. PICK D : D = 1..n
  OBVIOUS
<1>10. SumOf(points, D) = SumOf(w, rows)
  <2>1. IsFiniteSet(D)
    BY <1>2, <1>9, FS_Interval
  <2>2. Grouped(w, rows, h, D, points)
    BY <1>8, <1>9 DEF Grouped
  <2>3. \A r \in rows : h[r] \in D
    BY <1>7, <1>9
  <2>4. IsFiniteSet(rows) /\ \A r \in rows : w[r] \in Nat
    BY <1>5
  <2>5. QED
    BY <2>1, <2>2, <2>3, <2>4, SumOfGroups
<1>11. Points(points) = SumOf(points, 1..n)
  BY <1>2, <1>4, <1>8, PointsAddUp
<1>12. QED
  BY <1>3, <1>5, <1>9, <1>10, <1>11

-----------------------------------------------------------------------------
(* The peak. *)

NoPeak == [count |-> 0, bucket |-> None]

PlaceOf(counts, seq, i) == [count |-> counts[i], bucket |-> seq[i]]

(* p is the first place of T with the highest count, if there is a count    *)
(* above zero.                                                              *)
First(counts, seq, T, p) ==
    /\ \A i \in T : counts[i] <= p.count
    /\ p # NoPeak =>
          \E i \in T : /\ p = PlaceOf(counts, seq, i) /\ counts[i] > 0
                      /\ \A j \in T : counts[j] = counts[i] => i <= j

(* What the loop makes of a peak when it comes to place i.                  *)
Step(counts, seq, p, i) == IF counts[i] > p.count THEN PlaceOf(counts, seq, i) ELSE p

(* The loop keeps the first peak when it comes to the next place.           *)
LEMMA FirstStaysFirst ==
    ASSUME NEW T \in SUBSET Int, NEW m \in T, \A i \in T : i <= m,
           NEW counts, \A i \in T : counts[i] \in Nat, NEW seq,
           NEW p, p.count \in Nat, First(counts, seq, T \ {m}, p)
    PROVE  /\ First(counts, seq, T, Step(counts, seq, p, m))
           /\ Step(counts, seq, p, m).count \in Nat
<1>1. PICK k \in Nat : k = p.count /\ \A i \in T \ {m} : counts[i] <= k
  BY DEF First
<1>2. CASE counts[m] > k
  <2>1. Step(counts, seq, p, m) = PlaceOf(counts, seq, m) /\ PlaceOf(counts, seq, m).count = counts[m]
    BY <1>1, <1>2 DEF Step, PlaceOf
  <2>2. ASSUME NEW i \in T PROVE counts[i] <= counts[m] /\ (counts[i] = counts[m] => m <= i)
    <3>1. i = m \/ counts[i] <= k
      BY <1>1
    <3>2. counts[i] \in Nat /\ counts[m] \in Nat /\ m \in Int /\ i \in Int
      OBVIOUS
    <3>3. QED
      BY <1>1, <1>2, <3>1, <3>2
  <2>3. counts[m] > 0 /\ counts[m] \in Nat
    BY <1>1, <1>2
  <2>4. QED
    BY <2>1, <2>2, <2>3 DEF First
<1>3. CASE ~(counts[m] > k)
  <2>1. Step(counts, seq, p, m) = p
    BY <1>1, <1>3 DEF Step
  <2>2. \A i \in T : counts[i] <= k
    BY <1>1, <1>3
  <2>3. ASSUME p # NoPeak
        PROVE  \E i \in T : /\ p = PlaceOf(counts, seq, i) /\ counts[i] > 0
                           /\ \A j \in T : counts[j] = counts[i] => i <= j
    <3>1. PICK i \in T \ {m} : /\ p = PlaceOf(counts, seq, i) /\ counts[i] > 0
                              /\ \A j \in T \ {m} : counts[j] = counts[i] => i <= j
      BY <2>3 DEF First
    <3>2. QED
      BY <3>1
  <2>4. QED
    BY <1>1, <2>1, <2>2, <2>3 DEF First
<1>4. QED
  BY <1>2, <1>3

(* There is only one first peak.                                           *)
LEMMA OnePeak ==
    ASSUME NEW T \in SUBSET Int, NEW counts, \A i \in T : counts[i] \in Nat, NEW seq,
           NEW p, First(counts, seq, T, p), NEW q, First(counts, seq, T, q)
    PROVE  p = q
<1>1. NoPeak.count = 0 /\ \A i : PlaceOf(counts, seq, i).count = counts[i]
  BY DEF NoPeak, PlaceOf
<1>2. ASSUME p = NoPeak, q # NoPeak PROVE FALSE
  <2>1. PICK i \in T : counts[i] > 0
    BY <1>2 DEF First
  <2>2. counts[i] <= 0 /\ counts[i] \in Nat
    BY <1>1, <1>2 DEF First
  <2>3. QED
    BY <2>1, <2>2
<1>3. ASSUME q = NoPeak, p # NoPeak PROVE FALSE
  <2>1. PICK i \in T : counts[i] > 0
    BY <1>3 DEF First
  <2>2. counts[i] <= 0 /\ counts[i] \in Nat
    BY <1>1, <1>3 DEF First
  <2>3. QED
    BY <2>1, <2>2
<1>4. ASSUME p # NoPeak, q # NoPeak PROVE p = q
  <2>1. PICK i \in T : /\ p = PlaceOf(counts, seq, i)
                      /\ \A j \in T : counts[j] = counts[i] => i <= j
    BY <1>4 DEF First
  <2>2. PICK k \in T : /\ q = PlaceOf(counts, seq, k)
                      /\ \A j \in T : counts[j] = counts[k] => k <= j
    BY <1>4 DEF First
  <2>3. counts[i] <= counts[k] /\ counts[k] <= counts[i]
    BY <1>1, <2>1, <2>2 DEF First
  <2>4. counts[i] \in Nat /\ counts[k] \in Nat /\ i \in Int /\ k \in Int
    OBVIOUS
  <2>5. counts[i] = counts[k]
    BY <2>3, <2>4
  <2>6. i <= k /\ k <= i
    BY <2>1, <2>2, <2>5
  <2>7. QED
    BY <2>1, <2>2, <2>4, <2>6
<1>5. QED
  BY <1>2, <1>3, <1>4

(* The recursion in Peak.                                                  *)
Peaks(rows, seq, f) ==
    f = [T \in SUBSET (DOMAIN seq) |->
            IF T = {} THEN NoPeak
            ELSE IF InBucket(rows, seq[Max(T)]) > f[T \ {Max(T)}].count
                 THEN [count |-> InBucket(rows, seq[Max(T)]), bucket |-> seq[Max(T)]]
                 ELSE f[T \ {Max(T)}]]

(* The loop ends with the first of the buckets with the highest count.      *)
LEMMA PeakIsFirst ==
    ASSUME NEW rows, NEW seq, NEW n \in Nat, seq = Buckets(rows), DOMAIN seq = 1..n,
           NEW counts, counts = [i \in 1..n |-> InBucket(rows, seq[i])],
           \A i \in 1..n : counts[i] \in Nat
    PROVE  First(counts, seq, 1..n, Peak(rows))
<1>1. PICK D \in SUBSET Int : D = 1..n
  OBVIOUS
<1>2. IsFiniteSet(D)
  BY <1>1, FS_Interval
<1>3. ASSUME NEW T \in SUBSET D, T # {}
      PROVE  Max(T) \in T /\ \A i \in T : i <= Max(T)
  <2>1. T \in SUBSET Int /\ IsFiniteSet(T)
    BY <1>2, FS_Subset
  <2>2. Max(T) \in T /\ \A i \in T : Max(T) >= i
    BY <1>3, <2>1, Greatest
  <2>3. \A i \in T : i \in Int
    BY <2>1
  <2>4. QED
    BY <2>2, <2>3
<1> DEFINE Fit(T, p) == First(counts, seq, T, p) /\ p.count \in Nat
<1>4. ASSUME NEW T \in SUBSET D, T # {}, NEW p, Fit(T \ {Max(T)}, p)
      PROVE  Fit(T, Step(counts, seq, p, Max(T)))
  <2>1. PICK m \in T : m = Max(T) /\ \A i \in T : i <= m
    BY <1>3, <1>4
  <2>2. T \in SUBSET Int /\ \A i \in T : counts[i] \in Nat
    BY <1>1
  <2>3. First(counts, seq, T \ {m}, p) /\ p.count \in Nat
    BY <1>4, <2>1
  <2>4. First(counts, seq, T, Step(counts, seq, p, m)) /\ Step(counts, seq, p, m).count \in Nat
    BY <2>1, <2>2, <2>3, FirstStaysFirst
  <2>5. QED
    BY <2>1, <2>4
<1>5. Fit({}, NoPeak)
  BY DEF First, NoPeak
<1>6. ASSUME NEW T \in SUBSET D, NEW p, NEW q, Fit(T, p), Fit(T, q) PROVE p = q
  <2>1. T \in SUBSET Int /\ \A i \in T : counts[i] \in Nat
    BY <1>1
  <2>2. QED
    BY <1>6, <2>1, OnePeak
<1> HIDE DEF Fit
<1>7. \A T \in SUBSET D : \E p : Fit(T, p)
  <2> DEFINE Good == {T \in SUBSET D : \E p : Fit(T, p)}
  <2>1. ASSUME NEW T \in SUBSET D, \A U \in SUBSET T : U # T => U \in Good
        PROVE  T \in Good
    <3>1. CASE T = {}
      BY <1>5, <3>1
    <3>2. CASE T # {}
      <4>1. PICK U \in Good : U = T \ {Max(T)}
        BY <1>3, <2>1, <3>2
      <4>2. QED
        BY <1>4, <3>2, <4>1
    <3>3. QED
      BY <3>1, <3>2
  <2> HIDE DEF Good
  <2>2. SUBSET D \subseteq Good
    BY <1>2, <2>1, SubsetInduction
  <2>3. QED
    BY <2>2 DEF Good
<1>8. ASSUME NEW f
      PROVE  Peaks(rows, seq, f) <=>
                f = [T \in SUBSET D |-> IF T = {} THEN NoPeak
                                        ELSE Step(counts, seq, f[T \ {Max(T)}], Max(T))]
  <2>1. ASSUME NEW T \in SUBSET D, T # {}
        PROVE  Step(counts, seq, f[T \ {Max(T)}], Max(T))
                 = IF InBucket(rows, seq[Max(T)]) > f[T \ {Max(T)}].count
                   THEN [count |-> InBucket(rows, seq[Max(T)]), bucket |-> seq[Max(T)]]
                   ELSE f[T \ {Max(T)}]
    <3>1. counts[Max(T)] = InBucket(rows, seq[Max(T)])
      BY <1>1, <1>3, <2>1
    <3>2. QED
      BY <3>1 DEF Step, PlaceOf
  <2>2. [T \in SUBSET D |-> IF T = {} THEN NoPeak ELSE Step(counts, seq, f[T \ {Max(T)}], Max(T))]
        = [T \in SUBSET D |->
            IF T = {} THEN NoPeak
            ELSE IF InBucket(rows, seq[Max(T)]) > f[T \ {Max(T)}].count
                 THEN [count |-> InBucket(rows, seq[Max(T)]), bucket |-> seq[Max(T)]]
                 ELSE f[T \ {Max(T)}]]
    BY <2>1
  <2>3. QED
    BY <1>1, <2>2, Zenon DEF Peaks
<1>9. \E f : Peaks(rows, seq, f)
  <2> DEFINE best == [T \in SUBSET D |-> CHOOSE p : Fit(T, p)]
  <2>1. \A T \in SUBSET D : Fit(T, best[T])
    BY <1>7, Zenon
  <2> HIDE DEF best
  <2>2. ASSUME NEW T \in SUBSET D
        PROVE  best[T] = IF T = {} THEN NoPeak ELSE Step(counts, seq, best[T \ {Max(T)}], Max(T))
    <3>1. CASE T = {}
      BY <1>5, <1>6, <2>1, <3>1
    <3>2. CASE T # {}
      <4>1. Fit(T, Step(counts, seq, best[T \ {Max(T)}], Max(T)))
        BY <1>4, <2>1, <3>2
      <4>2. QED
        BY <1>6, <2>1, <3>2, <4>1
    <3>3. QED
      BY <3>1, <3>2
  <2>3. best = [T \in SUBSET D |-> best[T]]
    BY DEF best
  <2>4. best = [T \in SUBSET D |-> IF T = {} THEN NoPeak
                                   ELSE Step(counts, seq, best[T \ {Max(T)}], Max(T))]
    BY <2>2, <2>3
  <2>5. QED
    BY <1>8, <2>4
<1>10. PICK g : g = CHOOSE f : Peaks(rows, seq, f)
  OBVIOUS
<1>11. g = [T \in SUBSET D |-> IF T = {} THEN NoPeak
                               ELSE Step(counts, seq, g[T \ {Max(T)}], Max(T))]
  <2>1. Peaks(rows, seq, g)
    BY <1>9, <1>10, Zenon
  <2>2. QED
    BY <1>8, <2>1
<1> DEFINE Good == {T \in SUBSET D : Fit(T, g[T])}
<1>12. ASSUME NEW T \in SUBSET D, \A U \in SUBSET T : U # T => U \in Good
       PROVE  T \in Good
  <2>1. g[T] = IF T = {} THEN NoPeak ELSE Step(counts, seq, g[T \ {Max(T)}], Max(T))
    BY <1>11, Zenon
  <2>2. CASE T = {}
    BY <1>5, <2>1, <2>2
  <2>3. CASE T # {}
    <3>1. T \ {Max(T)} \in Good
      BY <1>3, <1>12, <2>3
    <3>2. QED
      BY <1>4, <2>1, <2>3, <3>1
  <2>4. QED
    BY <2>2, <2>3
<1> HIDE DEF Good
<1>13. SUBSET D \subseteq Good
  BY <1>2, <1>12, SubsetInduction
<1>14. First(counts, seq, D, g[D])
  BY <1>13 DEF Good, Fit
<1>15. Peak(rows) = (CHOOSE f : Peaks(rows, seq, f))[DOMAIN seq]
  BY DEF Peak, FoldLeft, MapThenFoldSet, Peaks, NoPeak
<1>16. QED
  BY <1>1, <1>10, <1>14, <1>15

(* The peak of an answer, in terms of its rows (peakBucket in useAnalytics). *)
LEMMA PeakOfRows ==
    ASSUME NEW rows, Counted(rows), \A r \in rows : r.bucket \in Int /\ r.count > 0
    PROVE  IF rows = {} THEN Peak(rows).bucket = None
           ELSE /\ Peak(rows).count = InBucket(rows, Peak(rows).bucket)
                /\ \A r \in rows : InBucket(rows, r.bucket) <= Peak(rows).count
                /\ \A r \in rows : InBucket(rows, r.bucket) = Peak(rows).count => r.bucket >= Peak(rows).bucket
<1>1. PICK seq, peak : seq = Buckets(rows) /\ peak = Peak(rows)
  OBVIOUS
<1>2. PICK n \in Nat : InOrder(rows, seq, n)
  BY <1>1, BucketsInOrder
<1>3. PICK counts : counts = [i \in 1..n |-> InBucket(rows, seq[i])]
  OBVIOUS
<1>4. ASSUME NEW r \in rows PROVE InBucket(rows, r.bucket) \in Nat /\ InBucket(rows, r.bucket) > 0
  <2>1. PICK P \in SUBSET rows : P = {x \in rows : x.bucket = r.bucket}
    OBVIOUS
  <2>2. Counted(P) /\ Total(P) \in Nat /\ P # {} /\ \A x \in P : x.count > 0
    BY <2>1, PartsAreCounted
  <2>3. Total(P) > 0
    BY <2>2, RowsHaveEvents
  <2>4. QED
    BY <2>1, <2>2, <2>3 DEF InBucket
<1>5. \A i \in 1..n : counts[i] = InBucket(rows, seq[i]) /\ counts[i] \in Nat
  BY <1>2, <1>3, <1>4 DEF InOrder
<1>6. First(counts, seq, 1..n, peak)
  BY <1>1, <1>2, <1>3, <1>5, PeakIsFirst DEF InOrder
<1>7. CASE rows = {}
  <2>1. 1..n = {}
    BY <1>2, <1>7 DEF InOrder
  <2>2. peak = NoPeak
    BY <1>6, <2>1 DEF First
  <2>3. QED
    BY <1>1, <1>7, <2>2 DEF NoPeak
<1>8. CASE rows # {}
  <2>1. PICK r \in rows : TRUE
    BY <1>8
  <2>2. PICK k \in 1..n : seq[k] = r.bucket
    BY <1>2 DEF InOrder
  <2>3. counts[k] > 0 /\ counts[k] <= peak.count /\ counts[k] \in Nat
    BY <1>4, <1>5, <1>6, <2>2 DEF First
  <2>4. peak # NoPeak
    BY <2>3 DEF NoPeak
  <2>5. PICK i \in 1..n : /\ peak = PlaceOf(counts, seq, i)
                         /\ \A j \in 1..n : counts[j] = counts[i] => i <= j
    BY <1>6, <2>4 DEF First
  <2>6. peak.count = counts[i] /\ peak.bucket = seq[i]
    BY <2>5 DEF PlaceOf
  <2>7. ASSUME NEW x \in rows
        PROVE  /\ InBucket(rows, x.bucket) <= peak.count
               /\ InBucket(rows, x.bucket) = peak.count => x.bucket >= peak.bucket
    <3>1. PICK j \in 1..n : seq[j] = x.bucket
      BY <1>2 DEF InOrder
    <3>2. counts[j] = InBucket(rows, x.bucket) /\ counts[j] <= peak.count
      BY <1>5, <1>6, <3>1 DEF First
    <3>3. ASSUME counts[j] = counts[i] PROVE seq[j] >= seq[i]
      <4>1. i <= j
        BY <2>5, <3>3
      <4>2. seq[i] \in Int /\ seq[j] \in Int /\ (i < j => seq[i] < seq[j]) /\ i \in Int /\ j \in Int
        BY <1>2 DEF InOrder
      <4>3. CASE i = j
        BY <4>2, <4>3
      <4>4. CASE i < j
        BY <4>2, <4>4
      <4>5. QED
        BY <4>1, <4>2, <4>3, <4>4
    <3>4. QED
      BY <2>6, <3>1, <3>2, <3>3
  <2>8. QED
    BY <1>1, <1>5, <1>8, <2>6, <2>7
<1>9. QED
  BY <1>7, <1>8

-----------------------------------------------------------------------------
(* Averages. *)

(* A period has a day at least, in the averages.                           *)
LEMMA DaysAreCounted ==
    ASSUME NEW p, p.from \in Int, p.to \in Int
    PROVE  Days(p) \in Nat \ {0}
<1>1. PICK x \in Int : x = Round(p.to - p.from, Day)
  <2>1. PICK len \in Int : len = p.to - p.from
    OBVIOUS
  <2>2. Day \in Nat \ {0}
    BY TimeAssumption
  <2>3. Round(len, Day) \in Int
    BY <2>2, RoundsToNearest
  <2>4. QED
    BY <2>1, <2>3
<1>2. {1, x} \in SUBSET Int /\ IsFiniteSet({1, x}) /\ {1, x} # {}
  <2>1. {1, x} = {1} \cup {x}
    OBVIOUS
  <2>2. IsFiniteSet({1} \cup {x})
    BY FS_Singleton, FS_Union
  <2>3. QED
    BY <2>1, <2>2
<1>3. PICK m \in {1, x} : m = Max({1, x}) /\ \A y \in {1, x} : m >= y
  BY <1>2, Greatest
<1>4. m \in Int /\ m >= 1
  BY <1>3
<1>5. QED
  BY <1>1, <1>3, <1>4 DEF Days

(* A period and the one before it have as many days.                       *)
LEMMA PreviousIsAsLong ==
    ASSUME NEW p, p.from \in Int, p.to \in Int
    PROVE  Days(Previous(p)) = Days(p)
<1>1. Millisecond \in Int
  BY TimeAssumption
<1>2. Previous(p).to - Previous(p).from = p.to - p.from
  BY <1>1 DEF Previous, Period
<1>3. QED
  BY <1>2 DEF Days

(* The change of the events per day has the direction of the totals, which *)
(* are rounded in between, and without rows before it is no fall.          *)
LEMMA PerDayHasDirection ==
    ASSUME NEW rows, NEW before, Counted(rows), Counted(before),
           NEW p, p.from \in Int, p.to \in Int
    PROVE  /\ PerDayChange(rows, before, p) > 0 => Total(rows) > Total(before)
           /\ PerDayChange(rows, before, p) < 0 => Total(rows) < Total(before)
<1>1. PICK now \in Nat, ago \in Nat : now = Total(rows) /\ ago = Total(before)
  BY TotalAddsUp
<1>2. PICK days \in Nat \ {0} : days = Days(p) /\ days = Days(Previous(p))
  BY DaysAreCounted, PreviousIsAsLong
<1>3. PICK x \in Nat, y \in Nat : x = Round(now, days) /\ y = Round(ago, days)
  BY RoundsToNat
<1>4. PerDayChange(rows, before, p) = Change(x, y)
  BY <1>1, <1>2, <1>3 DEF PerDayChange, PerDay
<1>5. x > y => now > ago
  BY <1>3, RoundingKeepsOrder
<1>6. y > x => ago > now
  BY <1>3, RoundingKeepsOrder
<1>7. (Change(x, y) > 0 => x > y) /\ (Change(x, y) < 0 => x < y)
  BY ChangesHaveDirection
<1>8. QED
  BY <1>1, <1>4, <1>5, <1>6, <1>7

(* Nothing is counted as no event.                                         *)
LEMMA NothingIsZero == Counted({}) /\ Total({}) = 0
  BY FS_EmptySet, TotalAddsUp, SumStep DEF Counted

(* The points of the previous period add up to its total, or are left out. *)
LEMMA PreviousAddsUp ==
    ASSUME NEW rows, NEW before, Counted(before), \A r \in before : r.bucket \in Int
    PROVE  Points(PreviousSeries(rows, before)) \in {0, Total(before)}
<1>1. CASE rows = {}
  <2>1. PICK none : none = <<>>
    OBVIOUS
  <2>2. DOMAIN none = 1..0 /\ (\A i \in 1..0 : none[i] \in Nat) /\ 0 \in Nat
    BY <2>1
  <2>3. Points(none) = SumOf(none, 1..0)
    BY <2>2, PointsAddUp
  <2>4. 1..0 = {} /\ IsFiniteSet({})
    BY FS_EmptySet
  <2>5. SumOf(none, {}) = 0
    BY <2>4, SumStep
  <2>6. QED
    BY <1>1, <2>1, <2>3, <2>4, <2>5 DEF PreviousSeries
<1>2. CASE rows # {}
  BY <1>2, SeriesAddsUp DEF PreviousSeries
<1>3. QED
  BY <1>1, <1>2
=============================================================================
