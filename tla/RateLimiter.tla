----------------------------- MODULE RateLimiter -----------------------------
(***************************************************************************)
(* check_rate_limit: one tenant's requests are counted in a Redis counter  *)
(* per clock window.  The handler reads its clock first and sends INCR and *)
(* EXPIRE to Redis in one MULTI/EXEC afterwards.  Nothing bounds the time  *)
(* in between: connecting and each reply have timeouts of their own, and   *)
(* the event loop may be busy.  So the calls of a window can reach Redis   *)
(* when the window is over, and even when its counter has expired.         *)
(***************************************************************************)
EXTENDS Naturals, FiniteSets

CONSTANTS
    Calls,     \* requests of the tenant
    Limit,     \* rate_limit_per_minute
    Window,    \* length of a window: 60 seconds in the code
    Slack,     \* what EXPIRE adds to the rest of the window: 5 seconds
    MaxTime,   \* bound on the clock
    Faults     \* whether "redis" may fail

ASSUME LimiterAssumption ==
    /\ IsFiniteSet(Calls)
    /\ Limit \in Nat \ {0}          \* ck_applications_rate_limit_positive
    /\ Window \in Nat \ {0}
    /\ Slack \in Nat
    /\ MaxTime \in Nat
    /\ Faults \subseteq {"redis"}

VARIABLES
    now,      \* the clock
    count,    \* rate_limit:{app}:{w} of each window w; 0 when there is no such key
    dies,     \* when each counter expires
    state,    \* where each call is
    read,     \* the clock reading of each call
    counted,  \* history: the calls whose INCR took effect
    late      \* history: those of them that came when a counter could have expired

history == <<counted, late>>
vars    == <<now, count, dies, state, read, counted, late>>

Windows      == 0 .. (MaxTime \div Window)
WindowOf(t)  == t \div Window
Reset(t)     == (WindowOf(t) + 1) * Window
TimeLeft(t)  == Reset(t) - t
States       == {"new", "counting", "admitted", "refused", "open"}
InWindow(w)  == {c \in Calls : state[c] # "new" /\ WindowOf(read[c]) = w}

Goto(c, s) == state' = [state EXCEPT ![c] = s]

(* INCR takes effect now: in time when the window is running or has ended  *)
(* less than the slack ago.                                                *)
Record(c) ==
    /\ counted' = counted \cup {c}
    /\ late' = IF now < Reset(read[c]) + Slack THEN late ELSE late \cup {c}

(* Plausible bug: the counter expires with its window. *)
IncrWithoutSlack(c) ==
    LET w == WindowOf(read[c])
    IN  /\ count' = [count EXCEPT ![w] = @ + 1]
        /\ dies' = [dies EXCEPT ![w] = now + TimeLeft(read[c])]
        /\ Record(c)

(* INCR and EXPIRE, atomically. *)
Incr(c) ==
    LET w == WindowOf(read[c])
    IN  /\ count' = [count EXCEPT ![w] = @ + 1]
        /\ dies' = [dies EXCEPT ![w] = now + TimeLeft(read[c]) + Slack]
        /\ Record(c)

(* Plausible bugs: the limit itself is refused, and a failed call takes    *)
(* back a count that it may never have made.                               *)
CountAndRefuseAtLimit(c) ==
    /\ state[c] = "counting"
    /\ Incr(c)
    /\ Goto(c, IF count[WindowOf(read[c])] + 1 >= Limit THEN "refused" ELSE "admitted")
    /\ UNCHANGED <<now, read>>

FailOpenTakingBack(c) ==
    /\ state[c] = "counting"
    /\ count' = [count EXCEPT ![WindowOf(read[c])] = @ - 1]
    /\ Goto(c, "open")
    /\ UNCHANGED <<now, dies, read, history>>

-----------------------------------------------------------------------------
(* current_time = int(time.time()) *)
ReadClock(c) ==
    /\ state[c] = "new"
    /\ read' = [read EXCEPT ![c] = now]
    /\ Goto(c, "counting")
    /\ UNCHANGED <<now, count, dies, history>>

(* The reply of the transaction: HTTP 429 when the count exceeds the limit. *)
Count(c) ==
    /\ state[c] = "counting"
    /\ Incr(c)
    /\ Goto(c, IF count[WindowOf(read[c])] + 1 > Limit THEN "refused" ELSE "admitted")
    /\ UNCHANGED <<now, read>>

(* An exception, before or after the transaction took effect: fail open. *)
FailOpen(c) ==
    /\ "redis" \in Faults
    /\ state[c] = "counting"
    /\ \/ Incr(c)
       \/ UNCHANGED <<count, dies, history>>
    /\ Goto(c, "open")
    /\ UNCHANGED <<now, read>>

(* A second passes, whatever calls are under way; counters whose time has  *)
(* come vanish.                                                            *)
Tick ==
    /\ now < MaxTime
    /\ now' = now + 1
    /\ count' = [w \in Windows |-> IF dies[w] <= now + 1 THEN 0 ELSE count[w]]
    /\ UNCHANGED <<dies, state, read, history>>

Init ==
    /\ now = 0
    /\ count = [w \in Windows |-> 0]
    /\ dies = [w \in Windows |-> 0]
    /\ state = [c \in Calls |-> "new"]
    /\ read = [c \in Calls |-> 0]
    /\ counted = {} /\ late = {}

Next ==
    \/ \E c \in Calls : ReadClock(c) \/ Count(c) \/ FailOpen(c)
    \/ Tick

Spec == Init /\ [][Next]_vars

-----------------------------------------------------------------------------
(* The values every variable takes. *)
TypeOK ==
    /\ now \in 0 .. MaxTime
    /\ count \in [Windows -> Nat]
    /\ dies \in [Windows -> Nat]
    /\ state \in [Calls -> States]
    /\ read \in [Calls -> 0 .. MaxTime]
    /\ counted \in SUBSET Calls /\ late \in SUBSET counted

(* No window admits more than the limit, but for calls that reach Redis    *)
(* when the slack is over as well: a counter lasts, whatever the order in  *)
(* which the calls of its window arrive and renew it, until the five       *)
(* seconds are over that check_rate_limit adds to the TTL.  A later call   *)
(* finds no counter, or a younger one, and can be admitted beyond the      *)
(* limit.                                                                  *)
LimitPerWindow ==
    \A w \in Windows :
        Cardinality({c \in InWindow(w) \ late : state[c] = "admitted"}) <= Limit

(* A 429 is deserved: when it is sent, more than the limit of the window's *)
(* calls have been counted, among them some that failed open and, for the  *)
(* code counts those too, some that were refused.                          *)
RefusedOnlyWhenFull ==
    \A c \in Calls : state[c] = "refused" =>
        Cardinality(InWindow(WindowOf(read[c])) \cap counted) > Limit

=============================================================================
