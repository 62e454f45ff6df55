------------------------------ MODULE MCMetrics ------------------------------
(* Instances of Metrics for TLC. *)
EXTENDS Metrics, TLC

Preset(range)      == [range |-> range, now |-> 132, start |-> None, end |-> None]
Chosen(start, end) == [range |-> "custom", now |-> 132, start |-> start, end |-> end]
Event(app, name, at, n) == [app |-> app, event_name |-> name, at |-> at, copies |-> n]

(* Two tenants ask about their week, while entries come and go. *)
Caching ==
    {[view |-> Preset("7d"), apps |-> {1, 2},
      questions |-> {Current(Preset("7d"), 1), Current(Preset("7d"), 2)},
      table |-> <<Entry(Event(2, "x", 130, 1), 0)>>, events |-> 3, horizon |-> 4,
      happenings |-> {Event(1, "x", 130, 1)}]}

(* One tenant compares two periods, with events at all their ends. *)
Now(v)  == {Event(1, "x", Window(v).from, 1), Event(1, "y", Window(v).from, 3), Event(1, "x", Window(v).to, 2)}
Gap(v)  == Event(1, "x", Window(v).from - 1, 1)
Ago(v)  == {Event(1, "x", Previous(Window(v)).from, 2), Event(1, "x", Previous(Window(v)).to, 1),
            Event(1, "y", Previous(Window(v)).to, 3)}
Tables(v) == {[i \in DOMAIN s |-> Entry(s[i], 0)] : s \in
                 {SetToSeq(x) : x \in UNION {kSubset(n, Now(v) \cup Ago(v) \cup {Gap(v)}) : n \in 1..4}}}

Comparing ==
    UNION {{[view |-> v, apps |-> {1}, questions |-> {Current(v, 1), Before(v, 1), Detail(1, "x", v.now)},
             table |-> t, events |-> Len(t), horizon |-> 0, happenings |-> {}] : t \in Tables(v)} :
        v \in {Preset("7d"), Preset("today"), Preset("yesterday"),
               Chosen(112, 120), Chosen(120, 112), Chosen(116, None)}}

Everything  == Caching \cup Comparing
Alike       == Permutations(Requests)
=============================================================================
