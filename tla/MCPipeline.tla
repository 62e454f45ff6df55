------------------------------ MODULE MCPipeline ------------------------------
(* Instances of Pipeline for TLC. *)
EXTENDS Pipeline

CONSTANTS a, b, c, d,   \* events
          ra, rb, rc,   \* requests
          k,            \* the one idempotency key
          w1, w2        \* slots for worker runs

(* A request and its retry, under one key.  The retry repeats occurred_at. *)
PairItems == ra :> <<a>> @@ rb :> <<b>>
PairKeyOf == a :> k @@ b :> k
PairSame  == a :> 1 @@ b :> 1

(* A keyed event beside a batch of two. *)
MixedItems == ra :> <<a>> @@ rc :> <<c, d>>
MixedKeyOf == a :> k @@ c :> NoKey @@ d :> NoKey
MixedTime  == a :> 1 @@ c :> 1 @@ d :> 1

=============================================================================
