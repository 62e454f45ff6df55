------------------------------ MODULE MCApiKeys ------------------------------
(* Instances of ApiKeys for TLC. *)
EXTENDS ApiKeys, TLC

CONSTANTS ga, gb, f, x, y,  \* two registrations, a fetch, two rotations
          o, p              \* two addresses

Calls == ga :> "register" @@ gb :> "register" @@ f :> "fetch"
         @@ x :> "rotate" @@ y :> "rotate"

KindOf == [r \in Requests |-> Calls[r]]

=============================================================================
