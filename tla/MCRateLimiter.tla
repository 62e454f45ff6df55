---------------------------- MODULE MCRateLimiter ----------------------------
(* An instance of RateLimiter for TLC: the calls are interchangeable. *)
EXTENDS RateLimiter, TLC

CONSTANTS c1, c2, c3, c4

AnyOrder == Permutations(Calls)

=============================================================================
