---------------------------- MODULE MCRateLimiter ----------------------------
(***************************************************************************)
(* An instance of RateLimiter for TLC. The goroutines are interchangeable. *)
(***************************************************************************)
EXTENDS RateLimiter, TLC

Callers == Permutations(Caller)

=============================================================================
