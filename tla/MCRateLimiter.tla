---------------------------- MODULE MCRateLimiter ----------------------------
(* RateLimiter on small instances.                                         *)
EXTENDS RateLimiter, TLC

Alike == Permutations(Req) \cup Permutations(Visitor)
=============================================================================
