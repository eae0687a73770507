--------------------------- MODULE MCRateLimiter ----------------------------
(* The rate limiter with a few clients.                                    *)
EXTENDS RateLimiter, TLC

\* Neither slots nor keys are told apart.
Alike == Permutations(Requests) \cup Permutations(Keys)
=============================================================================
