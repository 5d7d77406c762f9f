--------------------------- MODULE MCRateLimiter ---------------------------
EXTENDS RateLimiter, TLC

CONSTANTS k1, k2, k3

\* A limit of its own, a zero that means the default, and one that blocks.
MCConfigured == k1 :> 3 @@ k2 :> 0 @@ k3 :> -1
=============================================================================
