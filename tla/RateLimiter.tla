---------------------------- MODULE RateLimiter ----------------------------
(***************************************************************************)
(* The gateway's token bucket limiter (internal/rate_limit.py), one bucket *)
(* per "credential:tenant" key, refilled lazily when the key is used. A    *)
(* bucket counts in units of 1/Minute of a token, so that the refill of    *)
(* one second is Limit units and one request costs Minute of them.         *)
(*                                                                         *)
(* allow() holds a lock from the first read of the bucket to the last      *)
(* write, and the gateway calls it from one event loop: it is one action.  *)
(***************************************************************************)
EXTENDS Integers

CONSTANTS
  Keys,          \* "credential:tenant" pairs
  Configured,    \* a credential's rate_limit_per_minute, if it has one
  NotGiven,      \* the value of Configured for a credential without one
  DefaultLimit,  \* settings.default_rate_limit_per_minute
  Minute,        \* seconds in a minute
  MaxTime        \* bound on the clock

ASSUME LimiterAssumption ==
  /\ NotGiven \notin Int
  /\ Configured \in [Keys -> Int \cup {NotGiven}]
  /\ DefaultLimit \in Int
  /\ Minute \in Nat \ {0}
  /\ MaxTime \in Nat

VARIABLES
  now,                \* the monotonic clock
  buckets,            \* keys that have a bucket
  tokens, updatedAt,  \* BucketState
  \* An observer, who starts counting requests whenever she likes.
  watchedFrom, granted

bucket   == <<buckets, tokens, updatedAt>>
observer == <<watchedFrom, granted>>
vars     == <<now, bucket, observer>>

\* A credential's limit of 0 means the default too ("or").
Limit(k) ==
  IF Configured[k] \in {NotGiven, 0} THEN DefaultLimit ELSE Configured[k]

Capacity(k) == Limit(k) * Minute

Least(a, b) == IF a <= b THEN a ELSE b

\* Mutant: the refill is not capped.
RefilledUncapped(k) ==
  IF k \in buckets THEN tokens[k] + (now - updatedAt[k]) * Limit(k) ELSE Capacity(k)

\* What the bucket of k holds at this moment.
Refilled(k) ==
  IF k \in buckets
  THEN Least(Capacity(k), tokens[k] + (now - updatedAt[k]) * Limit(k))
  ELSE Capacity(k)

TypeOK ==
  /\ now \in 0..MaxTime
  /\ buckets \subseteq Keys
  /\ tokens \in [Keys -> Nat]
  /\ updatedAt \in [Keys -> 0..now]
  /\ \A k \in buckets : Limit(k) > 0 /\ tokens[k] <= Capacity(k)
  /\ watchedFrom \in 0..now
  /\ granted \in [Keys -> Nat]

Init ==
  /\ now = 0
  /\ buckets = {}
  /\ tokens = [k \in Keys |-> 0]
  /\ updatedAt = [k \in Keys |-> 0]
  /\ watchedFrom = 0
  /\ granted = [k \in Keys |-> 0]

\* Mutant: a refused request does not stamp the bucket it has refilled.
RefuseUnstamped(k) ==
  /\ Limit(k) > 0
  /\ Refilled(k) < Minute
  /\ buckets' = buckets \cup {k}
  /\ tokens' = [tokens EXCEPT ![k] = Refilled(k)]
  /\ UNCHANGED <<updatedAt, now, observer>>

\* Mutant: a refused request stamps the bucket and drops the refill.
RefuseDropsRefill(k) ==
  /\ Limit(k) > 0
  /\ Refilled(k) < Minute
  /\ buckets' = buckets \cup {k}
  /\ updatedAt' = [updatedAt EXCEPT ![k] = now]
  /\ UNCHANGED <<tokens, now, observer>>

\* allow() answers False, and keeps what has been refilled. (With a limit of 0
\* or less it answers False without looking at a bucket.)
Refuse(k) ==
  /\ Limit(k) > 0
  /\ Refilled(k) < Minute
  /\ buckets' = buckets \cup {k}
  /\ tokens' = [tokens EXCEPT ![k] = Refilled(k)]
  /\ updatedAt' = [updatedAt EXCEPT ![k] = now]
  /\ UNCHANGED <<now, observer>>

\* allow() answers True.
Allow(k) ==
  /\ Limit(k) > 0
  /\ Refilled(k) >= Minute
  /\ buckets' = buckets \cup {k}
  /\ tokens' = [tokens EXCEPT ![k] = Refilled(k) - Minute]
  /\ updatedAt' = [updatedAt EXCEPT ![k] = now]
  /\ granted' = [granted EXCEPT ![k] = @ + 1]
  /\ UNCHANGED <<now, watchedFrom>>

Tick ==
  /\ now < MaxTime
  /\ now' = now + 1
  /\ UNCHANGED <<bucket, observer>>

Watch ==
  /\ watchedFrom' = now
  /\ granted' = [k \in Keys |-> 0]
  /\ UNCHANGED <<now, bucket>>

Next == Tick \/ Watch \/ \E k \in Keys : Allow(k) \/ Refuse(k)

Spec == Init /\ [][Next]_vars
-----------------------------------------------------------------------------
Window == now - watchedFrom

\* However a key's requests are timed, and whenever one starts counting, the
\* gateway lets through at most a full bucket plus the rate times the time
\* passed: about twice the limit in the worst minute, never more.
BurstBound ==
  \A k \in Keys :
    granted[k] * Minute <= (IF Limit(k) > 0 THEN Limit(k) ELSE 0) * (Minute + Window)

\* A key that got less than its limit in the last minute is let through:
\* refused requests and odd timings never cost a client its share.
NeverStarved ==
  \A k \in Keys :
    Limit(k) > 0 /\ Window >= Minute /\ granted[k] < Limit(k) => Refilled(k) >= Minute
=============================================================================
