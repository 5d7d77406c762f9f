------------------------- MODULE RateLimiterProofs -------------------------
(***************************************************************************)
(* Proofs about the token bucket, for every limit and length of a minute:  *)
(* what it lets through at most, and what it never refuses.                *)
(***************************************************************************)
EXTENDS RateLimiter, TLAPS

\* While one watches, what was let through and what the bucket holds together
\* make at most a full bucket and the refill; at least the refill, capped.
Balance(k) ==
  /\ Limit(k) <= 0 => granted[k] = 0
  /\ Limit(k) > 0 =>
       /\ granted[k] * Minute + Refilled(k) <= Capacity(k) + Window * Limit(k)
       /\ Refilled(k) + granted[k] * Minute >= Least(Capacity(k), Window * Limit(k))

BucketInv == TypeOK /\ \A k \in Keys : Balance(k)

\* Limits are integers; a negative one is a limit that blocks.
LEMMA LimitType == \A k \in Keys : Limit(k) \in Int /\ Capacity(k) \in Int
  BY LimiterAssumption DEF Limit, Capacity

\* Adding one to a factor adds the other factor to the product.
LEMMA OneMore == \A a, b \in Int : (a + 1) * b = a * b + b
  OBVIOUS

\* Products of integers are integers.
LEMMA ProductType == \A a, b \in Int : a * b \in Int
  OBVIOUS

\* A product of two non-negative numbers is non-negative.
LEMMA ProductSign == \A a, b \in Int : a >= 0 /\ b >= 0 => a * b >= 0
  OBVIOUS

\* Multiplying by a non-negative number keeps the order.
LEMMA ProductOrder == \A a, b, c \in Int : a <= b /\ c >= 0 => a * c <= b * c
  OBVIOUS

\* A full bucket has room for a token, and the level of a bucket is between
\* empty and full.
LEMMA LevelType ==
  ASSUME TypeOK, NEW k \in Keys, Limit(k) > 0
  PROVE  /\ Refilled(k) \in Nat
         /\ Refilled(k) <= Capacity(k)
         /\ Capacity(k) >= Minute
<1>1. Capacity(k) \in Int /\ Capacity(k) >= Minute
  BY LimitType, LimiterAssumption, ProductOrder DEF Capacity
<1>2. CASE k \notin buckets
  BY <1>1, <1>2, LimiterAssumption DEF Refilled
<1>3. CASE k \in buckets
  <2>1. tokens[k] \in Nat /\ now - updatedAt[k] \in Nat
    BY DEF TypeOK
  <2>2. (now - updatedAt[k]) * Limit(k) \in Int /\ (now - updatedAt[k]) * Limit(k) >= 0
    BY <2>1, LimitType, ProductType, ProductSign
  <2> QED  BY <1>1, <1>3, <2>1, <2>2, LimiterAssumption DEF Refilled, Least
<1> QED  BY <1>1, <1>2, <1>3

\* Before the first request no bucket exists.
LEMMA BucketInit == Init => BucketInv
<1> SUFFICES ASSUME Init PROVE BucketInv
  OBVIOUS
<1>1. TypeOK
  BY LimiterAssumption DEF Init, TypeOK
<1>2. ASSUME NEW k \in Keys PROVE Balance(k)
  <2>1. granted[k] = 0 /\ Window = 0 /\ Refilled(k) = Capacity(k)
    BY DEF Init, Window, Refilled
  <2>2. granted[k] * Minute = 0 /\ Window * Limit(k) = 0
    BY <2>1, LimitType, LimiterAssumption
  <2>3. Limit(k) > 0 => Capacity(k) \in Int /\ Capacity(k) >= 0
    BY <1>1, LevelType, LimitType, LimiterAssumption
  <2> QED  BY <2>1, <2>2, <2>3 DEF Balance, Least
<1> QED  BY <1>1, <1>2 DEF BucketInv

\* The steps that answer a request leave every other bucket alone.
LEMMA AnswerInv ==
  ASSUME BucketInv, NEW k \in Keys, Allow(k) \/ Refuse(k) PROVE BucketInv'
<1>1. TypeOK /\ Limit(k) > 0 /\ Limit(k) \in Int /\ Minute \in Nat \ {0}
  BY LimitType, LimiterAssumption DEF BucketInv, Allow, Refuse
<1>2. /\ Refilled(k) \in Nat /\ Refilled(k) <= Capacity(k) /\ Capacity(k) \in Int
      /\ now \in Nat /\ Window \in Nat /\ granted[k] \in Nat
  BY <1>1, LevelType, LimitType DEF TypeOK, Window
<1>3. /\ now' = now /\ watchedFrom' = watchedFrom /\ Window' = Window
      /\ buckets' = buckets \cup {k}
      /\ updatedAt' = [updatedAt EXCEPT ![k] = now]
  BY DEF Allow, Refuse, observer, Window
<1>4. \/ /\ Refilled(k) >= Minute
         /\ tokens' = [tokens EXCEPT ![k] = Refilled(k) - Minute]
         /\ granted' = [granted EXCEPT ![k] = @ + 1]
      \/ tokens' = [tokens EXCEPT ![k] = Refilled(k)] /\ granted' = granted
  BY DEF Allow, Refuse, observer
<1>5. /\ tokens'[k] \in Nat /\ tokens'[k] <= Capacity(k)
      /\ granted'[k] \in Nat
  BY <1>1, <1>2, <1>4 DEF TypeOK
<1>6. TypeOK'
  BY <1>1, <1>2, <1>3, <1>4, <1>5 DEF TypeOK, Limit, Capacity
<1>7. Refilled(k)' = tokens'[k]
  <2>1. k \in buckets' /\ updatedAt'[k] = now'
    BY <1>1, <1>3 DEF TypeOK
  <2>2. (now' - updatedAt'[k]) * Limit(k) = 0
    BY <1>1, <1>2, <1>3, <2>1
  <2> QED  BY <1>2, <1>5, <2>1, <2>2 DEF Refilled, Least, Limit, Capacity
<1>8. Refilled(k)' + granted'[k] * Minute = Refilled(k) + granted[k] * Minute
  <2>1. (granted[k] + 1) * Minute = granted[k] * Minute + Minute
    BY <1>1, <1>2, OneMore
  <2>2. granted[k] * Minute \in Int
    BY <1>1, <1>2, ProductType
  <2> QED  BY <1>1, <1>2, <1>4, <1>7, <2>1, <2>2 DEF TypeOK
<1>9. Balance(k)'
  <2>1. granted'[k] * Minute \in Int /\ granted[k] * Minute \in Int /\ Refilled(k)' \in Int
    BY <1>1, <1>2, <1>5, <1>7, ProductType
  <2>2. /\ granted[k] * Minute + Refilled(k) <= Capacity(k) + Window * Limit(k)
        /\ Refilled(k) + granted[k] * Minute >= Least(Capacity(k), Window * Limit(k))
    BY <1>1 DEF BucketInv, Balance
  <2>3. /\ granted'[k] * Minute + Refilled(k)' <= Capacity(k) + Window' * Limit(k)
        /\ Refilled(k)' + granted'[k] * Minute >= Least(Capacity(k), Window' * Limit(k))
    BY <1>2, <1>3, <1>8, <2>1, <2>2
  <2>4. Limit(k)' = Limit(k) /\ Capacity(k)' = Capacity(k)
    BY DEF Limit, Capacity
  <2> QED  BY <1>1, <2>3, <2>4 DEF Balance, Least
<1>10. ASSUME NEW j \in Keys, j # k PROVE Balance(j)'
  <2>1. /\ tokens'[j] = tokens[j] /\ updatedAt'[j] = updatedAt[j]
        /\ granted'[j] = granted[j] /\ (j \in buckets' <=> j \in buckets)
    BY <1>1, <1>3, <1>4, <1>10 DEF TypeOK
  <2>2. Refilled(j)' = Refilled(j)
    BY <1>3, <2>1 DEF Refilled, Limit, Capacity
  <2> QED  BY <1>3, <2>1, <2>2 DEF BucketInv, Balance, Limit, Capacity
<1> QED  BY <1>6, <1>9, <1>10 DEF BucketInv

\* The passing of time keeps the invariant: refills are computed at the next request.
LEMMA TickInv == ASSUME BucketInv, Tick PROVE BucketInv'
<1>1. /\ TypeOK /\ now \in Nat /\ now' = now + 1 /\ now' <= MaxTime
      /\ UNCHANGED <<buckets, tokens, updatedAt, watchedFrom, granted>>
  BY LimiterAssumption DEF BucketInv, TypeOK, Tick, bucket, observer
<1>2. TypeOK'
  BY <1>1, LimiterAssumption DEF TypeOK, Limit, Capacity
<1>3. ASSUME NEW k \in Keys PROVE Balance(k)'
  <2>1. CASE Limit(k) <= 0
    BY <1>1, <2>1, LimitType DEF BucketInv, Balance, Limit
  <2>2. CASE Limit(k) > 0
    <3> DEFINE L == Limit(k)
               C == Capacity(k)
               G == granted[k] * Minute
               W == Window * L
               R == Refilled(k)
    <3>1. /\ L \in Int /\ L > 0 /\ C \in Int /\ R \in Nat /\ R <= C
          /\ Window \in Nat /\ granted[k] \in Nat /\ Minute \in Nat
      BY <1>1, <2>2, LimitType, LevelType, LimiterAssumption DEF TypeOK, Window
    <3>2. G \in Int /\ W \in Int /\ W >= 0
      BY <3>1, ProductType, ProductSign
    <3>3. Window' = Window + 1 /\ Window' * L = W + L
      BY <1>1, <3>1, OneMore DEF TypeOK, Window
    <3>4. G + R <= C + W /\ R + G >= Least(C, W)
      BY <1>1, <2>2 DEF BucketInv, Balance
    <3>5. Refilled(k)' = Least(C, R + L)
      <4>1. CASE k \notin buckets
        BY <1>1, <3>1, <4>1 DEF Refilled, Least, Limit, Capacity
      <4>2. CASE k \in buckets
        <5>1. now - updatedAt[k] \in Nat /\ tokens[k] \in Nat
          BY <1>1, <4>2 DEF TypeOK
        <5>2. (now' - updatedAt[k]) * L = (now - updatedAt[k]) * L + L
          <6>1. now' - updatedAt[k] = (now - updatedAt[k]) + 1
            BY <1>1, <5>1 DEF TypeOK
          <6> QED  BY <3>1, <5>1, <6>1, OneMore
        <5>3. (now - updatedAt[k]) * L \in Int
          BY <3>1, <5>1, ProductType
        <5>4. R = Least(C, tokens[k] + (now - updatedAt[k]) * L)
          BY <4>2 DEF Refilled
        <5>5. Refilled(k)' = Least(C, tokens[k] + (now' - updatedAt[k]) * L)
          BY <1>1, <4>2 DEF Refilled, Limit, Capacity, Least
        <5> HIDE DEF L, C, R
        <5> QED  BY <3>1, <5>1, <5>2, <5>3, <5>4, <5>5 DEF Least
      <4> QED  BY <4>1, <4>2
    <3>6. Limit(k)' = L /\ Capacity(k)' = C /\ granted'[k] * Minute = G
      BY <1>1 DEF Limit, Capacity
    <3> HIDE DEF L, C, G, W, R
    <3>7. /\ G + Refilled(k)' <= C + (W + L)
          /\ Refilled(k)' + G >= Least(C, W + L)
      <4>1. G >= 0
        BY <3>1, ProductSign DEF G
      <4> QED  BY <3>1, <3>2, <3>4, <3>5, <4>1 DEF Least
    <3> QED  BY <3>1, <3>3, <3>6, <3>7 DEF Balance, Least
  <2> QED  BY <2>1, <2>2, LimitType
<1> QED  BY <1>2, <1>3 DEF BucketInv

\* So does an observer who starts counting.
LEMMA WatchInv == ASSUME BucketInv, Watch PROVE BucketInv'
<1>1. /\ TypeOK /\ now \in Nat /\ watchedFrom' = now
      /\ UNCHANGED <<now, buckets, tokens, updatedAt>>
      /\ granted' = [k \in Keys |-> 0]
  BY DEF BucketInv, TypeOK, Watch, bucket
<1>2. TypeOK'
  BY <1>1 DEF TypeOK, Limit, Capacity
<1>3. ASSUME NEW k \in Keys PROVE Balance(k)'
  <2>1. /\ Refilled(k)' = Refilled(k) /\ granted'[k] = 0 /\ Window' = 0
        /\ Limit(k)' = Limit(k) /\ Capacity(k)' = Capacity(k)
    BY <1>1 DEF Refilled, Window, Limit, Capacity
  <2>2. granted'[k] * Minute = 0 /\ Window' * Limit(k) = 0
    BY <2>1, LimitType, LimiterAssumption
  <2>3. Limit(k) > 0 => /\ Refilled(k) \in Nat /\ Refilled(k) <= Capacity(k)
                        /\ Capacity(k) \in Int
    BY <1>1, LevelType, LimitType
  <2> QED  BY <2>1, <2>2, <2>3 DEF Balance, Least
<1> QED  BY <1>2, <1>3 DEF BucketInv

\* The bucket and the observer's count stay in balance.
THEOREM BucketInvariant == Spec => []BucketInv
<1>1. ASSUME BucketInv, [Next]_vars PROVE BucketInv'
  <2>1. CASE UNCHANGED vars
    <3>1. UNCHANGED <<now, buckets, tokens, updatedAt, watchedFrom, granted>>
      BY <2>1 DEF vars, bucket, observer
    <3>2. TypeOK'
      BY <1>1, <3>1 DEF BucketInv, TypeOK, Limit, Capacity
    <3>3. ASSUME NEW k \in Keys PROVE Balance(k)'
      BY <1>1, <3>1 DEF BucketInv, Balance, Refilled, Window, Limit, Capacity
    <3> QED  BY <3>2, <3>3 DEF BucketInv
  <2> QED  BY <1>1, <2>1, TickInv, WatchInv, AnswerInv DEF Next
<1> QED  BY <1>1, BucketInit, PTL DEF Spec

\* A bucket is never overdrawn and never holds more than its limit, whatever
\* order requests and seconds come in, and only credentials with a limit have one.
THEOREM LimiterTypes == Spec => []TypeOK
<1>1. BucketInv => TypeOK
  BY DEF BucketInv
<1> QED  BY <1>1, BucketInvariant, PTL

\* At most a full bucket plus the refill is let through, whenever one counts.
THEOREM BurstsBounded == Spec => []BurstBound
<1>1. ASSUME BucketInv, NEW k \in Keys
      PROVE  granted[k] * Minute <= (IF Limit(k) > 0 THEN Limit(k) ELSE 0) * (Minute + Window)
  <2>1. /\ Limit(k) \in Int /\ Minute \in Nat /\ Window \in Nat /\ granted[k] \in Nat
        /\ granted[k] * Minute \in Int
    BY <1>1, LimitType, LimiterAssumption, ProductType DEF BucketInv, TypeOK, Window
  <2>2. CASE Limit(k) <= 0
    <3>1. granted[k] * Minute = 0 /\ 0 * (Minute + Window) = 0
      BY <1>1, <2>1, <2>2 DEF BucketInv, Balance
    <3> QED  BY <2>1, <2>2, <3>1
  <2>3. CASE Limit(k) > 0
    <3>1. granted[k] * Minute + Refilled(k) <= Capacity(k) + Window * Limit(k)
      BY <1>1, <2>3 DEF BucketInv, Balance
    <3>2. Refilled(k) \in Nat
      BY <1>1, <2>3, LevelType DEF BucketInv
    <3>3. Limit(k) * (Minute + Window) = Capacity(k) + Window * Limit(k)
      BY <2>1 DEF Capacity
    <3>4. Capacity(k) + Window * Limit(k) \in Int
      BY <2>1, LimitType, ProductType
    <3> QED  BY <2>1, <2>3, <3>1, <3>2, <3>3, <3>4
  <2> QED  BY <2>1, <2>2, <2>3
<1>2. BucketInv => BurstBound
  BY <1>1 DEF BurstBound
<1> QED  BY <1>2, BucketInvariant, PTL

\* A key below its limit over the last minute is never refused.
THEOREM NobodyStarved == Spec => []NeverStarved
<1>1. ASSUME BucketInv, NEW k \in Keys, Limit(k) > 0, Window >= Minute,
             granted[k] < Limit(k)
      PROVE  Refilled(k) >= Minute
  <2>1. /\ Limit(k) \in Int /\ Minute \in Nat /\ Window \in Nat /\ granted[k] \in Nat
        /\ Refilled(k) \in Nat /\ Capacity(k) \in Int
    BY <1>1, LimitType, LevelType, LimiterAssumption DEF BucketInv, TypeOK, Window
  <2>2. Window * Limit(k) >= Capacity(k) /\ Window * Limit(k) \in Int
    <3>1. Minute * Limit(k) <= Window * Limit(k)
      BY <1>1, <2>1, ProductOrder
    <3>2. Minute * Limit(k) = Capacity(k)
      BY <2>1 DEF Capacity
    <3> QED  BY <2>1, <3>1, <3>2, ProductType
  <2>3. Refilled(k) + granted[k] * Minute >= Capacity(k)
    BY <1>1, <2>1, <2>2 DEF BucketInv, Balance, Least
  <2>4. granted[k] * Minute + Minute <= Capacity(k) /\ granted[k] * Minute \in Int
    <3>1. (granted[k] + 1) * Minute <= Limit(k) * Minute
      BY <1>1, <2>1, ProductOrder
    <3>2. (granted[k] + 1) * Minute = granted[k] * Minute + Minute
      BY <2>1, OneMore
    <3> QED  BY <2>1, <3>1, <3>2, ProductType DEF Capacity
  <2> QED  BY <2>1, <2>3, <2>4
<1>2. BucketInv => NeverStarved
  BY <1>1 DEF NeverStarved
<1> QED  BY <1>2, BucketInvariant, PTL
=============================================================================
