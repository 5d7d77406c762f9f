------------------------ MODULE CircuitBreakerProofs ------------------------
(***************************************************************************)
(* Theorems about the circuit breakers, for any number of requests in      *)
(* flight and of services, any threshold and any recovery time.            *)
(*                                                                         *)
(* StreakInv  what a breaker counts is the streak of failures at the end   *)
(*            of what the observer has seen, whatever arrives late.        *)
(***************************************************************************)
EXTENDS CircuitBreaker, SequenceTheorems, TLAPS

\* The last n outcomes of a service were all failures.
EndsInFailures(seen, n) ==
  n <= Len(seen) /\ \A k \in (Len(seen) - n + 1)..Len(seen) : seen[k] = TRUE

StreakInv ==
  \A s \in Services : /\ Len(lately[s]) <= Threshold
                      /\ EndsInFailures(lately[s], failures[s])

BreakerInv == TypeOK /\ StreakInv

\* What the observer remembers after one more outcome.
Remembered(seen, failed) ==
  IF Len(seen) + 1 > Threshold THEN Tail(Append(seen, failed)) ELSE Append(seen, failed)

\* The window of the observer slides by one outcome at most.
LEMMA Window ==
  ASSUME NEW seen \in Seq(BOOLEAN), NEW failed \in BOOLEAN, Len(seen) <= Threshold
  PROVE  LET next  == Remembered(seen, failed)
             moved == IF Len(seen) + 1 > Threshold THEN 1 ELSE 0
         IN /\ next \in Seq(BOOLEAN)
            /\ Len(next) = Len(seen) + 1 - moved
            /\ next[Len(next)] = failed
            /\ \A k \in 1..(Len(next) - 1) : next[k] = seen[k + moved]
  <1> DEFINE longer == Append(seen, failed)
  <1>1. /\ longer \in Seq(BOOLEAN) /\ Len(longer) = Len(seen) + 1
        /\ longer[Len(seen) + 1] = failed /\ \A k \in 1..Len(seen) : longer[k] = seen[k]
    OBVIOUS
  <1>2. Len(seen) \in Nat /\ Threshold \in Nat \ {0}
    BY BreakerAssumption
  <1>3. CASE Len(seen) + 1 > Threshold
    <2>1. longer # <<>>
      BY <1>1, <1>2
    <2>2. /\ Tail(longer) \in Seq(BOOLEAN) /\ Len(Tail(longer)) = Len(longer) - 1
          /\ \A k \in 1..(Len(longer) - 1) : Tail(longer)[k] = longer[k + 1]
      BY <1>1, <2>1
    <2> HIDE DEF longer
    <2>3. Remembered(seen, failed) = Tail(longer)
      BY <1>3 DEF Remembered, longer
    <2> QED  BY <1>1, <1>2, <1>3, <2>2, <2>3
  <1>4. CASE ~(Len(seen) + 1 > Threshold)
    BY <1>1, <1>2, <1>4 DEF Remembered
  <1> QED  BY <1>3, <1>4

\* A failure makes the streak longer by one.
LEMMA StreakGrows ==
  ASSUME NEW seen \in Seq(BOOLEAN), Len(seen) <= Threshold, NEW n \in 0..(Threshold - 1),
         EndsInFailures(seen, n)
  PROVE  EndsInFailures(Remembered(seen, TRUE), n + 1)
  <1>1. Len(seen) \in Nat /\ Threshold \in Nat \ {0}
    BY BreakerAssumption
  <1> DEFINE next == Remembered(seen, TRUE)
             moved == IF Len(seen) + 1 > Threshold THEN 1 ELSE 0
  <1>2. /\ Len(next) = Len(seen) + 1 - moved /\ next[Len(next)] = TRUE
        /\ \A k \in 1..(Len(next) - 1) : next[k] = seen[k + moved]
    BY Window
  <1> HIDE DEF next
  <1>3. ASSUME NEW k \in (Len(next) - (n + 1) + 1)..Len(next) PROVE next[k] = TRUE
    <2>1. CASE k = Len(next)
      BY <1>2, <2>1
    <2>2. CASE k < Len(next)
      <3>1. k \in 1..(Len(next) - 1) /\ k + moved \in (Len(seen) - n + 1)..Len(seen)
        BY <1>1, <1>2, <1>3, <2>2 DEF EndsInFailures
      <3> HIDE DEF moved
      <3>2. next[k] = seen[k + moved]
        BY <1>2, <3>1
      <3>3. seen[k + moved] = TRUE
        BY <3>1 DEF EndsInFailures
      <3> QED  BY <3>2, <3>3, Zenon
    <2>3. k = Len(next) \/ k < Len(next)
      BY <1>1, <1>2, <1>3
    <2> QED  BY <2>1, <2>2, <2>3, Zenon
  <1>4. n + 1 <= Len(next)
    BY <1>1, <1>2 DEF EndsInFailures
  <1> QED  BY <1>3, <1>4 DEF EndsInFailures, next

\* An outcome of s is counted and remembered together.
LEMMA OutcomeInv ==
  ASSUME BreakerInv, NEW s \in Services, NEW failed \in BOOLEAN, Observe(s, failed),
         (failed = TRUE /\ RecordFailure(s)) \/ RecordSuccess(s)
  PROVE  /\ failures' \in [Services -> 0..(Threshold - 1)]
         /\ openFor' \in [Services -> 0..Recovery]
         /\ lately' \in [Services -> Seq(BOOLEAN)]
         /\ StreakInv'
  <1>1. /\ failures \in [Services -> 0..(Threshold - 1)] /\ openFor \in [Services -> 0..Recovery]
        /\ lately \in [Services -> Seq(BOOLEAN)]
        /\ Threshold \in Nat \ {0} /\ Recovery \in Nat \ {0}
    BY BreakerAssumption DEF BreakerInv, TypeOK
  <1>2. \A u \in Services : Len(lately[u]) <= Threshold /\ EndsInFailures(lately[u], failures[u])
    BY DEF BreakerInv, StreakInv
  <1>3. lately' = [lately EXCEPT ![s] = Remembered(lately[s], failed)]
    BY <1>1 DEF Observe, Remembered
  <1>4. /\ Remembered(lately[s], failed) \in Seq(BOOLEAN)
        /\ Len(Remembered(lately[s], failed)) <= Threshold
    BY <1>1, <1>2, Window
  <1>5. lately' \in [Services -> Seq(BOOLEAN)]
    BY <1>1, <1>3, <1>4
  <1>6. /\ failures' \in [Services -> 0..(Threshold - 1)]
        /\ openFor' \in [Services -> 0..Recovery]
        /\ \A u \in Services \ {s} : failures'[u] = failures[u]
        /\ failures'[s] = 0 \/ (failed = TRUE /\ failures'[s] = failures[s] + 1)
    <2>1. CASE failed = TRUE /\ RecordFailure(s)
      <3>1. CASE failures[s] + 1 >= Threshold
        <4>1. /\ openFor' = [openFor EXCEPT ![s] = Recovery]
              /\ failures' = [failures EXCEPT ![s] = 0]
          BY <2>1, <3>1 DEF RecordFailure
        <4> QED  BY <1>1, <4>1
      <3>2. CASE ~(failures[s] + 1 >= Threshold)
        BY <1>1, <2>1, <3>2 DEF RecordFailure
      <3> QED  BY <3>1, <3>2
    <2>2. CASE RecordSuccess(s)
      BY <1>1, <2>2 DEF RecordSuccess
    <2> QED  BY <2>1, <2>2
  <1>7. ASSUME NEW u \in Services \ {s}
        PROVE  Len(lately'[u]) <= Threshold /\ EndsInFailures(lately'[u], failures'[u])
    BY <1>1, <1>2, <1>3, <1>6
  <1>8. Len(lately'[s]) <= Threshold /\ EndsInFailures(lately'[s], failures'[s])
    <2>1. lately'[s] = Remembered(lately[s], failed)
      BY <1>1, <1>3
    <2>2. CASE failures'[s] = 0
      <3>1. EndsInFailures(Remembered(lately[s], failed), 0)
        BY <1>4 DEF EndsInFailures
      <3> QED  BY <1>4, <2>1, <2>2, <3>1
    <2>3. CASE failed = TRUE /\ failures'[s] = failures[s] + 1
      <3>1. EndsInFailures(Remembered(lately[s], TRUE), failures[s] + 1)
        BY <1>1, <1>2, StreakGrows
      <3> QED  BY <1>4, <2>1, <2>3, <3>1
    <2> QED  BY <1>6, <2>2, <2>3
  <1>9. StreakInv'
    BY <1>7, <1>8 DEF StreakInv
  <1> QED  BY <1>5, <1>6, <1>9

\* Every step keeps BreakerInv.
LEMMA BreakerStep == BreakerInv /\ [Next]_vars => BreakerInv'
  <1> SUFFICES ASSUME BreakerInv, [Next]_vars PROVE BreakerInv'
    OBVIOUS
  <1>1. TypeOK /\ StreakInv
    BY DEF BreakerInv
  <1>2. CASE UNCHANGED <<breaker, lately>> /\ calling' \in [Clients -> Services \cup {Nowhere}]
    BY <1>1, <1>2 DEF BreakerInv, TypeOK, StreakInv, breaker
  <1>3. ASSUME NEW c \in Clients, NEW s \in Services, Forward(c, s) PROVE BreakerInv'
    BY <1>1, <1>2, <1>3 DEF Forward, TypeOK
  <1>4. ASSUME NEW c \in Clients, Abandoned(c) PROVE BreakerInv'
    BY <1>1, <1>2, <1>4 DEF Abandoned, TypeOK
  <1>5. ASSUME NEW c \in Clients, Answered(c) \/ Failed(c) PROVE BreakerInv'
    <2>1. calling[c] \in Services /\ calling' \in [Clients -> Services \cup {Nowhere}]
      BY <1>1, <1>5 DEF Answered, Failed, TypeOK
    <2>2. \/ Observe(calling[c], FALSE) /\ RecordSuccess(calling[c])
          \/ Observe(calling[c], TRUE) /\ RecordFailure(calling[c])
      BY <1>5 DEF Answered, Failed
    <2> QED  BY <2>1, <2>2, OutcomeInv DEF BreakerInv, TypeOK
  <1>6. CASE Tick
    <2>1. openFor' \in [Services -> 0..Recovery] /\ UNCHANGED <<failures, calling, lately>>
      BY <1>1, <1>6, BreakerAssumption DEF Tick, TypeOK
    <2> QED  BY <1>1, <2>1 DEF BreakerInv, TypeOK, StreakInv
  <1>7. CASE UNCHANGED vars
    BY <1>1, <1>7 DEF BreakerInv, TypeOK, StreakInv, vars, breaker
  <1> QED  BY <1>3, <1>4, <1>5, <1>6, <1>7 DEF Next

\* The initial state satisfies BreakerInv.
LEMMA BreakerInit == Init => BreakerInv
  BY BreakerAssumption DEF Init, BreakerInv, TypeOK, StreakInv, EndsInFailures

\* Along every behaviour.
THEOREM BreakerInvariant == Spec => []BreakerInv
  BY BreakerInit, BreakerStep, PTL DEF Spec

\* A breaker counts fewer failures than its threshold and stays open no longer
\* than its recovery time, however late the outcomes arrive.
THEOREM BreakerTypes == Spec => []TypeOK
  <1>1. BreakerInv => TypeOK
    BY DEF BreakerInv
  <1> QED  BY <1>1, BreakerInvariant, PTL

\* A breaker opens, or stays open longer, only on a streak of failures as long
\* as the threshold.
THEOREM OpensOnStreaks == Spec => OpensOnlyOnStreak
  <1>1. BreakerInv /\ [Next]_vars
          => [\A s \in Services :
                openFor'[s] > openFor[s] => lately'[s] = [k \in 1..Threshold |-> TRUE]]_vars
    <2> SUFFICES ASSUME BreakerInv, [Next]_vars, NEW s \in Services, openFor'[s] > openFor[s]
                 PROVE  lately'[s] = [k \in 1..Threshold |-> TRUE]
      OBVIOUS
    <2>1. /\ failures \in [Services -> 0..(Threshold - 1)]
          /\ openFor \in [Services -> 0..Recovery]
          /\ Threshold \in Nat \ {0} /\ Recovery \in Nat \ {0}
      BY BreakerAssumption DEF BreakerInv, TypeOK
    <2>2. /\ lately \in [Services -> Seq(BOOLEAN)] /\ Len(lately[s]) <= Threshold
          /\ EndsInFailures(lately[s], failures[s])
      BY DEF BreakerInv, TypeOK, StreakInv
    <2>3. ASSUME Tick PROVE FALSE
      BY <2>1, <2>3 DEF Tick
    <2>4. ASSUME NEW c \in Clients, Answered(c) PROVE FALSE
      <3>1. calling[c] \in Services /\ openFor' = [openFor EXCEPT ![calling[c]] = 0]
        BY <2>4 DEF Answered, RecordSuccess, BreakerInv, TypeOK
      <3> QED  BY <2>1, <3>1
    <2>5. PICK c \in Clients : Failed(c)
      <3>1. openFor' # openFor
        BY <2>1
      <3> QED  BY <2>3, <2>4, <3>1 DEF Next, Forward, Abandoned, vars, breaker
    <2>6. calling[c] \in Services /\ RecordFailure(calling[c]) /\ Observe(calling[c], TRUE)
      BY <2>5 DEF Failed, BreakerInv, TypeOK
    <2>7. calling[c] = s /\ failures[s] = Threshold - 1
      <3>1. /\ failures[calling[c]] + 1 >= Threshold
            /\ openFor' = [openFor EXCEPT ![calling[c]] = Recovery]
        <4>1. openFor' # openFor
          BY <2>1
        <4> QED  BY <2>6, <4>1 DEF RecordFailure
      <3> QED  BY <2>1, <2>6, <3>1
    <2>8. lately'[s] = Remembered(lately[s], TRUE)
      BY <2>2, <2>6, <2>7 DEF Observe, Remembered
    <2>9. /\ Threshold - 1 \in 0..(Threshold - 1) /\ Threshold - 1 + 1 = Threshold
          /\ lately[s] \in Seq(BOOLEAN)
      BY <2>1, <2>2
    <2>10. EndsInFailures(lately'[s], Threshold)
      BY <2>2, <2>7, <2>8, <2>9, StreakGrows
    <2>11. lately'[s] \in Seq(BOOLEAN) /\ Len(lately'[s]) <= Threshold
      <3>1. Len(lately[s]) \in Nat
        BY <2>9
      <3>2. /\ lately'[s] \in Seq(BOOLEAN)
            /\ Len(lately'[s])
                 = Len(lately[s]) + 1 - (IF Len(lately[s]) + 1 > Threshold THEN 1 ELSE 0)
        BY <2>2, <2>8, <2>9, Window
      <3> QED  BY <2>1, <2>2, <3>1, <3>2
    <2>12. Len(lately'[s]) = Threshold
      BY <2>1, <2>10, <2>11 DEF EndsInFailures
    <2>13. ASSUME NEW k \in 1..Threshold PROVE lately'[s][k] = TRUE
      <3>1. k \in (Threshold - Threshold + 1)..Threshold
        BY <2>1
      <3> QED  BY <2>10, <2>12, <3>1, Zenon DEF EndsInFailures
    <2>14. lately'[s] = [k \in 1..Threshold |-> lately'[s][k]]
      BY <2>11, <2>12
    <2> QED  BY <2>13, <2>14, Zenon
  <1> QED  BY <1>1, BreakerInvariant, PTL DEF Spec, OpensOnlyOnStreak
=============================================================================
