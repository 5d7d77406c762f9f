--------------------------- MODULE CircuitBreaker ---------------------------
(***************************************************************************)
(* The gateway's circuit breakers (internal/circuit_breaker.py), one per   *)
(* downstream service, around the requests it forwards                     *)
(* (internal/proxy.py). Many requests are in flight at a time, so outcomes *)
(* arrive late: after the breaker has opened, or after it has closed again.*)
(* A success that arrives late closes an open breaker.                     *)
(***************************************************************************)
EXTENDS Integers, Sequences

CONSTANTS
  Clients,    \* concurrent requests to the gateway
  Services,   \* downstream names
  Threshold,  \* settings.circuit_breaker_failure_threshold
  Recovery,   \* settings.circuit_breaker_recovery_seconds
  Nowhere     \* no request in flight

ASSUME BreakerAssumption ==
  /\ Threshold \in Nat \ {0}
  /\ Recovery \in Nat \ {0}
  /\ Nowhere \notin Services

VARIABLES
  failures,  \* consecutive_failures
  openFor,   \* time left until opened_until, 0 once it has passed
  calling,   \* the service a client's request is in flight to
  lately     \* observer: the last outcomes of each service, TRUE for a failure

breaker == <<failures, openFor>>
vars    == <<breaker, calling, lately>>

TypeOK ==
  /\ failures \in [Services -> 0..(Threshold - 1)]
  /\ openFor \in [Services -> 0..Recovery]
  /\ calling \in [Clients -> Services \cup {Nowhere}]
  /\ lately \in [Services -> Seq(BOOLEAN)]

Init ==
  /\ failures = [s \in Services |-> 0]
  /\ openFor = [s \in Services |-> 0]
  /\ calling = [c \in Clients |-> Nowhere]
  /\ lately = [s \in Services |-> <<>>]

\* The observer remembers Threshold outcomes.
Observe(s, failed) ==
  LET seen == Append(lately[s], failed)
  IN lately' = [lately EXCEPT ![s] = IF Len(seen) > Threshold THEN Tail(seen) ELSE seen]

\* Mutant: the answer of before_request is ignored.
ForwardAnyway(c, s) ==
  /\ calling[c] = Nowhere
  /\ calling' = [calling EXCEPT ![c] = s]
  /\ UNCHANGED <<breaker, lately>>

\* before_request lets the request through. (While the breaker is open it
\* raises, which changes nothing.)
Forward(c, s) ==
  /\ calling[c] = Nowhere
  /\ openFor[s] = 0
  /\ calling' = [calling EXCEPT ![c] = s]
  /\ UNCHANGED <<breaker, lately>>

\* Mutant: a success while the breaker is closed leaves the count alone.
SuccessKeepsCount(s) ==
  IF openFor[s] = 0 THEN UNCHANGED breaker
  ELSE /\ failures' = [failures EXCEPT ![s] = 0]
       /\ openFor' = [openFor EXCEPT ![s] = 0]

RecordSuccess(s) ==
  /\ failures' = [failures EXCEPT ![s] = 0]
  /\ openFor' = [openFor EXCEPT ![s] = 0]

\* Mutant: the count is not reset when the breaker opens.
FailureKeepsCount(s) ==
  /\ failures' = [failures EXCEPT ![s] = @ + 1]
  /\ openFor' = [openFor EXCEPT ![s] = IF failures[s] + 1 >= Threshold THEN Recovery ELSE @]

RecordFailure(s) ==
  IF failures[s] + 1 >= Threshold
  THEN /\ openFor' = [openFor EXCEPT ![s] = Recovery]
       /\ failures' = [failures EXCEPT ![s] = 0]
  ELSE /\ failures' = [failures EXCEPT ![s] = @ + 1]
       /\ UNCHANGED openFor

\* An answer below 500.
Answered(c) ==
  /\ calling[c] # Nowhere
  /\ RecordSuccess(calling[c])
  /\ Observe(calling[c], FALSE)
  /\ calling' = [calling EXCEPT ![c] = Nowhere]

\* A timeout, a transport error or an answer of 500 or more.
Failed(c) ==
  /\ calling[c] # Nowhere
  /\ RecordFailure(calling[c])
  /\ Observe(calling[c], TRUE)
  /\ calling' = [calling EXCEPT ![c] = Nowhere]

\* Any other end of the request, such as its cancellation, is not recorded.
Abandoned(c) ==
  /\ calling[c] # Nowhere
  /\ calling' = [calling EXCEPT ![c] = Nowhere]
  /\ UNCHANGED <<breaker, lately>>

Tick ==
  /\ \E s \in Services : openFor[s] > 0
  /\ openFor' = [s \in Services |-> IF openFor[s] > 0 THEN openFor[s] - 1 ELSE 0]
  /\ UNCHANGED <<failures, calling, lately>>

Next ==
  \/ \E c \in Clients, s \in Services : Forward(c, s)
  \/ \E c \in Clients : Answered(c) \/ Failed(c) \/ Abandoned(c)
  \/ Tick

\* The monotonic clock goes on; nothing is promised about any request.
Spec == Init /\ [][Next]_vars /\ WF_vars(Tick)
-----------------------------------------------------------------------------
\* A breaker opens only on a service whose last Threshold outcomes were all
\* failures, in whatever order the requests were sent.
OpensOnlyOnStreak ==
  [][\A s \in Services :
       openFor'[s] > openFor[s] => lately'[s] = [k \in 1..Threshold |-> TRUE]]_vars

\* An open breaker closes: failures of requests sent before it opened may
\* prolong it, but never for good, whatever clients and services do.
Recovers == \A s \in Services : openFor[s] > 0 ~> openFor[s] = 0
=============================================================================
