---------------------------- MODULE CircuitBreaker ----------------------------
(***************************************************************************)
(* The circuit breakers of the model services                                *)
(* (api/src/services/circuit_breaker.rs): a count of failures and the time at *)
(* which the breaker opened, two atomics that are read one after the other     *)
(* without the lock under which they are written one after the other.  Loads    *)
(* and stores take effect in program order.                                    *)
(***************************************************************************)
EXTENDS Naturals

CONSTANTS
    Breakers,    \* the services that are guarded
    Callers,     \* the searches that run at a time
    Nobody,      \* holder of a free lock
    Threshold    \* failures that open a breaker

ASSUME BreakerAssumption ==
    /\ Threshold \in Nat \ {0}
    /\ Nobody \notin Callers

VARIABLES
    failures,  \* consecutive_failures, not told apart beyond the threshold
    opened,    \* opened_at_millis: "no" for 0, else whether the timeout has elapsed
    lock       \* state_lock

breakerVars == <<failures, opened, lock>>

BreakerTypeOK ==
    /\ failures \in [Breakers -> 0 .. Threshold + 1]
    /\ opened \in [Breakers -> {"no", "recent", "old"}]
    /\ lock \in [Breakers -> Callers \cup {Nobody}]

BreakerInit ==
    /\ failures = [b \in Breakers |-> 0]
    /\ opened = [b \in Breakers |-> "no"]
    /\ lock = [b \in Breakers |-> Nobody]

\* The state that a count and a time stand for.
State(count, time) ==
    IF count < Threshold \/ time = "no" THEN "closed"
    ELSE IF time = "old" THEN "half_open" ELSE "open"

StateOf(b) == State(failures[b], opened[b])

Elapse(b) ==
    /\ opened[b] = "recent"
    /\ opened' = [opened EXCEPT ![b] = "old"]
    /\ UNCHANGED <<failures, lock>>

\* Mutant: record_success does not take the lock.
SwapFailuresUnlocked(c, b) ==
    /\ failures' = [failures EXCEPT ![b] = 0]
    /\ UNCHANGED <<opened, lock>>

\* record_success: the count is reset, then the time.
SwapFailures(c, b) ==
    /\ lock[b] = Nobody
    /\ failures' = [failures EXCEPT ![b] = 0]
    /\ lock' = [lock EXCEPT ![b] = c]
    /\ UNCHANGED opened

StoreClosed(b) ==
    /\ opened' = [opened EXCEPT ![b] = "no"]
    /\ lock' = [lock EXCEPT ![b] = Nobody]
    /\ UNCHANGED failures

\* record_failure: the failure that reaches the threshold stores the time next.
AddFailure(c, b) ==
    /\ lock[b] = Nobody
    /\ failures' = [failures EXCEPT ![b] = IF @ > Threshold THEN @ ELSE @ + 1]
    /\ lock' = IF failures[b] + 1 = Threshold THEN [lock EXCEPT ![b] = c] ELSE lock
    /\ UNCHANGED opened

StoreOpened(b) ==
    /\ opened' = [opened EXCEPT ![b] = "recent"]
    /\ lock' = [lock EXCEPT ![b] = Nobody]
    /\ UNCHANGED failures

\* The two atomics agree whenever nobody is between its two writes: a count at
\* the threshold without a time would be a breaker that never opens again, a time
\* without the count one that opens at once the next time.
BreakersAgree ==
    \A b \in Breakers :
        lock[b] = Nobody => (failures[b] >= Threshold <=> opened[b] # "no")
==============================================================================
