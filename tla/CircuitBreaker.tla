--------------------------- MODULE CircuitBreaker ---------------------------
(***************************************************************************)
(* The circuit breaker of one memory tier (arcana/memory/resilience.py),   *)
(* as operators on a breaker record, so that a module may hold one breaker *)
(* or one per tier.                                                        *)
(*                                                                         *)
(* The clock is only ever compared with _opened_at, so a breaker carries   *)
(* the time since it was opened instead of two clock readings, and that    *)
(* time stops growing once the cooldown has elapsed.  The failure counter  *)
(* is only ever compared with the threshold, so it stops there.            *)
(***************************************************************************)
EXTENDS Integers

CONSTANTS
    FailThreshold,  \* consecutive failures that trip the breaker
    ResetAfter      \* cooldown, in ticks of the clock

ASSUME BreakerAssumption ==
    /\ FailThreshold \in Nat \ {0}
    /\ ResetAfter \in Nat

BreakerState == {"closed", "open", "half_open"}

Breaker == [state: BreakerState, failures: 0..FailThreshold, openFor: 0..ResetAfter]

NewBreaker == [state |-> "closed", failures |-> 0, openFor |-> 0]

UpTo(limit, n) == IF n > limit THEN limit ELSE n

CooldownElapsed(b) == b.openFor >= ResetAfter

\* A bug this code could have, not used: the cooldown ends a tick early.
ObservedEarly(b) ==
    IF b.state = "open" /\ b.openFor + 1 >= ResetAfter THEN [b EXCEPT !.state = "half_open"] ELSE b

\* Reading the state is what moves an open breaker to half_open.
Observed(b) ==
    IF b.state = "open" /\ CooldownElapsed(b)
    THEN [b EXCEPT !.state = "half_open"]
    ELSE b

Allows(b) == Observed(b).state # "open"

\* A bug, not used: a breaker that is tripped again keeps its first opening time.
TripOnce(b) == [state |-> "open", failures |-> b.failures, openFor |-> b.openFor]

Trip(b) == [state |-> "open", failures |-> b.failures, openFor |-> 0]

\* A bug, not used: a success takes one failure back.
ForgiveOne(b) == [state |-> "closed", failures |-> b.failures - 1, openFor |-> 0]

RecordSuccess(b) == NewBreaker

\* A bug, not used: the breaker trips one failure past the threshold.
RecordFailurePast(b) ==
    IF Observed(b).state = "half_open" \/ b.failures + 1 > FailThreshold
    THEN Trip(b)
    ELSE [b EXCEPT !.failures = b.failures + 1]

\* A failure seen half open re-opens without being counted; any other failure
\* is counted, also one that arrives while the breaker is already open.
RecordFailure(b) ==
    LET seen    == Observed(b)
        counted == [b EXCEPT !.failures = UpTo(FailThreshold, b.failures + 1)]
    IN  IF seen.state = "half_open"               THEN Trip(b)
        ELSE IF counted.failures >= FailThreshold THEN Trip(counted)
        ELSE counted

ForceOpen(b) == Trip(b)

\* One tick of the injected clock; a closed breaker holds no opening time.
Aged(b) ==
    IF b.state = "closed" THEN b ELSE [b EXCEPT !.openFor = UpTo(ResetAfter, b.openFor + 1)]

=============================================================================
