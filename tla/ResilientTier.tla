---------------------------- MODULE ResilientTier ----------------------------
(***************************************************************************)
(* One memory tier behind its timeout and circuit breaker                  *)
(* (ResilientTier in arcana/memory/resilience.py), used by several tasks   *)
(* of the event loop at once.  A call consults the breaker before its      *)
(* await and reports to the breaker after it; every other task runs in     *)
(* between.                                                                *)
(*                                                                         *)
(* streak and poisoned are history variables.  They follow the answers     *)
(* the callers receive and say nothing of how the breaker keeps its state. *)
(***************************************************************************)
EXTENDS CircuitBreaker, FiniteSets

CONSTANTS
    Callers,    \* tasks that share the tier
    Ops,        \* kinds of calls: keyword reads, semantic reads, writes
    Budget,     \* Budget[op]: the ticks wait_for grants a call
    MaxBudget   \* no budget exceeds it

ASSUME TierAssumption ==
    /\ MaxBudget \in Nat
    /\ Budget \in [Ops -> 1..MaxBudget]

VARIABLES
    breaker,    \* the tier's CircuitBreaker
    call,       \* call[c]: what task c is doing
    streak,     \* failures answered since the last success, up to FailThreshold
    poisoned    \* a corruption was answered since the last success

vars == <<breaker, call, streak, poisoned>>

Answers == {"none", "ok", "failed"}

Call == [at: {"idle"}, answer: Answers] \cup [at: {"waiting"}, op: Ops, elapsed: 0..MaxBudget]

Idle(answer) == [at |-> "idle", answer |-> answer]

Waiting(c) == call[c].at = "waiting"

Init ==
    /\ breaker = NewBreaker
    /\ call = [c \in Callers |-> Idle("none")]
    /\ streak = 0
    /\ poisoned = FALSE

-----------------------------------------------------------------------------
(* search and write up to their await. *)

Begin(c, op) ==
    /\ ~Waiting(c)
    /\ Allows(breaker)
    /\ breaker' = Observed(breaker)
    /\ call' = [call EXCEPT ![c] = [at |-> "waiting", op |-> op, elapsed |-> 0]]
    /\ UNCHANGED <<streak, poisoned>>

\* A bug, not used: a skipped call counts as one more failure.
SkipTrips(c, op) ==
    /\ ~Waiting(c)
    /\ ~Allows(breaker)
    /\ breaker' = Trip(breaker)
    /\ UNCHANGED <<call, streak, poisoned>>

\* The breaker is open: an empty answer for a read, TierWriteFailed for a write.
Skip(c, op) ==
    /\ ~Waiting(c)
    /\ ~Allows(breaker)
    /\ UNCHANGED vars

-----------------------------------------------------------------------------
(* search and write after their await: the outcome is recorded and, in the
   finally clause, the state is read once more to publish it. *)

Return(c, recorded, answer) ==
    /\ Waiting(c)
    /\ breaker' = Observed(recorded)
    /\ call' = [call EXCEPT ![c] = Idle(answer)]

Succeed(c) ==
    /\ Return(c, RecordSuccess(breaker), "ok")
    /\ streak' = 0
    /\ poisoned' = FALSE

Fail(c) ==
    /\ Return(c, RecordFailure(breaker), "failed")
    /\ streak' = UpTo(FailThreshold, streak + 1)
    /\ UNCHANGED poisoned

\* A bug, not used: writes are awaited without a budget.
TimeoutOfReads(c) ==
    /\ Waiting(c)
    /\ call[c].op # "write"
    /\ call[c].elapsed >= Budget[call[c].op]
    /\ Fail(c)

Timeout(c) ==
    /\ Waiting(c)
    /\ call[c].elapsed >= Budget[call[c].op]
    /\ Fail(c)

BackendError(c) == Fail(c)

Corrupt(c) ==
    /\ Return(c, ForceOpen(breaker), "failed")
    /\ poisoned' = TRUE
    /\ UNCHANGED streak

\* The task is cancelled at its await: nothing is recorded, and the finally
\* clause still reads the state.
Cancel(c) ==
    /\ Return(c, breaker, "none")
    /\ UNCHANGED <<streak, poisoned>>

-----------------------------------------------------------------------------
(* The monotonic clock.  A call that has overrun its budget may still be
   waiting: its timer fires when the loop gets to it. *)

Tick ==
    /\ breaker' = Aged(breaker)
    /\ call' = [c \in Callers |->
                  IF Waiting(c)
                  THEN [call[c] EXCEPT !.elapsed = UpTo(MaxBudget, call[c].elapsed + 1)]
                  ELSE call[c]]
    /\ UNCHANGED <<streak, poisoned>>

Next ==
    \/ \E c \in Callers, op \in Ops : Begin(c, op)
    \/ \E c \in Callers, op \in Ops : Skip(c, op)
    \/ \E c \in Callers : Succeed(c)
    \/ \E c \in Callers : Timeout(c)
    \/ \E c \in Callers : BackendError(c)
    \/ \E c \in Callers : Corrupt(c)
    \/ \E c \in Callers : Cancel(c)
    \/ Tick

Spec == Init /\ [][Next]_vars

\* Time passes, and the loop runs the timer of a call that overran.  Nothing
\* is assumed of the backend: it may never answer.
Fairness ==
    /\ WF_vars(Tick)
    /\ \A c \in Callers : WF_vars(Timeout(c))

FairSpec == Spec /\ Fairness

-----------------------------------------------------------------------------
(* Properties *)

\* Every variable keeps the values the code can give it.
TypeOK ==
    /\ breaker \in Breaker
    /\ call \in [Callers -> Call]
    /\ streak \in 0..FailThreshold
    /\ poisoned \in BOOLEAN

Down == streak >= FailThreshold \/ poisoned

\* The breaker is closed exactly as long as the callers have seen neither a
\* corruption nor a full run of failures since the last success, whatever
\* order the answers of overlapping calls arrive in (record_success,
\* record_failure, force_open).
ClosedIffEarned == breaker.state = "closed" <=> ~Down

\* A half-open breaker has waited its whole cooldown: no interleaving of late
\* failures opens the gate early (the state property and _trip).
HalfOpenIsRested == breaker.state = "half_open" => CooldownElapsed(breaker)

\* The breaker is closed exactly while the answers earned it and half-open only
\* after its whole cooldown (CircuitBreaker).
BreakerSound == TypeOK /\ ClosedIffEarned /\ HalfOpenIsRested

\* A tripped tier is always let in again, also while its callers keep asking
\* for it: a skipped call does not prolong the cooldown (allow).  And a backend
\* that never answers stalls nobody: each call ends (wait_for).
AlwaysRecovers ==
    /\ []<>Allows(breaker)
    /\ \A c \in Callers : Waiting(c) ~> ~Waiting(c)

Gate == INSTANCE TierGate WITH
    Clients <- Callers,
    Rest <- ResetAfter,
    gate <- IF breaker.state = "closed" THEN "up" ELSE "down",
    rested <- breaker.openFor,
    busy <- {c \in Callers : Waiting(c)},
    verdict <- [c \in Callers |-> IF Waiting(c) THEN "none" ELSE call[c].answer]

\* The tier implements the gate its docstring describes: fail fast until the
\* cooldown has elapsed, and a failed probe starts a full cooldown
\* (CircuitBreaker.allow, record_failure).
ImplementsGate == Gate!GateSpec

=============================================================================
