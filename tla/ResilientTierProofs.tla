------------------------- MODULE ResilientTierProofs -------------------------
(***************************************************************************)
(* Safety of one memory tier, for any number of tasks, any threshold, any  *)
(* cooldown and any budgets.                                               *)
(***************************************************************************)
EXTENDS ResilientTier, TLAPS

\* What the steps preserve.  ClosedIffEarned alone is not inductive: a closed
\* breaker must also count exactly the failures its callers have seen.
IInv ==
    /\ TypeOK
    /\ breaker.state = "closed" => /\ breaker.failures = streak
                                   /\ streak < FailThreshold
                                   /\ ~poisoned
    /\ breaker.state # "closed" => Down
    /\ HalfOpenIsRested

-----------------------------------------------------------------------------
(* The operators of the breaker. *)

\* Saturating counters stay within their range (UpTo models the clamped reads
\* of the failure counter and of the clock).
LEMMA UpToType ==
    ASSUME NEW limit \in Nat, NEW n \in Nat
    PROVE  UpTo(limit, n) \in 0..limit
BY SMT DEF UpTo

\* Every operation of the breaker yields a breaker (CircuitBreaker).
LEMMA BreakerOpsType ==
    ASSUME NEW b \in Breaker
    PROVE  /\ NewBreaker \in Breaker
           /\ Observed(b) \in Breaker
           /\ Trip(b) \in Breaker
           /\ RecordFailure(b) \in Breaker
           /\ Aged(b) \in Breaker
<1>1. NewBreaker \in Breaker
  BY BreakerAssumption, SMT DEF NewBreaker, Breaker, BreakerState
<1>2. Observed(b) \in Breaker
  BY BreakerAssumption, SMT DEF Observed, Breaker, BreakerState
<1>3. ASSUME NEW x \in Breaker
      PROVE  Trip(x) \in Breaker
  BY <1>3, BreakerAssumption, SMT DEF Trip, Breaker, BreakerState
<1>4. [b EXCEPT !.failures = UpTo(FailThreshold, b.failures + 1)] \in Breaker
  BY BreakerAssumption, SMT DEF UpTo, Breaker, BreakerState
<1>5. RecordFailure(b) \in Breaker
  BY <1>3, <1>4, Zenon DEF RecordFailure
<1>6. Aged(b) \in Breaker
  BY BreakerAssumption, SMT DEF Aged, UpTo, Breaker, BreakerState
<1> QED BY <1>1, <1>2, <1>3, <1>5, <1>6

\* What a failure does to the breaker: below the threshold a closed breaker
\* counts it, at the threshold it trips; a half-open one always trips; an open
\* one is never closed by it (record_failure).
LEMMA FailureEffect ==
    ASSUME NEW b \in Breaker
    PROVE  /\ b.state = "closed" /\ b.failures + 1 < FailThreshold =>
                /\ RecordFailure(b).state = "closed"
                /\ RecordFailure(b).failures = b.failures + 1
                /\ RecordFailure(b).openFor = b.openFor
           /\ b.state = "closed" /\ b.failures + 1 >= FailThreshold =>
                RecordFailure(b).state = "open" /\ RecordFailure(b).openFor = 0
           /\ b.state # "closed" =>
                /\ RecordFailure(b).state \in {"open"}
                /\ \/ RecordFailure(b).openFor = 0
                   \/ ~CooldownElapsed(b) /\ b.state = "open"
                      /\ RecordFailure(b).openFor = b.openFor
BY BreakerAssumption, SMT DEF RecordFailure, Observed, Trip, UpTo, CooldownElapsed, Breaker, BreakerState

-----------------------------------------------------------------------------
(* The invariant. *)

LEMMA InitIInv == Init => IInv
<1> SUFFICES ASSUME Init PROVE IInv
  OBVIOUS
<1>1. breaker \in Breaker
  BY BreakerAssumption, SMT DEF Init, NewBreaker, Breaker, BreakerState
<1>2. breaker.state = "closed" /\ breaker.failures = 0
  BY DEF Init, NewBreaker
<1>3. call \in [Callers -> Call]
  BY DEF Init, Idle, Answers, Call
<1>4. streak = 0 /\ streak \in 0..FailThreshold /\ 0 < FailThreshold /\ poisoned = FALSE
  BY BreakerAssumption, SMT DEF Init
<1>5. TypeOK
  BY <1>1, <1>3, <1>4 DEF TypeOK
<1> QED
  BY <1>2, <1>4, <1>5 DEF IInv, HalfOpenIsRested

\* An answered call leaves the other calls alone and its own task idle.
LEMMA ReturnType ==
    ASSUME TypeOK, NEW c \in Callers, NEW recorded \in Breaker, NEW answer \in Answers,
           Return(c, recorded, answer)
    PROVE  breaker' \in Breaker /\ call' \in [Callers -> Call]
<1>1. Observed(recorded) \in Breaker
  BY BreakerOpsType
<1>2. Idle(answer) \in Call
  BY DEF Idle, Call
<1> QED BY <1>1, <1>2 DEF TypeOK, Return

LEMMA NextIInv ==
    ASSUME IInv, [Next]_vars
    PROVE  IInv'
<1> USE DEF IInv
<1>1. ASSUME NEW c \in Callers, NEW op \in Ops, Begin(c, op)
      PROVE  IInv'
  <2>1. call' \in [Callers -> Call]
    BY <1>1, TierAssumption DEF Begin, TypeOK, Call
  <2>2. breaker' \in Breaker
    BY <1>1, BreakerOpsType DEF Begin, TypeOK
  <2> QED
    BY <1>1, <2>1, <2>2 DEF Begin, TypeOK, Observed, Breaker, Down, HalfOpenIsRested, CooldownElapsed
<1>2. ASSUME NEW c \in Callers, NEW op \in Ops, Skip(c, op)
      PROVE  IInv'
  BY <1>2 DEF Skip, vars, TypeOK, Down, HalfOpenIsRested, CooldownElapsed
<1>3. ASSUME NEW c \in Callers, Succeed(c)
      PROVE  IInv'
  <2>1. breaker' = NewBreaker
    BY <1>3 DEF Succeed, Return, RecordSuccess, Observed, NewBreaker
  <2>2. NewBreaker \in Breaker
    BY BreakerOpsType DEF TypeOK
  <2>3. call' \in [Callers -> Call]
    BY <1>3, <2>2, ReturnType DEF Succeed, RecordSuccess, Answers
  <2>4. breaker'.state = "closed" /\ breaker'.failures = 0
    BY <2>1 DEF NewBreaker
  <2>5. streak' = 0 /\ poisoned' = FALSE
    BY <1>3 DEF Succeed
  <2>6. 0 < FailThreshold /\ 0 \in 0..FailThreshold
    BY BreakerAssumption
  <2>7. TypeOK'
    BY <2>1, <2>2, <2>3, <2>5, <2>6 DEF TypeOK
  <2> QED
    BY <2>4, <2>5, <2>6, <2>7 DEF HalfOpenIsRested
<1>4. ASSUME NEW c \in Callers, Fail(c)
      PROVE  IInv'
  <2> DEFINE failed == RecordFailure(breaker)
  <2>1. failed \in Breaker /\ breaker' = Observed(failed)
    BY <1>4, BreakerOpsType DEF Fail, Return, TypeOK
  <2>2. breaker' \in Breaker /\ call' \in [Callers -> Call]
    BY <1>4, <2>1, ReturnType DEF Fail, Answers
  <2>3. streak' = UpTo(FailThreshold, streak + 1) /\ poisoned' = poisoned
    BY <1>4 DEF Fail
  <2>4. streak' \in 0..FailThreshold
    BY <2>3, UpToType, BreakerAssumption DEF TypeOK
  <2>5. TypeOK'
    BY <2>2, <2>3, <2>4 DEF TypeOK
  <2>6. CASE breaker.state = "closed" /\ breaker.failures + 1 < FailThreshold
    <3>1. failed.state = "closed" /\ failed.failures = breaker.failures + 1
      BY <2>6, FailureEffect DEF TypeOK
    <3>2. breaker' = failed
      BY <2>1, <3>1 DEF Observed
    <3>3. streak' = streak + 1 /\ streak + 1 < FailThreshold
      BY <2>3, <2>6, BreakerAssumption DEF UpTo, TypeOK
    <3> QED BY <2>3, <2>5, <2>6, <3>1, <3>2, <3>3 DEF HalfOpenIsRested
  <2>7. CASE ~(breaker.state = "closed" /\ breaker.failures + 1 < FailThreshold)
    <3>1. failed.state = "open"
      BY <2>7, FailureEffect, BreakerAssumption, SMT DEF TypeOK, Breaker
    <3>2. breaker'.state # "closed" /\ HalfOpenIsRested'
      BY <2>1, <3>1 DEF Observed, Breaker, HalfOpenIsRested, CooldownElapsed
    <3>3. Down'
      BY <2>3, <2>7, BreakerAssumption, SMT DEF Down, UpTo, TypeOK, Breaker
    <3> QED BY <2>5, <3>2, <3>3
  <2> QED BY <2>6, <2>7
<1>5. ASSUME NEW c \in Callers, Corrupt(c)
      PROVE  IInv'
  <2>1. Trip(breaker) \in Breaker /\ Trip(breaker).state = "open"
    BY BreakerOpsType DEF Trip, TypeOK, Breaker
  <2>2. breaker' = Observed(Trip(breaker))
    BY <1>5 DEF Corrupt, Return, ForceOpen
  <2>3. breaker' \in Breaker /\ call' \in [Callers -> Call]
    BY <1>5, <2>1, ReturnType DEF Corrupt, ForceOpen, Answers
  <2>4. breaker'.state # "closed" /\ HalfOpenIsRested'
    BY <2>1, <2>2 DEF Observed, Breaker, HalfOpenIsRested, CooldownElapsed
  <2> QED BY <1>5, <2>3, <2>4 DEF Corrupt, TypeOK, Down
<1>6. ASSUME NEW c \in Callers, Cancel(c)
      PROVE  IInv'
  <2>1. breaker' = Observed(breaker) /\ streak' = streak /\ poisoned' = poisoned
    BY <1>6 DEF Cancel, Return
  <2>2. breaker' \in Breaker /\ call' \in [Callers -> Call]
    BY <1>6, ReturnType DEF Cancel, TypeOK, Answers
  <2> QED
    BY <2>1, <2>2 DEF TypeOK, Observed, Breaker, Down, HalfOpenIsRested, CooldownElapsed
<1>7. CASE Tick
  <2>1. breaker' \in Breaker
    BY <1>7, BreakerOpsType DEF Tick, TypeOK
  <2>2. ASSUME NEW c \in Callers, Waiting(c)
        PROVE  [call[c] EXCEPT !.elapsed = UpTo(MaxBudget, call[c].elapsed + 1)] \in Call
    <3>1. call[c] \in [at: {"waiting"}, op: Ops, elapsed: 0..MaxBudget]
      BY <2>2 DEF TypeOK, Call, Waiting
    <3>2. call[c].elapsed + 1 \in Nat
      BY <3>1, TierAssumption
    <3>3. UpTo(MaxBudget, call[c].elapsed + 1) \in 0..MaxBudget
      BY <3>2, UpToType, TierAssumption
    <3> QED BY <3>1, <3>3 DEF Call
  <2>3. call' \in [Callers -> Call]
    BY <1>7, <2>2 DEF Tick, TypeOK
  <2>4. breaker'.state = breaker.state /\ breaker'.failures = breaker.failures
    BY <1>7 DEF Tick, Aged, TypeOK, Breaker
  <2>5. HalfOpenIsRested'
    BY <1>7, <2>4, BreakerAssumption, SMT
       DEF Tick, Aged, UpTo, TypeOK, Breaker, HalfOpenIsRested, CooldownElapsed
  <2> QED BY <1>7, <2>1, <2>3, <2>4, <2>5 DEF Tick, TypeOK, Down
<1>8. CASE UNCHANGED vars
  BY <1>8 DEF vars, TypeOK, Down, HalfOpenIsRested, CooldownElapsed
<1> QED
  BY <1>1, <1>2, <1>3, <1>4, <1>5, <1>6, <1>7, <1>8 DEF Next, Timeout, BackendError

\* The inductive invariant holds of every behaviour of the tier
\* (ResilientTier.search, ResilientTier.write).
THEOREM IInvHolds == Spec => []IInv
BY InitIInv, NextIInv, PTL DEF Spec

\* The breaker and the calls in flight keep their types, the saturated counters
\* within their ranges (CircuitBreaker, ResilientTier).
THEOREM TypeCorrect == Spec => []TypeOK
<1>1. IInv => TypeOK
  BY DEF IInv
<1> QED BY <1>1, IInvHolds, PTL

\* The breaker of search and write is closed exactly while its callers have
\* seen neither a corruption nor a full run of failures since a success.
THEOREM ClosedEarned == Spec => []ClosedIffEarned
<1>1. IInv => ClosedIffEarned
  BY BreakerAssumption, SMT DEF IInv, TypeOK, ClosedIffEarned, Down
<1> QED BY <1>1, IInvHolds, PTL

\* No interleaving of late failures lets a half-open breaker appear before its
\* cooldown is over (the state property).
THEOREM HalfOpenRested == Spec => []HalfOpenIsRested
<1>1. IInv => HalfOpenIsRested
  BY DEF IInv
<1> QED BY <1>1, IInvHolds, PTL

-----------------------------------------------------------------------------
(* The tier implements the abstract gate. *)

\* The empty tier is the empty gate (CircuitBreaker.__init__).
LEMMA InitGate == Init => Gate!GateInit
BY DEF Init, NewBreaker, Idle, Waiting, Gate!GateInit

\* Publishing the state after an answer moves the gate no further
\* (_publish_state reads the state property).
LEMMA ObservedKeepsGate ==
    ASSUME NEW b \in Breaker
    PROVE  /\ Observed(b).openFor = b.openFor
           /\ Observed(b).state = "closed" <=> b.state = "closed"
BY SMT DEF Observed, Breaker, BreakerState

\* A task whose call returns departs from the gate with its answer, and no
\* other task does (the await of search and write).
LEMMA ReturnDeparts ==
    ASSUME TypeOK, NEW c \in Callers, NEW recorded, NEW answer, Return(c, recorded, answer)
    PROVE  Gate!Depart(c, answer)
<1>1. call' = [call EXCEPT ![c] = Idle(answer)] /\ Waiting(c)
  BY DEF Return
<1>2. \A x \in Callers : call'[x] = IF x = c THEN Idle(answer) ELSE call[x]
  BY <1>1 DEF TypeOK
<1>3. Idle(answer).at # "waiting" /\ Idle(answer).answer = answer
  BY DEF Idle
<1>4. {x \in Callers : Waiting(x)}' = {x \in Callers : Waiting(x)} \ {c}
  BY <1>1, <1>2, <1>3 DEF Waiting
<1>5. [x \in Callers |-> IF Waiting(x) THEN "none" ELSE call[x].answer]'
        = [[x \in Callers |-> IF Waiting(x) THEN "none" ELSE call[x].answer] EXCEPT ![c] = answer]
  <2> DEFINE verdict == [x \in Callers |-> IF Waiting(x) THEN "none" ELSE call[x].answer]
  <2>1. \A x \in Callers : verdict'[x] = IF x = c THEN answer ELSE verdict[x]
    BY <1>1, <1>2, <1>3 DEF Waiting
  <2>2. verdict' = [x \in Callers |-> verdict'[x]]
    OBVIOUS
  <2>3. [verdict EXCEPT ![c] = answer] = [x \in Callers |-> IF x = c THEN answer ELSE verdict[x]]
    OBVIOUS
  <2> HIDE DEF verdict
  <2> QED BY <2>1, <2>2, <2>3 DEF verdict
<1> QED BY <1>1, <1>4, <1>5 DEF Gate!Depart

\* Every step of a tier in a state of its invariant is a step of the gate or
\* leaves the gate alone (search, write, the clock).
LEMMA NextGate ==
    ASSUME IInv, [Next]_vars
    PROVE  [Gate!GateNext]_(Gate!gateVars)
<1> DEFINE busy  == {x \in Callers : Waiting(x)}
           gate  == IF breaker.state = "closed" THEN "up" ELSE "down"
           verdict == [x \in Callers |-> IF Waiting(x) THEN "none" ELSE call[x].answer]
<1>0. TypeOK /\ breaker \in Breaker
  BY DEF IInv, TypeOK
<1>1. ASSUME NEW c \in Callers, NEW op \in Ops, Begin(c, op)
      PROVE  Gate!Admit(c)
  <2>1. breaker'.openFor = breaker.openFor /\ gate' = gate
    BY <1>0, <1>1, ObservedKeepsGate DEF Begin
  <2>2. gate = "up" \/ breaker.openFor >= ResetAfter
    BY <1>0, <1>1 DEF IInv, HalfOpenIsRested, Begin, Allows, Observed, CooldownElapsed, Breaker, BreakerState
  <2>3. c \notin busy
    BY <1>1 DEF Begin
  <2>4. busy' = busy \cup {c} /\ verdict' = [verdict EXCEPT ![c] = "none"]
    <3>1. \A x \in Callers :
            call'[x] = IF x = c THEN [at |-> "waiting", op |-> op, elapsed |-> 0] ELSE call[x]
      BY <1>0, <1>1 DEF Begin, TypeOK
    <3>2. busy' = busy \cup {c}
      BY <3>1 DEF Waiting
    <3>3. \A x \in Callers : verdict'[x] = IF x = c THEN "none" ELSE verdict[x]
      BY <3>1 DEF Waiting
    <3>4. verdict' = [x \in Callers |-> verdict'[x]]
      OBVIOUS
    <3>5. [verdict EXCEPT ![c] = "none"] = [x \in Callers |-> IF x = c THEN "none" ELSE verdict[x]]
      OBVIOUS
    <3> HIDE DEF verdict
    <3> QED BY <3>2, <3>3, <3>4, <3>5
  <2> QED BY <2>1, <2>2, <2>3, <2>4 DEF Gate!Admit
<1>2. ASSUME NEW c \in Callers, Succeed(c)
      PROVE  Gate!Vouch(c)
  <2>1. breaker'.state = "closed" /\ breaker'.openFor = 0
    BY <1>2 DEF Succeed, Return, RecordSuccess, Observed, NewBreaker
  <2>2. Gate!Depart(c, "ok")
    BY <1>0, <1>2, ReturnDeparts DEF Succeed
  <2> QED BY <2>1, <2>2 DEF Gate!Vouch
<1>3. ASSUME NEW c \in Callers, Fail(c)
      PROVE  Gate!Blame(c)
  <2> DEFINE failed == RecordFailure(breaker)
  <2>1. Gate!Depart(c, "failed")
    BY <1>0, <1>3, ReturnDeparts DEF Fail
  <2>2. failed \in Breaker /\ breaker' = Observed(failed)
    BY <1>0, <1>3, BreakerOpsType DEF Fail, Return
  <2>3. breaker'.openFor = failed.openFor /\ (breaker'.state = "closed" <=> failed.state = "closed")
    BY <2>2, ObservedKeepsGate
  <2>4. \/ failed.state # "closed" /\ failed.openFor = 0
        \/ /\ failed.state = "closed" /\ breaker.state = "closed"
           /\ failed.openFor = breaker.openFor
        \/ /\ failed.state # "closed" /\ breaker.state # "closed"
           /\ ~CooldownElapsed(breaker)
           /\ failed.openFor = breaker.openFor
    BY <1>0, FailureEffect, BreakerAssumption, SMT DEF Breaker
  <2>5. ~CooldownElapsed(breaker) => breaker.openFor < ResetAfter
    BY <1>0, BreakerAssumption, SMT DEF CooldownElapsed, Breaker
  <2> QED BY <2>1, <2>3, <2>4, <2>5 DEF Gate!Blame
<1>4. ASSUME NEW c \in Callers, Corrupt(c)
      PROVE  Gate!Blame(c)
  <2>1. Gate!Depart(c, "failed")
    BY <1>0, <1>4, ReturnDeparts DEF Corrupt
  <2>2. Trip(breaker) \in Breaker /\ breaker' = Observed(Trip(breaker))
    BY <1>0, <1>4, BreakerOpsType DEF Corrupt, Return, ForceOpen
  <2>3. breaker'.openFor = 0 /\ breaker'.state # "closed"
    BY <2>2, ObservedKeepsGate DEF Trip
  <2> QED BY <2>1, <2>3 DEF Gate!Blame
<1>5. ASSUME NEW c \in Callers, Cancel(c)
      PROVE  Gate!Leave(c)
  <2>1. Gate!Depart(c, "none")
    BY <1>0, <1>5, ReturnDeparts DEF Cancel
  <2>2. breaker'.openFor = breaker.openFor /\ gate' = gate
    BY <1>0, <1>5, ObservedKeepsGate DEF Cancel, Return
  <2> QED BY <2>1, <2>2 DEF Gate!Leave
<1>6. ASSUME Tick
      PROVE  Gate!Elapse \/ UNCHANGED Gate!gateVars
  <2>1. busy' = busy /\ verdict' = verdict
    <3>1. \A x \in Callers : call'[x].at = call[x].at /\ (~Waiting(x) => call'[x] = call[x])
      <4> SUFFICES ASSUME NEW x \in Callers
                   PROVE  call'[x].at = call[x].at /\ (~Waiting(x) => call'[x] = call[x])
        OBVIOUS
      <4>1. CASE Waiting(x)
        <5>1. call[x] \in [at: {"waiting"}, op: Ops, elapsed: 0..MaxBudget]
          BY <1>0, <4>1 DEF TypeOK, Call, Waiting
        <5> QED BY <1>6, <4>1, <5>1 DEF Tick
      <4>2. CASE ~Waiting(x)
        BY <1>6, <4>2 DEF Tick
      <4> QED BY <4>1, <4>2
    <3>2. \A x \in Callers : Waiting(x)' <=> Waiting(x)
      BY <3>1 DEF Waiting
    <3>3. busy' = busy
      BY <3>2, Zenon
    <3>4. \A x \in Callers : verdict'[x] = verdict[x]
      <4> SUFFICES ASSUME NEW x \in Callers PROVE verdict'[x] = verdict[x]
        OBVIOUS
      <4>1. CASE Waiting(x)
        BY <3>2, <4>1
      <4>2. CASE ~Waiting(x)
        BY <3>1, <3>2, <4>2
      <4> QED BY <4>1, <4>2
    <3>5. verdict' = [x \in Callers |-> verdict'[x]] /\ verdict = [x \in Callers |-> verdict[x]]
      OBVIOUS
    <3> HIDE DEF verdict
    <3> QED BY <3>3, <3>4, <3>5
  <2>2. CASE breaker.state # "closed" /\ breaker.openFor < ResetAfter
    <3>1. breaker'.openFor = breaker.openFor + 1 /\ gate' = gate
      BY <1>0, <1>6, <2>2, BreakerAssumption, SMT DEF Tick, Aged, UpTo, Breaker
    <3> QED BY <2>1, <2>2, <3>1 DEF Gate!Elapse
  <2>3. CASE ~(breaker.state # "closed" /\ breaker.openFor < ResetAfter)
    <3>1. breaker'.openFor = breaker.openFor /\ gate' = gate
      BY <1>0, <1>6, <2>3, BreakerAssumption, SMT DEF Tick, Aged, UpTo, Breaker
    <3> QED BY <2>1, <3>1 DEF Gate!gateVars
  <2> QED BY <2>2, <2>3
<1>7. ASSUME UNCHANGED vars
      PROVE  UNCHANGED Gate!gateVars
  BY <1>7 DEF vars, Waiting, Gate!gateVars
<1>8. ASSUME NEW c \in Callers, NEW op \in Ops, Skip(c, op)
      PROVE  UNCHANGED vars
  BY <1>8 DEF Skip
<1> QED
  BY <1>1, <1>2, <1>3, <1>4, <1>5, <1>6, <1>7, <1>8
     DEF Next, Timeout, BackendError, Gate!GateNext

\* The tier implements the gate: fail fast until the cooldown has elapsed, and
\* a failure let in by a rested breaker starts a full cooldown (allow,
\* record_failure), whatever calls overlap.
THEOREM TierImplementsGate == Spec => ImplementsGate
BY InitGate, NextGate, IInvHolds, PTL DEF Spec, ImplementsGate, Gate!GateSpec

\* The breaker is closed exactly while the answers earned it and half-open only
\* after its whole cooldown (CircuitBreaker).
THEOREM BreakerHolds == Spec => []BreakerSound
BY TypeCorrect, ClosedEarned, HalfOpenRested, PTL DEF BreakerSound

=============================================================================
