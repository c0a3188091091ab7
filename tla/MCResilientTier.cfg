\* Breaker of one tier: threshold, cooldown, refinement and liveness.
SPECIFICATION ProbeSpec
CONSTANTS
    FailThreshold = 2
    ResetAfter = 2
    Callers = {c1, c2, c3}
    Ops = {"keyword", "semantic", "write"}
    Budget <- MCBudget
    MaxBudget = 2
INVARIANTS BreakerSound
PROPERTIES ImplementsGate AlwaysRecovers
