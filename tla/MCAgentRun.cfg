SPECIFICATION FairSpec
CONSTANTS
    t1 = t1
    t2 = t2
    None = None
    Runs = {r1, r2}
    Slots = {1}
    Subscribed <- MCSubscribed
    Base <- MCBase
    Baseline <- MCBaseline
    RuleSets <- MCRuleSets
    MaxIterations = 3
INVARIANTS GuardHolds SameTool
PROPERTIES RunsEnd
