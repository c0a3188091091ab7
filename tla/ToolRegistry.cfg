\* Two commands that overlap, and an agent.
SPECIFICATION Spec
CONSTANTS
    Servers = {s1}
    Tools = {t1}
    Commands = {p1, p2}
    MaxVersion = 2
    Torn = Torn
INVARIANTS TrustHolds StatusTells
