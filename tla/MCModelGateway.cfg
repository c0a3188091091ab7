\* The adapter pool, its cooldown, the retries and a close, on two connections.
SPECIFICATION FairSpec
CONSTANTS
    Callers = {c1, c2}
    Keys = {k1, k2}
    CheckedOnly = {k2}
    Streamers = {c1}
    Adapters = {a1, a2}
    NoAdapter = NoAdapter
    MaxRetries = 1
    Cooldown = 2
    MaxCloses = 1
ACTION_CONSTRAINT CallsAllowed
INVARIANTS CacheSound AnsweredOnce
PROPERTIES CallsEnd
