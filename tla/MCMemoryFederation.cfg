\* Fan-out writes, merged searches and forgets over three tiers.
SPECIFICATION Spec
CONSTANTS
    Clients = {c1, c2}
    Ids = {m}
    TierOrder <- MCTierOrder
    ReadOnly = {"vault"}
    Queries = {"any"}
    MaxOps = 3
INVARIANTS WritesAccounted MostLocalWins
PROPERTIES StepsAllowed AnchorIsDurable
SYMMETRY MCClients
