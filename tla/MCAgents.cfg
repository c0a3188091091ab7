\* The agents and the World, one part in each behaviour.
SPECIFICATION AgentSpec
CONSTANTS
    None = None
    Missing = Missing
    Torn = Torn
    Parts <- AgentParts
INVARIANTS
    ConversationKept
    RoutingHolds
    BlendHolds
    VerdictsHold
PROPERTIES EveryTurnEnds
