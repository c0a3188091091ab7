\* The tools and the models of an agent, one part in each behaviour.
SPECIFICATION Spec
CONSTANTS
    Tooling <- AllTooling
    None = None
    Unread = Unread
    Nothing = Nothing
    Gone = Gone
    TornFile = TornFile
INVARIANTS
    FilesKept
    ProgramsAndPages
    CredentialsHold
    CallsTranslated
    RequestsSound
PROPERTIES
    
    EverythingEnds
