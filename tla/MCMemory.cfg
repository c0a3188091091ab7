\* The parts of the memory beside the federation, one in each behaviour.
SPECIFICATION Spec
CONSTANTS
    None = None
    Parts <- MemoryParts
INVARIANTS
    StoresOpen
    RowsAndVectors
    SearchIsSound
    NotesAreCurrent
    TurnsRemembered
    ReportsHold
PROPERTIES NothingSpoiled
