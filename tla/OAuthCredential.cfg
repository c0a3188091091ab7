\* Two requests on one OAuth connection, racing each other and the command line.
SPECIFICATION FairSpec
CONSTANTS
    Callers = {c1, c2}
    Nobody = Nobody
    MaxIssued = 3
INVARIANTS RenewedOnce StaysRenewable SignOutIsFinal
PROPERTIES RequestsEnd
