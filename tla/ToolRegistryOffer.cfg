\* One command at a time.
SPECIFICATION Spec
CONSTANTS
    Servers = {s1}
    Tools = {t1}
    Commands = {p1}
    MaxVersion = 2
    Torn = Torn
INVARIANT ChangedNotOffered
