\* Two calls, discoveries or closes on one MCP server.
SPECIFICATION FairSpec
CONSTANTS
    Callers = {c1, c2}
    Sessions = {s1, s2, s3, s4}
    None = None
    Credentials = TRUE
INVARIANTS SessionSound
PROPERTIES CallsEnd
