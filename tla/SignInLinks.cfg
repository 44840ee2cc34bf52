SPECIFICATION Spec
CONSTANTS
    Emails = {e1}
    Handlers = {h1, h2}
    TokenTTL = 2
    SessionTTL = 1
    PerWindow = 1
    MaxLinks = 3
    MaxStays = 2
    MaxTime = 3
SYMMETRY Symmetry
INVARIANTS
    TypeOK
    LinkOpensOneSession
    
    UsableLinksBounded
\* The clock and the links run out: the system may stop.
CHECK_DEADLOCK FALSE
