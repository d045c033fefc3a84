\* Two handlers of a set of two objectives, with a text that names the client, two
\* POSTs on its one link and a call request overlap, with two faults of any kind.
SPECIFICATION FairSpec

CONSTANTS
    None = None
    Blank = Blank
    Objectives = {o1, o2}
    Questions = {q, name}
    Flagged = {name}
    Naming = {name}
    Editors = {e1, e2}
    Links = {k1}
    Posts = {s1, s2}
    Clients = {c1}
    Ops = {"patch", "generate", "approve", "deadline", "revoke", "call", "set_read", "set_write", "kill", "lost", "refused"}
    MaxStarts = 3
    MaxFaults = 2

INVARIANTS
    ShownWasScreened
    OkIsKept
    CallStandsOnAnswers

PROPERTIES
    UsedLinkAnswered

\* When everybody has edited, sent and asked, nothing more happens.
CHECK_DEADLOCK FALSE
