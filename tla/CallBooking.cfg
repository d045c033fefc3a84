\* Two handlers overlap on five requests, one fault among them.
SPECIFICATION Spec

CONSTANTS
    p1 = p1
    p2 = p2
    Procs = {p1, p2}
    Slots = {1, 2}
    MaxRequests = 5
    MaxFaults = 1

SYMMETRY Sym

INVARIANTS
    TypeOK
    StrayMeetings
    LiveCallAgrees
    CancelledOnce

PROPERTIES
    SequenceRises

\* The engagement is over when nothing more is asked of it.
CHECK_DEADLOCK FALSE
