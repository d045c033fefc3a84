\* Two handlers overlap on two requests, with two faults among them.
SPECIFICATION FairSpec

CONSTANTS
    a1 = a1  a2 = a2  p1 = p1  p2 = p2  NoAddress = NoAddress
    Addresses = {a1, a2}
    DeadAddresses = {a1}
    FoundFirst = a1
    Workers = {p1, p2}
    MaxBounceRetries = 1
    MaxNudges = 1
    MaxStarts = 2
    MaxFaults = 2
    MaxClock = 1
    FirstRecords <- JustDiscovered
    FirstModes = {"live", "review"}
    Ops = {"bookmark", "approve", "unbookmark", "pass", "edit", "mode", "held",
           "no_line", "unsubscribe", "complain", "redis_out", "resend_down",
           "answer_lost", "queue_down", "db_down", "read_lost", "write_lost", "kill"}

INVARIANTS
    TypeOK
    SentStaysClaimed
    ContactedMeansSent

PROPERTIES
    ColdMailHolds
    SearchEnds

CHECK_DEADLOCK FALSE
