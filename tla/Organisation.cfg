\* Members changed, seats synced, faults and the nightly sweeps.
SPECIFICATION FairSpec

CONSTANTS
    p1 = p1
    p2 = p2
    champ = champ
    other = other
    Staff = Staff
    Members = {champ, other}
    Workers = {p1, p2}
    Ops = {"patch", "staff_patch", "transfer", "invite", "accept", "remove", "sync", "bill", "close", "kill", "row_write", "claims", "refused", "count", "stripe", "record", "bill_read"}
    MaxStarts = 2
    MaxFaults = 1
    MaxSubs = 4
    Firsts <- MCFirsts

INVARIANTS
    TypeOK
    OneSubscription
    ChampionKept

PROPERTIES
    SeatsBilled
    RevocationLands

\* A removed organisation is asked nothing more.
CHECK_DEADLOCK FALSE
