\* A bookmark, its search, and the undo of the bookmark; no fault.
SPECIFICATION FairSpec

CONSTANTS
    a1 = a1  a2 = a2  p1 = p1  p2 = p2  NoAddress = NoAddress
    Addresses = {a1}
    DeadAddresses = {}
    FoundFirst = a1
    Workers = {p1}
    MaxBounceRetries = 1
    MaxNudges = 1
    MaxStarts = 2
    MaxFaults = 0
    MaxClock = 1
    FirstRecords <- JustDiscovered
    FirstModes = {"live"}
    Ops = {"bookmark", "unbookmark"}

PROPERTY WithdrawnStaysQuiet

CHECK_DEADLOCK FALSE
