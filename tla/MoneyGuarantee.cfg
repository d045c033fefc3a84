\* A call inside the guarantee: three requests race over one card charge.
SPECIFICATION FairSpec

CONSTANTS
    None = None
    p1 = p1
    p2 = p2
    m1 = m1
    m2 = m2
    Manuals = {}
    Minutes = {8}
    BookedMin = 8
    MaxAttempts = 2
    MaxIntents = 2
    MaxLinks = 1
    Procs = {p1, p2}
    Ops = {"complete", "zoom", "flag", "sweep"}
    Bookings = {TRUE}
    MaxStarts = 3
    MaxFaults = 0
    PayOutcomes = {"succeeded"}
    Outcomes = {"both"}

PROPERTIES
    CardMoneyOfFlaggedReturned
    NoPaidCallForgotten
    NoWaivedCallForgotten

\* The engagement is over when nothing more is asked of it.
CHECK_DEADLOCK FALSE
