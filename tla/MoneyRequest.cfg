\* Any single request, with every way a payment can go and one fault.
SPECIFICATION Spec

CONSTANTS
    None = None
    p1 = p1
    p2 = p2
    m1 = m1
    m2 = m2
    Manuals = {m1}
    Minutes = {8, 20}
    BookedMin = 20
    MaxAttempts = 2
    MaxIntents = 2
    MaxLinks = 1
    Procs = {p1, p2}
    Ops = {"complete", "zoom", "admin", "cancel", "flag", "sweep", "refund", "redeliver", "outage"}
    Bookings = {TRUE, FALSE}
    MaxStarts = 1
    MaxFaults = 1
    PayOutcomes = {"succeeded", "processing", "declined", "none"}
    Outcomes = {"both", "clientNoShow", "expertNoShow", "neither", "unknown"}

SYMMETRY Sym

INVARIANTS
    TransfersBacked

\* The engagement is over when nothing more is asked of it.
CHECK_DEADLOCK FALSE
