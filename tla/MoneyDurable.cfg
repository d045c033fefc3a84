\* Two requests overlap, Stripe forgets its keys between handlers, no fault.
SPECIFICATION Spec

CONSTANTS
    None = None
    p1 = p1
    p2 = p2
    m1 = m1
    m2 = m2
    Manuals = {}
    Minutes = {8, 20}
    BookedMin = 20
    MaxAttempts = 2
    MaxIntents = 2
    MaxLinks = 2
    Procs = {p1, p2}
    Ops = {"complete", "zoom", "admin", "cancel", "flag", "sweep", "expire"}
    Bookings = {TRUE}
    MaxStarts = 2
    MaxFaults = 0
    PayOutcomes = {"succeeded", "processing", "none"}
    Outcomes = {"both", "clientNoShow", "expertNoShow", "neither", "unknown"}

SYMMETRY Sym

INVARIANTS
    OneCardChargePerCall
    OneTransferPerCall

\* The engagement is over when nothing more is asked of it.
CHECK_DEADLOCK FALSE
