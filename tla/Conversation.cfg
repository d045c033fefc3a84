\* A thread whose follow-up waits for approval; two handlers overlap on two
\* requests or replies, with one fault among them and two mornings.
SPECIFICATION FairSpec

CONSTANTS
    a1 = a1  p1 = p1  p2 = p2  NoAddress = NoAddress
    Addresses = {a1}
    DeadAddresses = {}
    Workers = {p1, p2}
    MaxBounceRetries = 1
    MaxNudges = 1
    MaxStarts = 2
    MaxFaults = 1
    MaxClock = 4
    FirstRecords <- AnsweredOrCountered
    FirstModes = {"live"}
    Ops = {"reply", "auto", "declined", "counter", "conflict", "unclear",
           "interested", "release", "decide", "no_calendar", "unsubscribe",
           "complain", "mode", "held", "cron_twice", "redelivered",
           "resend_down", "answer_lost", "append_lost", "clear_lost", "restore_lost",
           "read_lost", "write_lost", "kill"}

INVARIANTS
    FollowUpsOnThread
    SpokenWasMailed

PROPERTIES
    FirstFinisherWins
    QuietHolds
    EventsAnswered

CHECK_DEADLOCK FALSE
