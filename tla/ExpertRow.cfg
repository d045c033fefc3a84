\* Four racing calls, the source's three retries, one removal.
SPECIFICATION MCSpec
CONSTANTS
    sweep1 = sweep1
    sweep2 = sweep2
    webhook = webhook
    staff = staff
    Writers <- MCWriters
    Docs <- MCDocs
    Mutate <- MCMutate
    FreshDoc <- MCFreshDoc
    Retries = 3
    MaxRemovals = 1
INVARIANTS
    RefusedByContention
PROPERTIES
    SerialWrites
CHECK_DEADLOCK FALSE
