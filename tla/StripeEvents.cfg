\* Three overlapping deliveries at a time, any number of redeliveries.
SPECIFICATION FairSpec
CONSTANTS
    None = None
    Workers = {w1, w2, w3}
    MaxFaults = 3
INVARIANTS
    NothingLost
    OnceWhenHealthy
PROPERTIES
    LeaseIsOwners
    EventuallyAcked
