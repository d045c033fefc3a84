\* Runs started, delivered, lost and swept while the row is saved and billed.
SPECIFICATION FairSpec

CONSTANTS
    p1 = p1
    p2 = p2
    e1 = e1
    e2 = e2
    Workers = {p1, p2}
    Candidates = {e1, e2}
    Cap = 1
    Passes <- MCPasses
    Ops = {"start", "save", "add", "remove", "bill", "publish", "outage", "kill", "redeliver", "drop"}
    MaxStarts = 2
    MaxOthers = 1
    MaxFaults = 1

INVARIANTS
    AddedOnce

PROPERTIES
    OneLiveRun
    GuardedWritesMerge
    RunEnds

\* Nothing more is asked of the project.
CHECK_DEADLOCK FALSE
