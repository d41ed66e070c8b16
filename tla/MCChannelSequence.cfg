\* A cancelled run in which nothing fails.
SPECIFICATION Spec
CONSTANTS
    p1 = p1
    p2 = p2
    c1 = c1
    c2 = c2
    Publishers = {p1, p2}
    Consumers = {c1}
    Capacity = 2
    Recovered = 0
    MaxDrafts = 3
    MaxFaults = 0
    MaxCaptures = 0
CHECK_DEADLOCK FALSE
INVARIANT SequenceNotReused
