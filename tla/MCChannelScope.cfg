\* One request: two publishing tasks, one request coroutine, a queue of one,
\* a journal that holds one event of an earlier execution of the run.
SPECIFICATION ScopeSpec
CONSTANTS
    p1 = p1
    p2 = p2
    c1 = c1
    Publishers = {p1, p2}
    Consumers = {c1}
    Capacity = 1
    Recovered = 1
    MaxDrafts = 3
    MaxFaults = 1
    MaxCaptures = 0
CHECK_DEADLOCK FALSE
INVARIANTS StreamIsComplete
PROPERTY RequestEnds
