\* Two publishers and two consumers on a resumed run with a queue of two.
SPECIFICATION Spec
CONSTANTS
    p1 = p1
    p2 = p2
    c1 = c1
    c2 = c2
    Publishers = {p1, p2}
    Consumers = {c1, c2}
    Capacity = 2
    Recovered = 1
    MaxDrafts = 4
    MaxFaults = 1
    MaxCaptures = 1
SYMMETRY Symmetry
CHECK_DEADLOCK FALSE
INVARIANTS JournalIsSound JournalFirst SingleConsumer
PROPERTIES TerminalStateIsStable CancelledIsInvisible
