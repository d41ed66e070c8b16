SPECIFICATION RunSpec
CONSTANTS
    Focus = {"tools", "loop"}
    pa = pa
    pb = pb
    om = om
    e1 = e1
    e2 = e2
    r = r
    m = m
    i1 = i1
    NoOwner = NoOwner
    NoInv = NoInv
    Owners = {pa, pb, om}
    Lanes = {e1, e2, r, m}
    OwnerOf <- MCOwnerOf
    Executors = {e1, e2}
    Reconcilers = {r}
    Operators = {m}
    Invs = {i1}
    Gated = {i1}
    Kinds = {"supported", "unsupported", "unregistered"}
    Punctual = {}
    LeaseTicks = 1
    MaxToken = 3
    MaxReconcile = 2
    Mortals = {pa, pb}
    Starters = {e1}
    Resumers = {r}
    Pins <- MCPins
    MaxBatch = 4
    MaxFailures = 2
INVARIANTS EffectAtMostOnce CommittedHappened ApprovedAndClaimedOnce
    LoopWritesOnce WriteFollowsReads ObservationIsWhole
PROPERTIES LedgerIsFenced SettledIsFinal
CHECK_DEADLOCK FALSE
