SPECIFICATION RunLiveSpec
CONSTANTS
    Focus = {"tools"}
    pa = pa
    pb = pb
    om = om
    e1 = e1
    e2 = e2
    r = r
    m = m
    i1 = i1
    NoOwner = NoOwner
    NoInv = NoInv
    Owners = {pa, pb}
    Lanes = {e1, r}
    OwnerOf <- LiveOwnerOf
    Executors = {e1}
    Reconcilers = {r}
    Operators = {}
    Invs = {i1}
    Gated = {}
    Kinds = {"supported", "unsupported", "unregistered"}
    Punctual = {r}
    LeaseTicks = 1
    MaxToken = 6
    MaxReconcile = 2
    Mortals = {pa}
    Starters = {e1}
    Resumers = {r}
    Pins <- MCPins
    MaxBatch = 4
    MaxFailures = 2
PROPERTIES OpenIsSettled
CHECK_DEADLOCK FALSE
