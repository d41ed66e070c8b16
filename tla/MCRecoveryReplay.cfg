SPECIFICATION RuntimeSpec
CONSTANTS
    Focus = {"recovery"}
    k1 = k1
    k2 = k2
    c1 = c1
    c2 = c2
    sa = sa
    sb = sb
    sf = sf
    s1 = s1
    r1 = r1
    r2 = r2
    l1 = l1
    q1 = q1
    q2 = q2
    Callers = {c1, c2}
    Keys = {k1, k2}
    Threshold = 1
    Cooldown = 1
    MaxProbes = 1
    NoKey = NoKey
    Spenders = {c1, c2}
    Delegated = {c2}
    Limit = 5
    Envelope = 2
    Estimate = 2
    Chain <- MCChain
    Durable = {c1}
    MaxAttempts = 2
    Usages = {1, 3}
    Steps = {sa, sb, sf}
    DependsOn <- MCDependsOn
    FinalStep = sf
    MaxParallel = 2
    Lanes = {l1, q1, q2}
    Owners = {l1, q1, q2}
    OwnerOf <- MCOwnerOf
    LeaseTicks = 1
    MaxToken = 3
    NoOwner = NoOwner
    Creators = {l1}
    Scanners = {q1, q2}
    PlanSteps = {s1}
    ApprovalSteps = {}
    MaxRecoveries = 2
    MaxDrives = 2
    MaxUnknown = 2
    NoIdent = NoIdent
    Runs = {r1, r2}
    MaxThreads = 2
SYMMETRY MCSymmetry
INVARIANT CommittedIsNotRedone
CHECK_DEADLOCK FALSE
