\* Two publishers on two events in one batch, which may outlive its lease; fair
\* publishers and clock.
SPECIFICATION PFairSpec
CONSTANTS
    Jobs = {j1, j2}
    Workers = {}
    Publishers = {p1, p2}
    Tokens = {1, 2, 3, 4, 5}
    Direct = {}
    Copies <- MCCopies
    NoOne = NoOne
    Poison = Poison
    BatchSize = 2
    OutboxLease = 1
    RetryBase = 1
    RetryMax = 2
    AttemptCap = 1
    MaxOutages = 2
INVARIANTS
    PublishedIsInTopic
PROPERTIES
    LeaseIsExclusive
    EventuallyPublished

