\* One job through one publisher and two workers, delivered up to twice, and a poison message.
SPECIFICATION PipelineFairSpec
CONSTANTS
    Jobs = {j1}
    Workers = {w1, w2}
    Publishers = {p1}
    Tokens = {1, 2, 3, 4}
    Direct = {}
    Copies <- MCCopies
    MaxCopies = 2
    NoOne = NoOne
    Poison = Poison
    BatchSize = 1
    OutboxLease = 1
    RetryBase = 1
    RetryMax = 1
    AttemptCap = 0
    MaxOutages = 1
    Lease = 1
    MaxFaults = 1
PROPERTIES
    SubmittedIsProcessed
