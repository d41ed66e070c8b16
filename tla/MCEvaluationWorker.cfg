\* One job, delivered twice beside a poison message, two workers, and the unfenced
\* service calls; fair workers and broker.
SPECIFICATION FairSpec
CONSTANTS
    Jobs = {j1}
    Repeated = {j1}
    Workers = {w1, w2}
    Publishers = {}
    Tokens = {1, 2, 3, 4}
    Direct = {d1}
    Copies <- MCCopies
    NoOne = NoOne
    Poison = Poison
    Lease = 1
    MaxFaults = 2
INVARIANTS
    CommittedIsSettled
    OutcomeAgreement
    ResultOfLastClaimant
PROPERTIES
    ImplementsLifecycle
    SubmittedTerminates
    TopicDrains
