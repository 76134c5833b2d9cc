\* Every mode of the call: oDoH questions, a resolver that is this host.
\* Exchanges need not end, which is why one answer must be enough for a race.
\* The lookups that never call Done leave a call that waits for ever, so the
\* system may stop.
SPECIFICATION SlowNetworkSpec
CONSTANTS
    MaxResolvers = 3
    InsertionFactor = 1
    UniqueSites <- BothKinds
    SelfResolvers <- OneSelf
INVARIANTS
    TypeOK
    WaitGroupExact
    NoSendOnClosedChannel
    ErrorMeansNoAnswer
    OnlyTheNeverDoneBlock
PROPERTIES
    EveryStepAdvances
    ImplementsContract
    EarlyReturn
CHECK_DEADLOCK FALSE
