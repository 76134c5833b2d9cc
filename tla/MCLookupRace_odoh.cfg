\* A unique website: oDoH routines that return before defer waitGroup.Done().
SPECIFICATION Spec
CONSTANTS
    MaxResolvers = 2
    InsertionFactor = 0
    UniqueSites <- UniqueOnly
    SelfResolvers <- NoneSelf
PROPERTIES
    LookupReturns
CHECK_DEADLOCK FALSE
