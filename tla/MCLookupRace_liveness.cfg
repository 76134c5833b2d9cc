\* Plain DNS and DoH over remote resolvers; deadlock is checked, so the only
\* state the call may stop in is Over.
SPECIFICATION Spec
CONSTANTS
    MaxResolvers = 3
    InsertionFactor = 1
    UniqueSites <- OrdinarySites
    SelfResolvers <- NoneSelf
PROPERTIES
    LookupReturns
    NothingLeaks
