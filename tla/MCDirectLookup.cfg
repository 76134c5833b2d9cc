\* Direct lookups whose exchange may hang; deadlock is checked, so the only
\* state the calls may stop in is Over, or a hanging exchange after it.
SPECIFICATION Spec
CONSTANT
    MaxCalls = 2
INVARIANTS
    TypeOK
    ErrorInTimeMeansNoAnswer
    HelperLeaksOnlyAfterTimeout
PROPERTIES
    ReturnsInTime
    KeepsPromise
