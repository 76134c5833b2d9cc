\* One lookup after the other is enough in race mode.
SPECIFICATION Spec
CONSTANTS
    r1 = r1
    r2 = r2
    r3 = r3
    gone = gone
    Threads = {t1}
    Domains = {d1}
    Resolvers <- ThreeResolvers
    Size = 3
    Others <- Gone
    BestLists <- NoBest
    HighSpread <- Spread
    BestOfConfig <- Best

INVARIANTS
    PoolComplete
