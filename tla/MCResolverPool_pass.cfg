\* One or two lookups at a time, in every mode.
SPECIFICATION Spec
CONSTANTS
    r1 = r1
    r2 = r2
    r3 = r3
    gone = gone
    Threads = {t1, t2}
    Domains = {d1}
    Resolvers <- ThreeResolvers
    Size = 3
    Others <- Gone
    BestLists <- NoBestOrTwo
    HighSpread <- Spread
    BestOfConfig <- Best
SYMMETRY Symmetry
INVARIANTS
    TypeOK
    SameResolversUnlessContended
    PoolCompleteUnlessCollision
    RaceRuleUnlessDisturbed
    FoundUnlessDisturbed
PROPERTIES
    MappingSettles
