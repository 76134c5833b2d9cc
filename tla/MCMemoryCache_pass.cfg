\* Two goroutines, with and without a limit.
SPECIFICATION Spec
CONSTANTS
    Clients = {c1, c2}
    Keys = {k1, k2, k3}
    Limits <- NoneOrOne
    Expire = 1
    MaxTime = 1
INVARIANTS
    TypeOK
    LimitKeptButForRaces
PROPERTIES
    RefusalIsHonest
