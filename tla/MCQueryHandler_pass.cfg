SPECIFICATION Spec
CONSTANTS
    shop = shop
    news = news
    cdn = cdn
    Goroutines = {g1, g2}
    Names <- SitesAndCdn
    Asked <- SitesAndCdn
    HostNames <- OneHost
    Unique <- UniqueCdn
    Target <- OwnTargets
    Ids = {i1, i2}
    Settings <- Varied
    MaxBodies = 6
SYMMETRY Symmetry
INVARIANTS
    TypeOK
    IdsMatchUnlessOblivious
    RightAddresses
    RepliesMatchUnlessShared
