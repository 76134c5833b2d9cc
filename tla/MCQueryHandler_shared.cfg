SPECIFICATION Spec
CONSTANTS
    shop = shop
    news = news
    cdn = cdn
    Goroutines = {g1}
    Names <- SitesAndCdn
    Asked <- Sites
    HostNames = {}
    Unique = {}
    Target <- SharedTarget
    Ids = {i1, i2}
    Settings <- DefaultOnly
    MaxBodies = 6
INVARIANT
    RepliesMatch
