\* The file changes twice, in every way it can.
SPECIFICATION Spec
CONSTANTS
    r1 = r1
    r2 = r2
    a = a
    b = b
    ip4 = ip4
    other4 = other4
    ip6 = ip6
    Readers <- MCReaders
    Domains <- MCDomains
    Addresses4 <- MCAddresses4
    Addresses6 <- MCAddresses6
    NoDomain = NoDomain
    NoAddress = NoAddress
    Files <- MCFiles
    Missing = Missing
    MaxEdits = 2
INVARIANTS
    TypeOK
PROPERTIES
    LookupSeesOneFile
    TableSettles
