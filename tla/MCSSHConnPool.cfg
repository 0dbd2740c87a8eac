\* A retirer unlinks the one entry; leases that had looked it up dial in it, twice.
CONSTANTS
    l1 = l1
    l2 = l2
    i1 = i1
    h1 = h1
    Leases = {l1, l2}
    Identities = {i1}
    Hosts = {h1}
    Retirers = {r1}
    IdentityOf <- MCIdentityOf
    HostOf <- MCHostOf
    MaxEntries = 1
    MaxDials = 2
SPECIFICATION FairSpec
INVARIANTS
    RefsCountHolders
    ReleaseClosesUnshared
    NoStrayTransport
PROPERTIES
    ReplacesOnlyDead
    UnheldIsClosed
