SPECIFICATION Spec
CONSTANTS
    n1 = n1
    n2 = n2
    l1 = l1
    l2 = l2
    h1 = h1
    h2 = h2
    lma = lma
    mag1 = mag1
    mag2 = mag2
    Zero = Zero
    ZeroPrefix = ZeroPrefix
    NoMn = NoMn
    NoLink = NoLink
    None = None
    Addr = {lma, mag1, mag2}
    Prefix = {h1, h2}
    Mn = {n1, n2}
    Link = {l1, l2}
    ProfileHnp <- MCProfileHnp
    PoolSize = 1
    PoolPrefix <- MCPool
    Cover <- MCCover
    linkOf <- MCLinkOf
    Att <- MCAtt
    AccessIf = {3}
    Life = 1
    MaxRetry = 0
    MaxBce = 2
    MaxTime = 1
    MaxSeq1 = 2
    MaxSeq2 = 2
VIEW MCView
INVARIANTS
    PrefixAgreement
    ServedEndToEnd
PROPERTIES
    KeepsPromise
CHECK_DEADLOCK FALSE
